----------------------------- MODULE MmapLists -----------------------------
(***************************************************************************)
(* The VMA list of every process stays sorted and describes exactly the    *)
(* pages its process can touch, for every layout of the address space and  *)
(* every number of processes, pages and calls.                             *)
(*                                                                         *)
(* One lemma per action, saying that it keeps ListInv (module MmapInv);    *)
(* then the theorems.                                                      *)
(***************************************************************************)
EXTENDS MmapListOps

(***************************************************************************)
(* What a step of one process leaves alone.                                *)
(***************************************************************************)
\* The head of the list has no guard page.
HeadGuard(l) == l # <<>> => l[1].guardstart \in {0, JUNK, NOGUARD}

\* A step for process p leaves the others alone: their locals and lists, the
\* page tables of those that live on, and the children they are making.
Elsewhere(p) ==
  /\ \A q \in Procs \ {p} :
       /\ pc'[q] = pc[q] /\ loc'[q] = loc[q] /\ list'[q] = list[q]
       /\ Live(q)' => Live(q) /\ pte'[q] = pte[q]
  /\ \A c \in Procs : st[c] = "EMBRYO" /\ parent[c] # p =>
       st'[c] = st[c] /\ parent'[c] = parent[c] /\ own'[c] = own[c]

\* The type of what a handler works on.
LEMMA Handler ==
  ASSUME Inv, NEW p \in Procs
  PROVE  /\ list[p] \in Seq(VmaType) /\ pte[p] \in SUBSET PteType
         /\ loc[p] \in LocType /\ HandlerOK(p)
         /\ loc[p].va \in Int /\ loc[p].end \in Int /\ loc[p].k \in Int
         /\ loc[p].q \in Procs \cup {None}
<1>1. list[p] \in Seq(VmaType) /\ pte[p] \in SUBSET PteType /\ loc[p] \in LocType
  BY Zenon DEF Inv, TypeOK
<1>2. HandlerOK(p)
  BY Zenon DEF Inv, Control
<1> QED
  BY <1>1, <1>2, Zenon DEF LocType

\* The other processes keep their part of the invariant.
LEMMA Others ==
  ASSUME Inv, ListInv, NEW p \in Procs, Elsewhere(p), SlotOK(p)', ListOK(p)'
  PROVE  ListInv'
<1> SUFFICES ASSUME NEW q \in Procs, q # p PROVE SlotOK(q)' /\ ListOK(q)'
  BY Zenon DEF ListInv
<1>1. /\ pc'[q] = pc[q] /\ loc'[q] = loc[q] /\ list'[q] = list[q]
      /\ Live(q)' => Live(q) /\ pte'[q] = pte[q]
  BY Zenon DEF Elsewhere
<1>2. SlotOK(q) /\ ListOK(q)
  BY Zenon DEF ListInv
<1>3. /\ InMmap(q)' <=> InMmap(q)
      /\ InGrow(q)' <=> InGrow(q)
      /\ InFork(q)' <=> InFork(q)
  BY <1>1, Zenon DEF InMmap, InGrow, InFork
<1>4. InFork(q) => loc[q].q \in Procs
  <2>1. HandlerOK(q)
    BY Handler, Zenon
  <2> QED
    BY <2>1, Zenon DEF HandlerOK, InFork
<1>5. InFork(q) => /\ st'[loc'[q].q] = "EMBRYO" /\ parent'[loc'[q].q] = q
                   /\ ~ own'[loc'[q].q]
  <2> SUFFICES ASSUME InFork(q), NEW c, c = loc[q].q
               PROVE  st'[c] = "EMBRYO" /\ parent'[c] = q /\ ~ own'[c]
    BY <1>1, Zenon
  <2>1. c \in Procs /\ st[c] = "EMBRYO" /\ parent[c] = q /\ ~ own[c]
    BY <1>2, <1>4, Zenon DEF SlotOK
  <2>2. parent[c] # p
    BY <2>1, Zenon
  <2>3. st'[c] = st[c] /\ parent'[c] = parent[c] /\ own'[c] = own[c]
    BY <2>1, <2>2, Zenon DEF Elsewhere
  <2> QED
    BY <2>1, <2>3, Zenon
<1>6. SlotOK(q)'
  BY <1>1, <1>2, <1>3, <1>5, Zenon DEF SlotOK
<1>7. ASSUME Live(q)' PROVE /\ MmapLoop(q) => MmapLoop(q)'
                            /\ Growing(q) => Growing(q)'
  <2>1. pte'[q] = pte[q] /\ loc'[q] = loc[q] /\ list'[q] = list[q]
    BY <1>1, <1>7, Zenon
  <2>2. New(q)' = New(q)
    BY <2>1, Zenon DEF New
  <2> QED
    BY <1>1, <2>1, <2>2, Zenon DEF MmapLoop, Growing
<1>8. ListOK(q)'
  BY <1>1, <1>2, <1>3, <1>7, Zenon DEF ListOK
<1> QED
  BY <1>6, <1>8, Zenon

\* Nothing changes, or the kernel stops.
LEMMA SameList ==
  ASSUME ListInv, UNCHANGED <<st, parent, killed, list, pte, pc, loc, own>>
  PROVE  ListInv'
<1> SUFFICES ASSUME NEW q \in Procs PROVE SlotOK(q)' /\ ListOK(q)'
  BY Zenon DEF ListInv
<1>1. SlotOK(q) /\ ListOK(q)
  BY Zenon DEF ListInv
<1>2. /\ InMmap(q)' <=> InMmap(q)
      /\ InGrow(q)' <=> InGrow(q)
      /\ InFork(q)' <=> InFork(q)
      /\ Live(q)' <=> Live(q)
      /\ New(q)' = New(q)
  BY Zenon DEF InMmap, InGrow, InFork, Live, New
<1>3. MmapLoop(q)' <=> MmapLoop(q)
  BY <1>2, Zenon DEF MmapLoop
<1>4. Growing(q)' <=> Growing(q)
  BY Zenon DEF Growing
<1>5. SlotOK(q)'
  BY <1>1, <1>2, Zenon DEF SlotOK
<1>6. ListOK(q)'
  BY <1>1, <1>2, <1>3, <1>4, Zenon DEF ListOK
<1> QED
  BY <1>5, <1>6, Zenon

\* panic(), or a wild pointer is followed.
LEMMA StopList ==
  ASSUME ListInv, NEW why, Stop(why)
  PROVE  ListInv'
BY SameList, Zenon DEF Stop

\* A process outside the loops of sys_mmap, fork() and the fault handler.
LEMMA Idle ==
  ASSUME NEW p \in Procs, pc'[p] \in {"user", "munmap"}, HeadGuard(list'[p]),
         Live(p)' => Tidy(list'[p], pte'[p])
  PROVE  SlotOK(p)' /\ ListOK(p)'
<1>1. ~ InMmap(p)' /\ ~ InGrow(p)' /\ ~ InFork(p)' /\ pc'[p] # "fault"
  BY Zenon DEF InMmap, InGrow, InFork
<1> QED
  BY <1>1, Zenon DEF SlotOK, ListOK, HeadGuard

\* Where a process is when it is in none of the loops, its list is tidy.
LEMMA IdleTidy ==
  ASSUME ListInv, NEW p \in Procs, pc[p] \in {"user", "munmap", "fork", "fault"}
  PROVE  HeadGuard(list[p]) /\ (Live(p) => Tidy(list[p], pte[p]))
<1>1. ~ InMmap(p) /\ ~ InGrow(p) /\ SlotOK(p) /\ ListOK(p)
  BY Zenon DEF InMmap, InGrow, ListInv
<1> QED
  BY <1>1, Zenon DEF SlotOK, ListOK, HeadGuard

\* exit(), called for a process that runs.
LEMMA ExitList ==
  ASSUME Inv, ListInv, NEW p \in Procs, st[p] = "RUN", exit(p),
         HeadGuard(list'[p]), UNCHANGED own,
         \A q \in Procs \ {p} : /\ list'[q] = list[q] /\ pte'[q] = pte[q]
                                /\ killed'[q] = killed[q]
  PROVE  ListInv'
<1>1. /\ pc' = [pc EXCEPT ![p] = "user"]
      /\ loc' = [loc EXCEPT ![p] = NoLoc]
      /\ st' = [st EXCEPT ![p] = "ZOMBIE"]
      /\ parent' = [c \in Procs |-> IF parent[c] = p THEN InitProc ELSE parent[c]]
  BY Zenon DEF exit, Goto
<1>2. p \in DOMAIN pc /\ p \in DOMAIN st
  BY Zenon DEF Inv, TypeOK
<1>3. pc'[p] = "user" /\ st'[p] = "ZOMBIE"
  BY <1>1, <1>2, Zenon
<1>4. SlotOK(p)' /\ ListOK(p)'
  <2>1. ~ Live(p)'
    BY <1>3, Zenon DEF Live
  <2> QED
    BY <1>3, <2>1, Idle, Zenon
<1>5. Elsewhere(p)
  <2>1. \A q \in Procs \ {p} : pc'[q] = pc[q] /\ loc'[q] = loc[q] /\ st'[q] = st[q]
    BY <1>1, Zenon DEF Inv, TypeOK
  <2>2. \A q \in Procs \ {p} : Live(q)' => Live(q)
    BY <2>1, Zenon DEF Live
  <2>3. \A c \in Procs : st[c] = "EMBRYO" /\ parent[c] # p =>
          st'[c] = st[c] /\ parent'[c] = parent[c]
    <3>1. \A c \in Procs : st[c] = "EMBRYO" => c # p
      BY Zenon
    <3>2. \A c \in Procs : parent[c] # p => parent'[c] = parent[c]
      BY <1>1, Zenon
    <3> QED
      BY <2>1, <3>1, <3>2, Zenon
  <2> QED
    BY <2>1, <2>2, <2>3, Zenon DEF Elsewhere
<1> QED
  BY <1>4, <1>5, Others, Zenon

\* The way back to user space.
LEMMA ReturnList ==
  ASSUME Inv, ListInv, NEW p \in Procs, st[p] = "RUN", Return(p),
         HeadGuard(list'[p]), UNCHANGED own,
         own[p] /\ ~ killed'[p] => Tidy(list'[p], pte'[p]),
         \A q \in Procs \ {p} : /\ list'[q] = list[q] /\ pte'[q] = pte[q]
                                /\ killed'[q] = killed[q]
  PROVE  ListInv'
<1>1. CASE killed'[p]
  BY <1>1, ExitList, Zenon DEF Return
<1>2. CASE ~ killed'[p]
  <2>1. /\ pc' = [pc EXCEPT ![p] = "user"]
        /\ loc' = [loc EXCEPT ![p] = NoLoc]
        /\ UNCHANGED <<st, parent>>
    BY <1>2, Zenon DEF Return, Goto
  <2>2. pc'[p] = "user"
    BY <2>1, Zenon DEF Inv, TypeOK
  <2>3. SlotOK(p)' /\ ListOK(p)'
    <3>1. Live(p)' => Tidy(list'[p], pte'[p])
      BY <1>2, Zenon DEF Live
    <3> QED
      BY <2>2, <3>1, Idle, Zenon
  <2>4. Elsewhere(p)
    <3>1. \A q \in Procs \ {p} : pc'[q] = pc[q] /\ loc'[q] = loc[q]
      BY <2>1, Zenon DEF Inv, TypeOK
    <3>2. \A q \in Procs \ {p} : Live(q)' => Live(q)
      BY <2>1, Zenon DEF Live
    <3> QED
      BY <2>1, <3>1, <3>2, Zenon DEF Elsewhere
  <2> QED
    BY <2>3, <2>4, Others, Zenon
<1> QED
  BY <1>1, <1>2, Zenon

\* A step that only moves process p to another place.
LEMMA MoveElsewhere ==
  ASSUME NEW p \in Procs, UNCHANGED <<st, parent, killed, own>>,
         \A q \in Procs \ {p} : /\ pc'[q] = pc[q] /\ loc'[q] = loc[q]
                                /\ list'[q] = list[q] /\ pte'[q] = pte[q]
  PROVE  Elsewhere(p)
BY Zenon DEF Elsewhere, Live

(***************************************************************************)
(* sys_munmap, traps and exit().                                           *)
(***************************************************************************)
\* A process in user space, not killed.
LEMMA UserIs ==
  ASSUME NEW p \in Procs, InUser(p)
  PROVE  st[p] = "RUN" /\ pc[p] = "user" /\ ~ killed[p]
BY Zenon DEF InUser, At

\* Updating the place and the locals of one process.
LEMMA Moved ==
  ASSUME Inv, NEW p \in Procs, NEW l, NEW v, Goto(p, l),
         loc' = [loc EXCEPT ![p] = v]
  PROVE  /\ pc'[p] = l /\ loc'[p] = v
         /\ \A q \in Procs \ {p} : pc'[q] = pc[q] /\ loc'[q] = loc[q]
BY Zenon DEF Goto, Inv, TypeOK

\* Entering sys_munmap, whose loop only looks.
LEMMA SysMunmapList ==
  ASSUME Inv, ListInv, NEW p \in Procs, NEW addr, NEW len,
         SysMunmap(p, addr, len)
  PROVE  ListInv'
<1>1. CASE Stop("wild")
  BY <1>1, StopList, Zenon
<1>2. CASE ~ Stop("wild")
  <2>1. PICK k \in Visited(list[p]) :
          loc' = [loc EXCEPT ![p] = [NoLoc EXCEPT !.op = "munmap", !.q = p,
                    !.k = k, !.va = addr, !.end = uint(addr + len)]]
    BY <1>2, Zenon DEF SysMunmap
  <2>2. /\ Goto(p, "munmap") /\ InUser(p)
        /\ UNCHANGED <<st, parent, killed, list, pte, own>>
    BY <1>2, Zenon DEF SysMunmap
  <2>3. /\ pc'[p] = "munmap"
        /\ \A q \in Procs \ {p} : pc'[q] = pc[q] /\ loc'[q] = loc[q]
    BY <2>1, <2>2, Moved, Zenon
  <2>4. pc[p] = "user"
    BY <2>2, UserIs, Zenon
  <2>5. HeadGuard(list[p]) /\ (Live(p) => Tidy(list[p], pte[p]))
    BY <2>4, IdleTidy, Zenon
  <2>6. SlotOK(p)' /\ ListOK(p)'
    <3>1. Live(p)' => Tidy(list'[p], pte'[p])
      BY <2>2, <2>5, Zenon DEF Live
    <3>2. HeadGuard(list'[p])
      BY <2>2, <2>5, Zenon
    <3> QED
      BY <2>3, <3>1, <3>2, Idle, Zenon
  <2>7. Elsewhere(p)
    BY <2>2, <2>3, MoveElsewhere, Zenon
  <2> QED
    BY <2>6, <2>7, Others, Zenon
<1> QED
  BY <1>1, <1>2, Zenon

\* The loop of sys_munmap.
LEMMA MunmapLoopList ==
  ASSUME Inv, ListInv, NEW p \in Procs, MunmapLoop(p)
  PROVE  ListInv'
<1>1. CASE Stop("wild")
  BY <1>1, StopList, Zenon
<1>2. CASE ~ Stop("wild")
  <2>1. /\ loc' = [loc EXCEPT ![p].va = @ + PGSIZE] /\ pc[p] = "munmap"
        /\ UNCHANGED <<st, parent, killed, list, pte, pc, own>>
    BY <1>2, Zenon DEF MunmapLoop, At
  <2>2. HeadGuard(list[p]) /\ (Live(p) => Tidy(list[p], pte[p]))
    BY <2>1, IdleTidy, Zenon
  <2>3. SlotOK(p)' /\ ListOK(p)'
    <3>1. Live(p)' => Tidy(list'[p], pte'[p])
      BY <2>1, <2>2, Zenon DEF Live
    <3>2. HeadGuard(list'[p]) /\ pc'[p] = "munmap"
      BY <2>1, <2>2, Zenon
    <3> QED
      BY <3>1, <3>2, Idle, Zenon
  <2>4. Elsewhere(p)
    <3>1. \A q \in Procs \ {p} : loc'[q] = loc[q]
      BY <2>1, Zenon DEF Inv, TypeOK
    <3> QED
      BY <2>1, <3>1, MoveElsewhere, Zenon
  <2> QED
    BY <2>3, <2>4, Others, Zenon
<1> QED
  BY <1>1, <1>2, Zenon

\* The end of sys_munmap.
LEMMA MunmapReturnList ==
  ASSUME Inv, ListInv, NEW p \in Procs, MunmapReturn(p)
  PROVE  ListInv'
<1>1. /\ st[p] = "RUN" /\ pc[p] = "munmap" /\ Return(p)
      /\ UNCHANGED <<killed, list, pte, own>>
  BY Zenon DEF MunmapReturn, At
<1>2. HeadGuard(list[p]) /\ (Live(p) => Tidy(list[p], pte[p]))
  BY <1>1, IdleTidy, Zenon
<1>3. HeadGuard(list'[p]) /\ (own[p] /\ ~ killed'[p] => Tidy(list'[p], pte'[p]))
  BY <1>1, <1>2, Zenon DEF Live
<1>4. \A q \in Procs \ {p} : /\ list'[q] = list[q] /\ pte'[q] = pte[q]
                             /\ killed'[q] = killed[q]
  BY <1>1, Zenon
<1> QED
  BY <1>1, <1>3, <1>4, ReturnList, Zenon

\* The processor traps.
LEMMA AccessList ==
  ASSUME Inv, ListInv, NEW p \in Procs, NEW a \in Touched, NEW w \in BOOLEAN,
         Access(p, a, w)
  PROVE  ListInv'
<1> DEFINE v == [NoLoc EXCEPT !.op = "grow", !.q = p, !.va = a]
<1>1. /\ InUser(p) /\ Goto(p, "fault") /\ loc' = [loc EXCEPT ![p] = v]
      /\ UNCHANGED <<st, parent, killed, list, pte, own>>
  BY Zenon DEF Access
<1>2. v.q = p /\ v.va = a
  BY Zenon DEF NoLoc
<1> HIDE DEF v
<1>3. /\ pc'[p] = "fault" /\ loc'[p] = v
      /\ \A q \in Procs \ {p} : pc'[q] = pc[q] /\ loc'[q] = loc[q]
  BY <1>1, Moved, Zenon
<1>4. pc[p] = "user"
  BY <1>1, UserIs, Zenon
<1>5. HeadGuard(list[p]) /\ (Live(p) => Tidy(list[p], pte[p]))
  BY <1>4, IdleTidy, Zenon
<1>6. a \in Nat
  BY MmapAssumption, Zenon
<1>7. ~ InMmap(p)' /\ ~ InGrow(p)' /\ ~ InFork(p)'
  BY <1>3, Zenon DEF InMmap, InGrow, InFork
<1>8. Live(p)' => Tidy(list'[p], pte'[p])
  BY <1>1, <1>5, Zenon DEF Live
<1>9. SlotOK(p)' /\ ListOK(p)'
  BY <1>1, <1>2, <1>3, <1>5, <1>6, <1>7, <1>8, Zenon
     DEF SlotOK, ListOK, HeadGuard
<1>10. Elsewhere(p)
  BY <1>1, <1>3, MoveElsewhere, Zenon
<1> QED
  BY <1>9, <1>10, Others, Zenon

\* exit() by the program.
LEMMA ExitStepList ==
  ASSUME Inv, ListInv, NEW p \in Procs, Exit(p)
  PROVE  ListInv'
<1>1. /\ st[p] = "RUN" /\ pc[p] = "user" /\ exit(p)
      /\ UNCHANGED <<killed, list, pte, own>>
  BY Zenon DEF Exit, At
<1>2. HeadGuard(list'[p])
  BY <1>1, IdleTidy, Zenon
<1>3. \A q \in Procs \ {p} : /\ list'[q] = list[q] /\ pte'[q] = pte[q]
                             /\ killed'[q] = killed[q]
  BY <1>1, Zenon
<1> QED
  BY <1>1, <1>2, <1>3, ExitList, Zenon

\* A slot that is handed over while its last locals are still there.
LEMMA SameSlot ==
  ASSUME Inv, ListInv, NEW p \in Procs, st[p] # "EMBRYO",
         pc'[p] = pc[p], loc'[p] = loc[p], list'[p] = list[p],
         \A c \in Procs \ {p} : /\ st'[c] = st[c] /\ parent'[c] = parent[c]
                                /\ own'[c] = own[c]
  PROVE  SlotOK(p)'
<1>1. SlotOK(p)
  BY Zenon DEF ListInv
<1>2. /\ InMmap(p)' <=> InMmap(p)
      /\ InGrow(p)' <=> InGrow(p)
      /\ InFork(p)' <=> InFork(p)
  BY Zenon DEF InMmap, InGrow, InFork
<1>3. InFork(p) => /\ st'[loc'[p].q] = "EMBRYO" /\ parent'[loc'[p].q] = p
                   /\ ~ own'[loc'[p].q]
  <2> SUFFICES ASSUME InFork(p), NEW c, c = loc[p].q
               PROVE  st'[c] = "EMBRYO" /\ parent'[c] = p /\ ~ own'[c]
    BY Zenon
  <2>1. st[c] = "EMBRYO" /\ parent[c] = p /\ ~ own[c]
    BY <1>1, Zenon DEF SlotOK
  <2>2. c \in Procs \ {p}
    <3>1. HandlerOK(p)
      BY Handler, Zenon
    <3> QED
      BY <2>1, <3>1, Zenon DEF HandlerOK, InFork
  <2> QED
    BY <2>1, <2>2, Zenon
<1> QED
  BY <1>1, <1>2, <1>3, Zenon DEF SlotOK

(***************************************************************************)
(* wait(), exec() and fork().                                              *)
(***************************************************************************)
\* freevm() for one process.
LEMMA FreeVmIs ==
  ASSUME Inv, NEW p \in Procs, FreeVmWorks(p)
  PROVE  pte'[p] = {} /\ \A q \in Procs \ {p} : pte'[q] = pte[q]
BY Zenon DEF FreeVmWorks, FreeVm, Inv, TypeOK

\* wait() gives a slot back.
LEMMA WaitList ==
  ASSUME Inv, ListInv, NEW p \in Procs, Wait(p)
  PROVE  ListInv'
<1>1. CASE FreeVmStops(p)
  BY <1>1, StopList, Zenon DEF FreeVmStops
<1>2. CASE ~ FreeVmStops(p)
  <2>1. /\ FreeVmWorks(p) /\ st[p] = "ZOMBIE"
        /\ st' = [st EXCEPT ![p] = "UNUSED"]
        /\ parent' = [parent EXCEPT ![p] = InitProc]
        /\ killed' = [killed EXCEPT ![p] = FALSE]
        /\ UNCHANGED <<list, pc, loc, own>>
    BY <1>2, Zenon DEF Wait
  <2>2. /\ st'[p] = "UNUSED"
        /\ \A q \in Procs \ {p} : /\ st'[q] = st[q] /\ parent'[q] = parent[q]
                                  /\ killed'[q] = killed[q]
    BY <2>1, Zenon DEF Inv, TypeOK
  <2>3. \A q \in Procs \ {p} : pte'[q] = pte[q]
    BY <2>1, FreeVmIs, Zenon
  <2>4. ListOK(p)'
    BY <2>2, Zenon DEF ListOK, Live
  <2>5. SlotOK(p)'
    BY <2>1, <2>2, SameSlot, Zenon
  <2>6. Elsewhere(p)
    <3>1. \A q \in Procs \ {p} : Live(q)' => Live(q)
      BY <2>1, <2>2, Zenon DEF Live
    <3>2. \A c \in Procs : st[c] = "EMBRYO" => c \in Procs \ {p}
      BY <2>1, Zenon
    <3> QED
      BY <2>1, <2>2, <2>3, <3>1, <3>2, Zenon DEF Elsewhere
  <2> QED
    BY <2>4, <2>5, <2>6, Others, Zenon
<1> QED
  BY <1>1, <1>2, Zenon

\* fork() by a process outside the model.
LEMMA ForkByInitList ==
  ASSUME Inv, ListInv, NEW p \in Procs, ForkByInit(p)
  PROVE  ListInv'
<1>1. /\ st[p] = "UNUSED"
      /\ st' = [st EXCEPT ![p] = "RUN"]
      /\ parent' = [parent EXCEPT ![p] = InitProc]
      /\ own' = [own EXCEPT ![p] = FALSE]
      /\ UNCHANGED <<killed, list, pte, pc, loc>>
  BY Zenon DEF ForkByInit
<1>2. own \in [Procs -> BOOLEAN]
  BY Zenon DEF Inv, TypeOK
<1>3. ~ own'[p] /\ \A q \in Procs \ {p} : own'[q] = own[q]
  BY <1>1, <1>2, Zenon
<1>4. \A q \in Procs \ {p} : st'[q] = st[q] /\ parent'[q] = parent[q]
  BY <1>1, Zenon DEF Inv, TypeOK
<1>5. ListOK(p)'
  BY <1>3, Zenon DEF ListOK, Live
<1>6. SlotOK(p)'
  BY <1>1, <1>3, <1>4, SameSlot, Zenon
<1>7. Elsewhere(p)
  <2>1. \A q \in Procs \ {p} : Live(q)' => Live(q)
    BY <1>1, <1>3, <1>4, Zenon DEF Live
  <2>2. \A c \in Procs : st[c] = "EMBRYO" => c \in Procs \ {p}
    BY <1>1, Zenon
  <2> QED
    BY <1>1, <1>3, <1>4, <2>1, <2>2, Zenon DEF Elsewhere
<1> QED
  BY <1>5, <1>6, <1>7, Others, Zenon

\* exec() empties the list and the page table.
LEMMA ExecList ==
  ASSUME Inv, ListInv, NEW p \in Procs, Exec(p)
  PROVE  ListInv'
<1>1. CASE FreeVmStops(p)
  BY <1>1, StopList, Zenon DEF FreeVmStops
<1>2. CASE ~ FreeVmStops(p)
  <2>1. /\ FreeVmWorks(p) /\ InUser(p)
        /\ list' = [list EXCEPT ![p] = EmptyList(list[p])]
        /\ own' = [own EXCEPT ![p] = TRUE]
        /\ UNCHANGED <<st, parent, killed, pc, loc>>
    BY <1>2, Zenon DEF Exec
  <2>2. st[p] = "RUN" /\ pc[p] = "user"
    BY <2>1, UserIs, Zenon
  <2>3. pte'[p] = {} /\ \A q \in Procs \ {p} : pte'[q] = pte[q]
    BY <2>1, FreeVmIs, Zenon
  <2>4. /\ list'[p] = EmptyList(list[p])
        /\ \A q \in Procs \ {p} : list'[q] = list[q]
    BY <2>1, Zenon DEF Inv, TypeOK
  <2>5. own \in [Procs -> BOOLEAN]
    BY Zenon DEF Inv, TypeOK
  <2>6. \A q \in Procs \ {p} : own'[q] = own[q]
    BY <2>1, <2>5, Zenon
  <2>7. list[p] \in Seq(VmaType) /\ HeadGuard(list[p])
    BY <2>2, Handler, IdleTidy, Zenon
  <2>8. /\ Tidy(EmptyList(list[p]), {})
        /\ EmptyList(list[p])[1].guardstart \in {0, JUNK, NOGUARD}
    BY <2>7, EmptyTidy, Zenon DEF HeadGuard
  <2>9. SlotOK(p)' /\ ListOK(p)'
    <3>1. HeadGuard(list'[p]) /\ pc'[p] = "user"
      BY <2>1, <2>2, <2>4, <2>8, Zenon DEF HeadGuard
    <3>2. Tidy(list'[p], pte'[p])
      BY <2>3, <2>4, <2>8, Zenon
    <3> QED
      BY <3>1, <3>2, Idle, Zenon
  <2>10. Elsewhere(p)
    <3>1. \A q \in Procs \ {p} : Live(q)' => Live(q)
      BY <2>1, <2>6, Zenon DEF Live
    <3>2. \A c \in Procs : st[c] = "EMBRYO" => c \in Procs \ {p}
      BY <2>2, Zenon
    <3> QED
      BY <2>1, <2>3, <2>4, <2>6, <3>1, <3>2, Zenon DEF Elsewhere
  <2> QED
    BY <2>9, <2>10, Others, Zenon
<1> QED
  BY <1>1, <1>2, Zenon

\* fork() takes a slot.
LEMMA ForkList ==
  ASSUME Inv, ListInv, NEW p \in Procs, NEW np \in Procs, Fork(p, np)
  PROVE  ListInv'
<1>1. CASE Stop("wild")
  BY <1>1, StopList, Zenon
<1>2. CASE ~ Stop("wild")
  <2> DEFINE v == [NoLoc EXCEPT !.op = "fork", !.q = np,
                                !.k = 1, !.va = list[p][1].start]
  <2>1. /\ InUser(p) /\ st[np] = "UNUSED" /\ Goto(p, "fork")
        /\ st' = [st EXCEPT ![np] = "EMBRYO"]
        /\ parent' = [parent EXCEPT ![np] = p]
        /\ own' = [own EXCEPT ![np] = FALSE]
        /\ loc' = [loc EXCEPT ![p] = v]
        /\ UNCHANGED <<killed, list, pte>>
    BY <1>2, Zenon DEF Fork
  <2>2. v.q = np
    BY Zenon DEF NoLoc
  <2> HIDE DEF v
  <2>3. st[p] = "RUN" /\ pc[p] = "user" /\ p # np
    BY <2>1, UserIs, Zenon
  <2>4. /\ pc'[p] = "fork" /\ loc'[p] = v
        /\ \A q \in Procs \ {p} : pc'[q] = pc[q] /\ loc'[q] = loc[q]
    BY <2>1, Moved, Zenon
  <2>5. own \in [Procs -> BOOLEAN]
    BY Zenon DEF Inv, TypeOK
  <2>6. ~ own'[np] /\ \A q \in Procs \ {np} : own'[q] = own[q]
    BY <2>1, <2>5, Zenon
  <2>7. /\ st'[np] = "EMBRYO" /\ parent'[np] = p
        /\ \A q \in Procs \ {np} : st'[q] = st[q] /\ parent'[q] = parent[q]
    BY <2>1, Zenon DEF Inv, TypeOK
  <2>8. HeadGuard(list[p]) /\ (Live(p) => Tidy(list[p], pte[p]))
    BY <2>3, IdleTidy, Zenon
  <2>9. Live(p)' => Tidy(list'[p], pte'[p])
    BY <2>1, <2>3, <2>6, <2>7, <2>8, Zenon DEF Live
  <2>10. ~ InMmap(p)' /\ ~ InGrow(p)' /\ pc'[p] # "fault"
    BY <2>4, Zenon DEF InMmap, InGrow
  <2>11. SlotOK(p)' /\ ListOK(p)'
    BY <2>1, <2>2, <2>4, <2>6, <2>7, <2>8, <2>9, <2>10, Zenon
       DEF SlotOK, ListOK, HeadGuard
  <2>12. Elsewhere(p)
    <3>1. \A q \in Procs \ {p} : Live(q)' => Live(q)
      BY <2>1, <2>6, <2>7, Zenon DEF Live
    <3>2. \A c \in Procs : st[c] = "EMBRYO" => c \in Procs \ {np}
      BY <2>1, Zenon
    <3> QED
      BY <2>1, <2>4, <2>6, <2>7, <3>1, <3>2, Zenon DEF Elsewhere
  <2> QED
    BY <2>11, <2>12, Others, Zenon
<1> QED
  BY <1>1, <1>2, Zenon

\* The copying loop of fork(), mappages() included: it writes the page table
\* of the child only.
LEMMA ForkStay ==
  ASSUME Inv, ListInv, NEW p \in Procs, InFork(p), NEW c, c = loc[p].q,
         UNCHANGED <<st, parent, own, list>>,
         loc'[p].q = c, loc'[p].op = "fork", pc'[p] \in {"fork", "mappages"},
         \A q \in Procs \ {p} : pc'[q] = pc[q] /\ loc'[q] = loc[q],
         \A q \in Procs \ {c} : pte'[q] = pte[q] /\ killed'[q] = killed[q]
  PROVE  ListInv'
<1>1. SlotOK(p) /\ ListOK(p) /\ HandlerOK(p)
  BY Handler, Zenon DEF ListInv
<1>2. c \in Procs /\ loc[p].op = "fork" /\ pc[p] \in {"fork", "mappages"}
  BY <1>1, Zenon DEF HandlerOK, InFork
<1>3. st[c] = "EMBRYO" /\ parent[c] = p /\ ~ own[c]
  BY <1>1, Zenon DEF SlotOK
<1>4. ~ InMmap(p) /\ ~ InGrow(p)
  BY <1>2, Zenon DEF InMmap, InGrow
<1>5. ~ InMmap(p)' /\ ~ InGrow(p)' /\ pc'[p] # "fault"
  BY Zenon DEF InMmap, InGrow
<1>6. \A q \in Procs : Live(q)' => Live(q) /\ pte'[q] = pte[q]
  <2> SUFFICES ASSUME NEW q \in Procs, Live(q)'
               PROVE  Live(q) /\ pte'[q] = pte[q]
    BY Zenon
  <2>1. q # c
    BY <1>3, Zenon DEF Live
  <2> QED
    BY <2>1, Zenon DEF Live
<1>7. SlotOK(p)'
  BY <1>1, <1>3, <1>5, Zenon DEF SlotOK
<1>8. ListOK(p)'
  BY <1>1, <1>4, <1>5, <1>6, Zenon DEF ListOK
<1>9. Elsewhere(p)
  BY <1>6, Zenon DEF Elsewhere
<1> QED
  BY <1>7, <1>8, <1>9, Others, Zenon

\* fork() is about to map a page of a MAP_SHARED or MAP_PRIVATE area.
LEMMA ForkMapList ==
  ASSUME Inv, ListInv, NEW p \in Procs, Copying(p), NEW pg,
         loc' = [loc EXCEPT ![p].page = pg], Goto(p, "mappages"),
         UNCHANGED <<st, parent, killed, list, pte, own>>
  PROVE  ListInv'
<1> DEFINE v == [loc[p] EXCEPT !.page = pg]
<1>1. loc[p] \in LocType /\ HandlerOK(p) /\ pc[p] = "fork"
  BY Handler, Zenon DEF Copying, At
<1>2. v.q = loc[p].q /\ v.op = loc[p].op
  BY <1>1, Zenon DEF LocType
<1>3. loc' = [loc EXCEPT ![p] = v]
  BY Zenon
<1> HIDE DEF v
<1>4. /\ pc'[p] = "mappages" /\ loc'[p] = v
      /\ \A q \in Procs \ {p} : pc'[q] = pc[q] /\ loc'[q] = loc[q]
  BY <1>3, Moved, Zenon
<1>5. loc[p].op = "fork" /\ InFork(p)
  BY <1>1, Zenon DEF HandlerOK, InFork
<1>6. loc'[p].q = loc[p].q /\ loc'[p].op = "fork"
  BY <1>2, <1>4, <1>5, Zenon
<1> QED
  BY <1>4, <1>5, <1>6, ForkStay, Zenon

\* MAP_SHARED.
LEMMA ForkSharedList ==
  ASSUME Inv, ListInv, NEW p \in Procs, ForkShared(p)
  PROVE  ListInv'
BY ForkMapList, Zenon DEF ForkShared

\* MAP_PRIVATE.
LEMMA ForkPrivateList ==
  ASSUME Inv, ListInv, NEW p \in Procs, ForkPrivate(p)
  PROVE  ListInv'
<1>1. CASE Stop("kalloc") \/ Stop("wild")
  BY <1>1, StopList, Zenon
<1>2. CASE ~ (Stop("kalloc") \/ Stop("wild"))
  <2>1. PICK pg \in Offered(free) :
          /\ loc' = [loc EXCEPT ![p].page = pg]
          /\ Goto(p, "mappages")
          /\ UNCHANGED <<st, parent, killed, list, pte, own>>
    BY <1>2, Zenon DEF ForkPrivate
  <2> QED
    BY <2>1, ForkMapList, Zenon DEF ForkPrivate
<1> QED
  BY <1>1, <1>2, Zenon

\* The next node of the parent's list.
LEMMA ForkNextList ==
  ASSUME Inv, ListInv, NEW p \in Procs, ForkNext(p)
  PROVE  ListInv'
<1> DEFINE v == [loc[p] EXCEPT !.k = @ + 1, !.va = NextStart(list[p], loc[p].k)]
<1>1. loc[p] \in LocType /\ HandlerOK(p) /\ pc[p] = "fork"
  BY Handler, Zenon DEF ForkNext, At
<1>2. v.q = loc[p].q /\ v.op = loc[p].op
  BY <1>1, Zenon DEF LocType
<1>3. /\ loc' = [loc EXCEPT ![p] = v]
      /\ UNCHANGED <<st, parent, killed, list, pte, pc, own>>
  BY <1>1, Zenon DEF ForkNext
<1> HIDE DEF v
<1>4. loc'[p] = v /\ \A q \in Procs \ {p} : loc'[q] = loc[q]
  BY <1>3, Zenon DEF Inv, TypeOK
<1>5. loc[p].op = "fork" /\ InFork(p)
  BY <1>1, Zenon DEF HandlerOK, InFork
<1>6. loc'[p].q = loc[p].q /\ loc'[p].op = "fork" /\ pc'[p] = "fork"
  BY <1>1, <1>2, <1>3, <1>4, <1>5, Zenon
<1> QED
  BY <1>3, <1>4, <1>5, <1>6, ForkStay, Zenon

\* The child, which has no list of its own, starts to run.
LEMMA ForkReturnList ==
  ASSUME Inv, ListInv, NEW p \in Procs, ForkReturn(p)
  PROVE  ListInv'
<1>1. /\ st[p] = "RUN" /\ pc[p] = "fork"
      /\ st' = [st EXCEPT ![loc[p].q] = "RUN"]
      /\ Goto(p, "user") /\ loc' = [loc EXCEPT ![p] = NoLoc]
      /\ UNCHANGED <<parent, killed, list, pte, own>>
  BY Zenon DEF ForkReturn, At
<1>2. PICK c \in Procs : c = loc[p].q
  <2>1. HandlerOK(p)
    BY Handler, Zenon
  <2> QED
    BY <1>1, <2>1, Zenon DEF HandlerOK
<1>3. st[c] = "EMBRYO" /\ parent[c] = p /\ ~ own[c]
  BY <1>1, <1>2, Zenon DEF ListInv, SlotOK, InFork
<1>4. \A q \in Procs \ {c} : st'[q] = st[q]
  BY <1>1, <1>2, Zenon DEF Inv, TypeOK
<1>5. /\ pc'[p] = "user"
      /\ \A q \in Procs \ {p} : pc'[q] = pc[q] /\ loc'[q] = loc[q]
  BY <1>1, Moved, Zenon
<1>6. \A q \in Procs : Live(q)' => Live(q)
  BY <1>1, <1>3, <1>4, Zenon DEF Live
<1>7. HeadGuard(list[p]) /\ (Live(p) => Tidy(list[p], pte[p]))
  BY <1>1, IdleTidy, Zenon
<1>8. SlotOK(p)' /\ ListOK(p)'
  <2>1. HeadGuard(list'[p]) /\ (Live(p)' => Tidy(list'[p], pte'[p]))
    BY <1>1, <1>6, <1>7, Zenon
  <2> QED
    BY <1>5, <2>1, Idle, Zenon
<1>9. Elsewhere(p)
  BY <1>1, <1>3, <1>4, <1>5, <1>6, Zenon DEF Elsewhere
<1> QED
  BY <1>8, <1>9, Others, Zenon

(***************************************************************************)
(* The head of a list never gets a guard page.                             *)
(***************************************************************************)
\* Linking a node.
LEMMA LinkedHead ==
  ASSUME NEW l \in Seq(VmaType), HeadGuard(l), NEW k \in 1..Len(l),
         NEW vma \in VmaType, vma.guardstart = JUNK, NEW len \in Int
  PROVE  HeadGuard(Linked(l, k, vma, len))
<1> DEFINE nl == Linked(l, k, vma, len)
<1>1. CASE ReplacesHead(vma, vma.flags)
  <2> DEFINE rest == SubSeq(l, k + 1, Len(l))
  <2>1. rest \in Seq(VmaType)
    BY RestNodes, Zenon
  <2>2. nl = <<vma>> \o rest
    BY <1>1, Zenon DEF Linked
  <2> HIDE DEF rest, nl
  <2>3. nl[1] = vma
    BY <2>1, <2>2
  <2> QED
    BY <2>3, Zenon DEF HeadGuard, nl
<1>2. CASE ~ ReplacesHead(vma, vma.flags)
  <2>1. LinkedShape(l, k, vma, len, nl)
    BY <1>2, LinkedNodes, Zenon
  <2> HIDE DEF nl
  <2>2. l[k] \in VmaType /\ l # <<>> /\ l[1].guardstart \in {0, JUNK, NOGUARD}
    <3>1. l # <<>>
      OBVIOUS
    <3> QED
      BY <3>1, NodeInts, Zenon DEF HeadGuard
  <2>3. nl[1].guardstart = l[1].guardstart
    <3>1. CASE k = 1
      <4>1. nl[k] = [l[k] EXCEPT !.space_after = int(@ - len)]
        BY <2>1, Zenon DEF LinkedShape
      <4>2. nl[k].guardstart = l[k].guardstart
        BY <4>1, <2>2, Zenon DEF VmaType
      <4> QED
        BY <3>1, <4>2, Zenon
    <3>2. CASE k # 1
      <4>1. 1 \in 1..(k - 1)
        BY <3>2
      <4> QED
        BY <4>1, <2>1, Zenon DEF LinkedShape
    <3> QED
      BY <3>1, <3>2, Zenon
  <2> QED
    BY <2>2, <2>3, Zenon DEF HeadGuard, nl
<1> QED
  BY <1>1, <1>2, Zenon

\* Storing a field of a node that is not guardstart, or dropping a guard page,
\* or storing one behind a node that is not the head.
LEMMA FieldHead ==
  ASSUME NEW l \in Seq(VmaType), HeadGuard(l), NEW k \in 1..Len(l),
         NEW v \in VmaType,
         \/ v.guardstart \in {l[k].guardstart, NOGUARD}
         \/ k # 1
  PROVE  HeadGuard([l EXCEPT ![k] = v])
<1>1. l # <<>> /\ 1 \in 1..Len(l)
  OBVIOUS
<1>2. [l EXCEPT ![k] = v][1] = IF k = 1 THEN v ELSE l[1]
  BY <1>1
<1> QED
  BY <1>1, <1>2, Zenon DEF HeadGuard

\* The guard pages at the end of sys_mmap.
LEMMA GuardsHead ==
  ASSUME NEW l \in Seq(VmaType), HeadGuard(l), NEW k \in 1..Len(l),
         k + 1 \in 1..Len(l)
  PROVE  HeadGuard(SetGuard(DropPrevGuard(l, k), k + 1))
<1> DEFINE prev == IF k = 1 THEN 1 ELSE k - 1
           m == DropPrevGuard(l, k)
           v == [l[prev] EXCEPT !.guardstart = NOGUARD]
           w == [m[k + 1] EXCEPT !.guardstart = m[k + 1].end + 1]
<1>1. prev \in 1..Len(l) /\ NOGUARD \in Int
  BY Layout
<1> HIDE DEF prev
<1>2. m = l \/ m = [l EXCEPT ![prev] = v]
  BY Zenon DEF DropPrevGuard, prev
<1>3. v \in VmaType /\ v.guardstart = NOGUARD
  <2>1. l[prev] \in VmaType
    BY <1>1, NodeInts, Zenon
  <2> QED
    BY <2>1, <1>1, Zenon DEF VmaType
<1>4. m \in Seq(VmaType) /\ Len(m) = Len(l)
  BY DropPrevGuardType, Zenon
<1> HIDE DEF m, v
<1>5. HeadGuard(m)
  BY <1>1, <1>2, <1>3, FieldHead, Zenon
<1>6. k + 1 \in 1..Len(m) /\ k + 1 # 1
  BY <1>4
<1>7. w \in VmaType
  <2>1. m[k + 1] \in VmaType /\ m[k + 1].end \in Int
    BY <1>4, <1>6, NodeInts, Zenon
  <2>2. m[k + 1].end + 1 \in Int
    BY <2>1
  <2> QED
    BY <2>1, <2>2, Zenon DEF VmaType
<1>8. SetGuard(m, k + 1) = m \/ SetGuard(m, k + 1) = [m EXCEPT ![k + 1] = w]
  BY Zenon DEF SetGuard
<1> HIDE DEF w
<1>9. HeadGuard(SetGuard(m, k + 1))
  BY <1>4, <1>5, <1>6, <1>7, <1>8, FieldHead, Zenon
<1> QED
  BY <1>9, Zenon DEF m

\* The node the fault handler extends is not the head.
LEMMA GrownHead ==
  ASSUME NEW l \in Seq(VmaType), HeadGuard(l), NEW k \in 1..Len(l), k # 1
  PROVE  HeadGuard(Grown(l, k))
<1> DEFINE m == Grown(l, k)
<1>1. l # <<>> /\ 1 \in 1..Len(l) \ {k}
  OBVIOUS
<1>2. m[1] = l[1]
  BY <1>1 DEF Grown
<1> QED
  BY <1>1, <1>2, Zenon DEF HeadGuard

\* A page fault in a guard page finds a real one.
LEMMA GuardHit ==
  ASSUME NEW vma \in VmaType, NEW a \in Int, MIN_ADDR <= a, a < MAX_ADDR,
         InGuard(vma, a)
  PROVE  vma.guardstart \notin {0, JUNK, NOGUARD}
<1>1. /\ vma.guardstart \in Int /\ vma.guardstart > 0 /\ a >= vma.guardstart
      /\ a <= uint(vma.guardstart + PGSIZE - 1)
  BY Zenon DEF InGuard, VmaType
<1>2. vma.guardstart # 0
  BY <1>1
<1>3. vma.guardstart # NOGUARD
  <2>1. ~ (a >= NOGUARD)
    BY Layout
  <2> QED
    BY <1>1, <2>1, Zenon
<1>4. vma.guardstart # JUNK
  <2>1. 0 <= JUNK + PGSIZE - 1 /\ JUNK + PGSIZE - 1 < WORD /\ JUNK + PGSIZE - 1 \in Int
    BY Layout DEF JUNK, WORD
  <2>2. uint(JUNK + PGSIZE - 1) = JUNK + PGSIZE - 1
    BY <2>1, UintIs, Zenon
  <2>3. ~ (a <= JUNK + PGSIZE - 1)
    BY Layout DEF JUNK
  <2> QED
    BY <1>1, <2>2, <2>3, Zenon
<1> QED
  BY <1>2, <1>3, <1>4, Zenon

(***************************************************************************)
(* sys_mmap.                                                               *)
(***************************************************************************)
LEMMA SysMmapList ==
  ASSUME Inv, ListInv, NEW p \in Procs, NEW addr \in Addrs, NEW len \in Lens,
         NEW prot \in Prots, NEW flags \in FlagSets, len > 0,
         SysMmap(p, addr, len, prot, flags)
  PROVE  ListInv'
<1> DEFINE k     == Slot(list[p], addr, len, flags)
           start == IF "FIXED" \in flags THEN addr
                    ELSE uint(list[p][k].end + 1)
           vma   == create_vma(list[p], k, start, len, prot, flags)
           nl    == Linked(list[p], k, vma, len)
           v     == [op |-> "mmap", q |-> p, k |-> k, va |-> start,
                     end |-> vma.end, page |-> None,
                     repl |-> ReplacesHead(vma, flags)]
           n     == IF ReplacesHead(vma, flags) THEN 1 ELSE k + 1
<1>1. CASE Stop("wild")
  BY <1>1, StopList, Zenon
<1>2. CASE ~ Stop("wild")
  <2>1. /\ InUser(p) /\ list[p] # <<>> /\ k # 0 /\ Goto(p, "mmap")
        /\ list' = [list EXCEPT ![p] = nl]
        /\ loc' = [loc EXCEPT ![p] = v]
        /\ UNCHANGED <<st, parent, killed, pte, own>>
    BY <1>2, Zenon DEF SysMmap
  <2>2. /\ list[p] \in Seq(VmaType) /\ pte[p] \in SUBSET PteType
        /\ Len(list[p]) \in Nat
    BY Handler
  <2>3. k \in 1..Len(list[p])
    <3>1. k \in 0..Len(list[p])
      BY <2>2, SlotRange, Zenon
    <3>2. k # 0
      BY <2>1, Zenon
    <3> HIDE DEF k
    <3> QED
      BY <2>2, <3>1, <3>2
  <2>4. addr \in Nat /\ len \in Nat
    BY MmapAssumption, Zenon
  <2>5. start \in Int
    <3>1. list[p][k].end \in Int
      BY <2>2, <2>3, NodeInts, Zenon
    <3>2. uint(list[p][k].end + 1) \in Int
      BY <3>1, UintType
    <3> QED
      BY <2>4, <3>2
  <2>6. vma \in VmaType
    BY <2>2, <2>3, <2>4, <2>5, CreateType
  <2>7. vma.guardstart = JUNK /\ vma.flags = flags
    BY Zenon DEF create_vma
  <2>8. v.q = p /\ v.op = "mmap" /\ v.va = start /\ v.end = vma.end /\ v.k = k
        /\ v.page = None /\ v.repl = ReplacesHead(vma, flags)
    BY Zenon
  <2>9. st[p] = "RUN" /\ pc[p] = "user" /\ ~ killed[p]
    BY <2>1, UserIs, Zenon
  <2>10. HeadGuard(list[p]) /\ (Live(p) => Tidy(list[p], pte[p]))
    BY <2>9, IdleTidy, Zenon
  <2>11. HeadGuard(nl)
    <3>1. len \in Int
      BY <2>4
    <3> QED
      BY <2>2, <2>3, <2>6, <2>7, <2>10, <3>1, LinkedHead, Zenon
  <2>12. ASSUME Live(p)
         PROVE  Entered(pte[p], nl, n, start, vma.end)
    <3>1. Tidy(list[p], pte[p])
      BY <2>10, <2>12, Zenon
    <3> QED
      BY <2>1, <2>2, <2>4, <3>1, EnterLoop, Zenon
  <2> HIDE DEF v, nl, vma, start, k, n
  <2>13. /\ pc'[p] = "mmap" /\ loc'[p] = v
         /\ \A q \in Procs \ {p} : pc'[q] = pc[q] /\ loc'[q] = loc[q]
    BY <2>1, Moved, Zenon
  <2>14. list'[p] = nl /\ \A q \in Procs \ {p} : list'[q] = list[q]
    BY <2>1, Zenon DEF Inv, TypeOK
  <2>15. New(p)' = n
    BY <2>8, <2>13, Zenon DEF New, n
  <2>16. ASSUME Live(p)' PROVE MmapLoop(p)'
    <3>1. Live(p)
      BY <2>1, <2>16, Zenon DEF Live
    <3>2. /\ loc'[p].va = start /\ loc'[p].end = vma.end /\ loc'[p].page = None
          /\ list'[p] = nl /\ pte'[p] = pte[p] /\ pc'[p] # "mappages"
      BY <2>1, <2>8, <2>13, <2>14, Zenon
    <3> QED
      BY <2>12, <2>15, <3>1, <3>2, Zenon DEF MmapLoop, Entered
  <2>17. InMmap(p)' /\ ~ InGrow(p)' /\ ~ InFork(p)' /\ pc'[p] # "fault"
    BY <2>13, Zenon DEF InMmap, InGrow, InFork
  <2>18. SlotOK(p)'
    BY <2>8, <2>11, <2>13, <2>14, <2>17, Zenon DEF SlotOK, HeadGuard
  <2>19. ListOK(p)'
    BY <2>16, <2>17, Zenon DEF ListOK
  <2>20. Elsewhere(p)
    BY <2>1, <2>13, <2>14, MoveElsewhere, Zenon
  <2> QED
    BY <2>18, <2>19, <2>20, Others, Zenon
<1> QED
  BY <1>1, <1>2, Zenon

\* One turn of the loop up to mappages().
LEMMA MmapKallocList ==
  ASSUME Inv, ListInv, NEW p \in Procs, MmapKalloc(p)
  PROVE  ListInv'
<1>1. CASE Stop("kalloc")
  BY <1>1, StopList, Zenon
<1>2. CASE ~ Stop("kalloc")
  <2>1. PICK pg \in Offered(free) :
          /\ list' = IF SetsPa(p)
                     THEN [list EXCEPT ![p][New(p)].pa = pg] ELSE list
          /\ loc' = [loc EXCEPT ![p].page = pg]
          /\ Goto(p, "mappages")
          /\ UNCHANGED <<st, parent, killed, pte, own>>
    BY <1>2, Zenon DEF MmapKalloc
  <2>2. pc[p] = "mmap" /\ loc[p].va < loc[p].end
    BY Zenon DEF MmapKalloc, At
  <2>3. pg \in Pages
    <3>1. free \in SUBSET Pages
      BY Zenon DEF Inv, TypeOK
    <3> QED
      BY <2>1, <3>1, OfferedFree, Zenon
  <2> DEFINE l == list[p]
             n == New(p)
             v == [loc[p] EXCEPT !.page = pg]
             w == [l[n] EXCEPT !.pa = pg]
             m == IF SetsPa(p) THEN [l EXCEPT ![n] = w] ELSE l
  <2>4. /\ l \in Seq(VmaType) /\ pte[p] \in SUBSET PteType /\ HandlerOK(p)
        /\ loc[p] \in LocType
    BY Handler, Zenon
  <2>5. /\ loc[p].op = "mmap" /\ n \in 1..Len(l) /\ loc[p].page = None
    BY <2>2, <2>4, Zenon DEF HandlerOK, MapNode
  <2>6. /\ v.q = loc[p].q /\ v.op = loc[p].op /\ v.va = loc[p].va
        /\ v.end = loc[p].end /\ v.page = pg /\ v.k = loc[p].k
        /\ v.repl = loc[p].repl
    BY <2>4, Zenon DEF LocType
  <2>7. loc' = [loc EXCEPT ![p] = v]
    BY <2>1, Zenon
  <2>8. w \in VmaType /\ w.guardstart = l[n].guardstart
    <3>1. l[n] \in VmaType
      BY <2>4, <2>5, NodeInts, Zenon
    <3> QED
      BY <2>3, <3>1, Zenon DEF VmaType
  <2>9. list'[p] = m /\ \A q \in Procs \ {p} : list'[q] = list[q]
    BY <2>1, Zenon DEF Inv, TypeOK
  <2>10. SlotOK(p) /\ ListOK(p) /\ InMmap(p)
    BY <2>2, Zenon DEF ListInv, InMmap
  <2> HIDE DEF v, w
  <2>11. HeadGuard(m)
    <3>1. HeadGuard(l)
      BY <2>10, Zenon DEF SlotOK, HeadGuard
    <3>2. HeadGuard([l EXCEPT ![n] = w])
      BY <2>4, <2>5, <2>8, <3>1, FieldHead, Zenon
    <3> QED
      BY <3>1, <3>2, Zenon
  <2>12. /\ pc'[p] = "mappages" /\ loc'[p] = v
         /\ \A q \in Procs \ {p} : pc'[q] = pc[q] /\ loc'[q] = loc[q]
    BY <2>1, <2>7, Moved, Zenon
  <2>13. New(p)' = n
    BY <2>6, <2>12, Zenon DEF New
  <2>14. ASSUME Live(p)' PROVE MmapLoop(p)'
    <3>1. MmapLoop(p)
      BY <2>1, <2>10, <2>14, Zenon DEF Live, ListOK
    <3>2. Aligned(loc[p].va) /\ Aligned(loc[p].end + 1) /\ loc[p].va <= loc[p].end + 1
      BY <3>1, Zenon DEF MmapLoop
    <3>3. ASSUME Partly(l, pte[p], n, loc[p].va, loc[p].page)
          PROVE  Partly(m, pte[p], n, loc[p].va, pg) /\ m[n].end = l[n].end
      <4>1. Partly(l, pte[p], n, loc[p].va, None)
        BY <2>5, <3>3, Zenon
      <4>2. StoresPa(l, n, loc[p].va, pg, m)
        <5>1. n # 1 <=> ~ loc[p].repl
          <6>1. ~ loc[p].repl => loc[p].k \in Int /\ loc[p].k >= 1
            BY <2>2, <2>4, Zenon DEF HandlerOK, LocType
          <6>2. \A x \in Int : x >= 1 => x + 1 # 1
            OBVIOUS
          <6> QED
            BY <6>1, <6>2, Zenon DEF New
        <5> QED
          BY <5>1, Zenon DEF SetsPa, w, StoresPa
      <4> HIDE DEF m, n
      <4>3. Taken(l, pte[p], n, loc[p].va, pg, m)
        BY <2>3, <2>4, <4>1, <4>2, KallocPartly, Zenon
      <4> QED
        BY <4>3, Zenon DEF Taken
    <3>4. \/ Doomed(pte[p], loc[p].va, loc[p].end)
          \/ Partly(m, pte[p], n, loc[p].va, pg) /\ loc[p].end = m[n].end
      BY <3>1, <3>3, Zenon DEF MmapLoop
    <3> HIDE DEF m, n
    <3>5. /\ loc'[p].va = loc[p].va /\ loc'[p].end = loc[p].end
          /\ loc'[p].page = pg /\ list'[p] = m /\ pte'[p] = pte[p]
      BY <2>1, <2>6, <2>9, <2>12, Zenon
    <3> QED
      BY <2>2, <2>13, <3>2, <3>4, <3>5, Zenon DEF MmapLoop
  <2>15. /\ InMmap(p)' /\ ~ InGrow(p)' /\ ~ InFork(p)' /\ pc'[p] # "fault"
         /\ loc'[p].q = p
    BY <2>5, <2>6, <2>10, <2>12, Zenon DEF InMmap, InGrow, InFork, SlotOK
  <2>16. SlotOK(p)'
    BY <2>9, <2>11, <2>15, Zenon DEF SlotOK, HeadGuard
  <2>17. ListOK(p)'
    BY <2>14, <2>15, Zenon DEF ListOK
  <2>18. Elsewhere(p)
    BY <2>1, <2>9, <2>12, MoveElsewhere, Zenon
  <2> QED
    BY <2>16, <2>17, <2>18, Others, Zenon
<1> QED
  BY <1>1, <1>2, Zenon

(***************************************************************************)
(* mappages() and what its callers do next.                                *)
(***************************************************************************)
\* The loop is over: the whole area is mapped, and the guard pages are set.
LEMMA MmapGuardList ==
  ASSUME Inv, ListInv, NEW p \in Procs, MmapGuard(p)
  PROVE  ListInv'
<1> DEFINE l == list[p]
           k == loc[p].k
           m == IF loc[p].repl THEN l ELSE SetGuard(DropPrevGuard(l, k), k + 1)
<1>1. /\ st[p] = "RUN" /\ pc[p] = "mmap" /\ ~ (loc[p].va < loc[p].end)
      /\ Return(p) /\ UNCHANGED <<killed, pte, own>>
      /\ list' = IF loc[p].repl THEN list
                 ELSE [list EXCEPT ![p] = SetGuard(DropPrevGuard(l, k), New(p))]
  <2>1. loc[p].va >= loc[p].end => ~ (loc[p].va < loc[p].end)
    BY Handler
  <2> QED
    BY <2>1, Zenon DEF MmapGuard, At
<1>2. /\ l \in Seq(VmaType) /\ pte[p] \in SUBSET PteType /\ HandlerOK(p)
      /\ loc[p].va \in Int /\ loc[p].end \in Int /\ k \in Int
  BY Handler, Zenon
<1>3. list'[p] = m /\ \A q \in Procs \ {p} : list'[q] = list[q]
  BY <1>1, Zenon DEF Inv, TypeOK, New
<1>4. /\ New(p) \in 1..Len(l) /\ loc[p].page = None
      /\ ~ loc[p].repl => k \in 1..Len(l) /\ k + 1 \in 1..Len(l)
  <2>1. /\ New(p) \in 1..Len(l) /\ loc[p].page = None
        /\ ~ loc[p].repl => k >= 1
    BY <1>1, <1>2, Zenon DEF HandlerOK, MapNode
  <2>2. ~ loc[p].repl => New(p) = k + 1
    BY Zenon DEF New
  <2> QED
    BY <1>2, <2>1, <2>2
<1>5. SlotOK(p) /\ ListOK(p) /\ InMmap(p)
  BY <1>1, Zenon DEF ListInv, InMmap
<1>6. HeadGuard(l)
  BY <1>5, Zenon DEF SlotOK, HeadGuard
<1>7. HeadGuard(m)
  <2>1. CASE loc[p].repl
    BY <2>1, <1>6, Zenon
  <2>2. CASE ~ loc[p].repl
    <3>1. HeadGuard(SetGuard(DropPrevGuard(l, k), k + 1))
      BY <2>2, <1>2, <1>4, <1>6, GuardsHead, Zenon
    <3> QED
      BY <2>2, <3>1, Zenon
  <2> QED
    BY <2>1, <2>2, Zenon
<1>8. ASSUME own[p], ~ killed'[p] PROVE Tidy(m, pte[p])
  <2>1. MmapLoop(p)
    BY <1>1, <1>5, <1>8, Zenon DEF ListOK, Live
  <2>2. loc[p].va = loc[p].end + 1
    <3>1. /\ Aligned(loc[p].va) /\ Aligned(loc[p].end + 1)
          /\ loc[p].va <= loc[p].end + 1
      BY <2>1, Zenon DEF MmapLoop
    <3> QED
      BY <1>1, <1>2, <3>1, LoopEnd, Zenon
  <2>3. ~ Doomed(pte[p], loc[p].va, loc[p].end)
    BY <1>2, <2>2, DoneNotDoomed, Zenon
  <2>4. Partly(l, pte[p], New(p), loc[p].va, None) /\ loc[p].end = l[New(p)].end
    BY <1>4, <2>1, <2>3, Zenon DEF MmapLoop
  <2>5. loc[p].va = l[New(p)].end + 1
    BY <2>2, <2>4, Zenon
  <2>6. Tidy(l, pte[p])
    BY <1>2, <2>4, <2>5, DoneTidy, Zenon
  <2>7. CASE loc[p].repl
    BY <2>6, <2>7, Zenon
  <2>8. CASE ~ loc[p].repl
    <3>1. Tidy(SetGuard(DropPrevGuard(l, k), k + 1), pte[p])
      BY <1>2, <1>4, <2>6, <2>8, GuardsTidy, Zenon
    <3> QED
      BY <2>8, <3>1, Zenon
  <2> QED
    BY <2>7, <2>8, Zenon
<1> HIDE DEF m
<1>9. HeadGuard(list'[p]) /\ (own[p] /\ ~ killed'[p] => Tidy(list'[p], pte'[p]))
  BY <1>1, <1>3, <1>7, <1>8, Zenon
<1>10. \A q \in Procs \ {p} : /\ list'[q] = list[q] /\ pte'[q] = pte[q]
                              /\ killed'[q] = killed[q]
  BY <1>1, <1>3, Zenon
<1> QED
  BY <1>1, <1>9, <1>10, ReturnList, Zenon

\* The callers of mappages() that have a loop go on with its next turn.
LEMMA NextTurn ==
  ASSUME Inv, NEW p \in Procs, NEW grown, AfterMap(p, grown),
         loc[p].op # "grow"
  PROVE  /\ UNCHANGED <<st, parent, list>>
         /\ pc'[p] = loc[p].op /\ loc'[p].op = loc[p].op
         /\ loc'[p].q = loc[p].q /\ loc'[p].k = loc[p].k
         /\ loc'[p].va = loc[p].va + PGSIZE /\ loc'[p].end = loc[p].end
         /\ loc'[p].page = None /\ loc'[p].repl = loc[p].repl
         /\ \A q \in Procs \ {p} : pc'[q] = pc[q] /\ loc'[q] = loc[q]
<1> DEFINE v == [loc[p] EXCEPT !.va = @ + PGSIZE, !.page = None]
<1>1. loc[p] \in LocType
  BY Handler, Zenon
<1>2. /\ v.op = loc[p].op /\ v.q = loc[p].q /\ v.k = loc[p].k
      /\ v.va = loc[p].va + PGSIZE /\ v.end = loc[p].end
      /\ v.page = None /\ v.repl = loc[p].repl
  BY <1>1, Zenon DEF LocType
<1>3. /\ loc' = [loc EXCEPT ![p].va = @ + PGSIZE, ![p].page = None]
      /\ Goto(p, loc[p].op) /\ UNCHANGED <<st, parent, list>>
  BY Zenon DEF AfterMap
<1>4. /\ loc'[p] = v /\ pc'[p] = loc[p].op
      /\ \A q \in Procs \ {p} : pc'[q] = pc[q] /\ loc'[q] = loc[q]
  BY <1>1, <1>3, Zenon DEF Goto, Inv, TypeOK
<1> HIDE DEF v
<1> QED
  BY <1>2, <1>3, <1>4, Zenon

\* Where a call of mappages() comes from.
LEMMA MapCaller ==
  ASSUME Inv, ListInv, NEW p \in Procs, pc[p] = "mappages"
  PROVE  /\ loc[p].op \in {"mmap", "fork", "grow"}
         /\ loc[p].op = "mmap" <=> InMmap(p)
         /\ loc[p].op = "grow" <=> InGrow(p)
         /\ loc[p].op = "fork" <=> InFork(p)
         /\ loc[p].op # "fork" => loc[p].q = p
         /\ loc[p].q \in Procs
<1>1. HandlerOK(p) /\ SlotOK(p)
  BY Handler, Zenon DEF ListInv
<1> QED
  BY <1>1, Zenon DEF HandlerOK, SlotOK, InMmap, InGrow, InFork

\* mappages() succeeds in the loop of sys_mmap.
LEMMA MapOkMmap ==
  ASSUME Inv, ListInv, NEW p \in Procs, MapOk(p), loc[p].op = "mmap"
  PROVE  ListInv'
<1> DEFINE l == list[p]
           t == pte[p]
           va == loc[p].va
           end == loc[p].end
           n == New(p)
<1>1. /\ pc[p] = "mappages" /\ ~ Present(loc[p].q, va)
      /\ AfterMap(p, Grown(list[p], loc[p].k)) /\ UNCHANGED <<killed, own>>
  BY Zenon DEF MapOk, At
<1>2. /\ InMmap(p) /\ loc[p].q = p
  BY <1>1, MapCaller, Zenon
<1>3. PICK e : /\ e.va = va /\ e.pa = loc[p].page
               /\ pte' = [pte EXCEPT ![p] = t \cup {e}]
  <2> DEFINE e == [va |-> va, pa |-> loc[p].page,
                   prot |-> list[p][MapNode(p)].prot]
  <2>1. e.va = va /\ e.pa = loc[p].page
    BY Zenon
  <2>2. pte' = [pte EXCEPT ![p] = t \cup {e}]
    BY <1>2, Zenon DEF MapOk
  <2> HIDE DEF e
  <2> QED
    BY <2>1, <2>2, Zenon
<1>4. pte'[p] = t \cup {e} /\ \A q \in Procs \ {p} : pte'[q] = pte[q]
  BY <1>3, Zenon DEF Inv, TypeOK
<1>5. /\ UNCHANGED <<st, parent, list>>
      /\ pc'[p] = "mmap" /\ loc'[p].q = p
      /\ loc'[p].k = loc[p].k /\ loc'[p].repl = loc[p].repl
      /\ loc'[p].va = va + PGSIZE /\ loc'[p].end = end /\ loc'[p].page = None
      /\ \A q \in Procs \ {p} : pc'[q] = pc[q] /\ loc'[q] = loc[q]
  BY <1>1, <1>2, NextTurn, Zenon
<1>6. /\ l \in Seq(VmaType) /\ t \in SUBSET PteType /\ va \in Int /\ end \in Int
      /\ SlotOK(p) /\ ListOK(p)
  BY Handler, Zenon DEF ListInv
<1>7. New(p)' = n
  BY <1>5, Zenon DEF New
<1>8. va < MAX_ADDR /\ va \notin {f.va : f \in t}
  <2>1. ~ (va >= MAX_ADDR) /\ va \notin {f.va : f \in t}
    BY <1>1, <1>2, Zenon DEF Present, Mapped
  <2> QED
    BY <1>6, <2>1, Layout
<1>9. ASSUME Live(p)' PROVE MmapLoop(p)'
  <2>1. MmapLoop(p)
    BY <1>1, <1>2, <1>5, <1>6, <1>9, Zenon DEF Live, ListOK
  <2>2. Aligned(va) /\ Aligned(end + 1) /\ va < end
    BY <1>1, <2>1, Zenon DEF MmapLoop
  <2>3. Aligned(va + PGSIZE)
    BY <1>6, <2>2, AlignedNext, Zenon
  <2>4. va + PGSIZE <= end + 1
    <3>1. va < end + 1 /\ end + 1 \in Int
      BY <1>6, <2>2
    <3> QED
      BY <1>6, <2>2, <3>1, AlignedApart, Zenon
  <2>5. CASE Doomed(t, va, end)
    <3>1. Doomed(t \cup {e}, va + PGSIZE, end)
      BY <1>6, <1>8, <2>2, <2>5, MapDoomed, Zenon
    <3> QED
      BY <1>4, <1>5, <2>2, <2>3, <2>4, <3>1, Zenon DEF MmapLoop
  <2>6. CASE Partly(l, t, n, va, loc[p].page) /\ end = l[n].end
    <3>0. loc[p].page # None
      BY <1>1, Handler, Zenon DEF HandlerOK
    <3>1. Partly(l, t \cup {e}, n, va + PGSIZE, None)
      <4> DEFINE pg == loc[p].page
      <4>1. Partly(l, t, n, va, pg) /\ pg # None /\ e.va = va /\ e.pa = pg
        BY <1>3, <2>6, <3>0, Zenon
      <4>2. /\ l \in Seq(VmaType) /\ t \in SUBSET PteType /\ va \in Int
            /\ Aligned(va) /\ va < MAX_ADDR
        BY <1>6, <1>8, <2>2, Zenon
      <4> HIDE DEF pg, l, t, n, va
      <4> QED
        BY <4>1, <4>2, MapPartly
    <3>2. list'[p] = l
      BY <1>5, Zenon
    <3> HIDE DEF n, l
    <3> QED
      BY <1>4, <1>5, <1>7, <2>2, <2>3, <2>4, <2>6, <3>1, <3>2, Zenon
         DEF MmapLoop
  <2> QED
    BY <2>1, <2>5, <2>6, Zenon DEF MmapLoop
<1>10. InMmap(p)' /\ ~ InGrow(p)' /\ ~ InFork(p)' /\ pc'[p] # "fault"
  BY <1>5, Zenon DEF InMmap, InGrow, InFork
<1>11. SlotOK(p)'
  BY <1>5, <1>6, <1>10, Zenon DEF SlotOK
<1>12. ListOK(p)'
  BY <1>9, <1>10, Zenon DEF ListOK
<1>13. Elsewhere(p)
  BY <1>1, <1>4, <1>5, MoveElsewhere, Zenon
<1> QED
  BY <1>11, <1>12, <1>13, Others, Zenon

\* mappages() succeeds for the page-fault handler: the area grows.
LEMMA MapOkGrow ==
  ASSUME Inv, ListInv, NEW p \in Procs, MapOk(p), loc[p].op = "grow"
  PROVE  ListInv'
<1> DEFINE l == list[p]
           t == pte[p]
           va == loc[p].va
           k == loc[p].k
<1>1. /\ st[p] = "RUN" /\ pc[p] = "mappages" /\ ~ Present(loc[p].q, va)
      /\ list' = [list EXCEPT ![p] = Grown(l, k)] /\ Return(p)
      /\ UNCHANGED <<killed, own>>
  BY Zenon DEF MapOk, At, AfterMap
<1>2. /\ InGrow(p) /\ ~ InMmap(p) /\ loc[p].q = p
  BY <1>1, MapCaller, Zenon
<1>3. PICK e : /\ e.va = va
               /\ pte' = [pte EXCEPT ![p] = t \cup {e}]
  <2> DEFINE e == [va |-> va, pa |-> loc[p].page,
                   prot |-> list[p][MapNode(p)].prot]
  <2>1. e.va = va
    BY Zenon
  <2>2. pte' = [pte EXCEPT ![p] = t \cup {e}]
    BY <1>2, Zenon DEF MapOk
  <2> HIDE DEF e
  <2> QED
    BY <2>1, <2>2, Zenon
<1>4. pte'[p] = t \cup {e} /\ \A q \in Procs \ {p} : pte'[q] = pte[q]
  BY <1>3, Zenon DEF Inv, TypeOK
<1>5. list'[p] = Grown(l, k) /\ \A q \in Procs \ {p} : list'[q] = list[q]
  BY <1>1, Zenon DEF Inv, TypeOK
<1>6. /\ l \in Seq(VmaType) /\ t \in SUBSET PteType /\ va \in Int
      /\ SlotOK(p) /\ ListOK(p) /\ HandlerOK(p)
  BY Handler, Zenon DEF ListInv
<1>7. k \in 1..Len(l) /\ k # 1
  BY <1>1, <1>2, <1>6, Zenon DEF HandlerOK, MapNode, SlotOK
<1>8. va < MAX_ADDR /\ va \notin {f.va : f \in t}
  <2>1. ~ (va >= MAX_ADDR) /\ va \notin {f.va : f \in t}
    BY <1>1, <1>2, Zenon DEF Present, Mapped
  <2> QED
    BY <1>6, <2>1, Layout
<1>9. HeadGuard(Grown(l, k))
  <2>1. HeadGuard(l)
    BY <1>6, Zenon DEF SlotOK, HeadGuard
  <2> QED
    BY <1>6, <1>7, <2>1, GrownHead, Zenon
<1>10. ASSUME own[p], ~ killed'[p] PROVE Tidy(Grown(l, k), t \cup {e})
  <2>1. Growing(p)
    BY <1>1, <1>2, <1>6, <1>10, Zenon DEF Live, ListOK
  <2>2. Tidy(l, t) /\ k \in 2..Len(l) /\ va = l[k].end + 1
    BY <2>1, Zenon DEF Growing
  <2> QED
    BY <1>3, <1>6, <1>8, <2>2, GrowTidy, Zenon
<1>11. HeadGuard(list'[p]) /\ (own[p] /\ ~ killed'[p] => Tidy(list'[p], pte'[p]))
  BY <1>4, <1>5, <1>9, <1>10, Zenon
<1>12. \A q \in Procs \ {p} : /\ list'[q] = list[q] /\ pte'[q] = pte[q]
                              /\ killed'[q] = killed[q]
  BY <1>1, <1>4, <1>5, Zenon
<1> QED
  BY <1>1, <1>11, <1>12, ReturnList, Zenon

\* mappages() succeeds in the loop of fork().
LEMMA MapOkFork ==
  ASSUME Inv, ListInv, NEW p \in Procs, MapOk(p), loc[p].op = "fork"
  PROVE  ListInv'
<1>1. /\ pc[p] = "mappages" /\ AfterMap(p, Grown(list[p], loc[p].k))
      /\ UNCHANGED <<killed, own>>
  BY Zenon DEF MapOk, At
<1>2. InFork(p)
  BY <1>1, MapCaller, Zenon
<1>3. \A q \in Procs \ {loc[p].q} : pte'[q] = pte[q]
  BY Zenon DEF MapOk, Inv, TypeOK
<1>4. /\ UNCHANGED <<st, parent, list>>
      /\ pc'[p] = "fork" /\ loc'[p].op = "fork" /\ loc'[p].q = loc[p].q
      /\ \A q \in Procs \ {p} : pc'[q] = pc[q] /\ loc'[q] = loc[q]
  BY <1>1, NextTurn, Zenon
<1> QED
  BY <1>1, <1>2, <1>3, <1>4, ForkStay, Zenon

\* No page for a page table.
LEMMA MapFailList ==
  ASSUME Inv, ListInv, NEW p \in Procs, MapFail(p)
  PROVE  ListInv'
<1>1. CASE Stop("kfree")
  BY <1>1, StopList, Zenon
<1>2. CASE ~ Stop("kfree")
  <2>1. /\ st[p] = "RUN" /\ pc[p] = "mappages" /\ AfterMap(p, list[p])
        /\ killed' = [killed EXCEPT ![loc[p].q] = TRUE]
        /\ UNCHANGED <<pte, own>>
    BY <1>2, Zenon DEF MapFail, At
  <2>2. /\ loc[p].op \in {"mmap", "fork", "grow"} /\ loc[p].q \in Procs
        /\ loc[p].op # "fork" => loc[p].q = p
        /\ loc[p].op = "fork" => InFork(p)
        /\ SlotOK(p)
    BY <2>1, MapCaller, Zenon DEF ListInv
  <2>3. killed \in [Procs -> BOOLEAN]
    BY Zenon DEF Inv, TypeOK
  <2>4. killed'[loc[p].q] /\ \A q \in Procs \ {loc[p].q} : killed'[q] = killed[q]
    BY <2>1, <2>2, <2>3, Zenon
  <2>5. CASE loc[p].op = "fork"
    <3>1. /\ UNCHANGED <<st, parent, list>>
          /\ pc'[p] = "fork" /\ loc'[p].op = "fork" /\ loc'[p].q = loc[p].q
          /\ \A q \in Procs \ {p} : pc'[q] = pc[q] /\ loc'[q] = loc[q]
      BY <2>1, <2>5, NextTurn, Zenon
    <3> QED
      BY <2>1, <2>2, <2>4, <2>5, <3>1, ForkStay, Zenon
  <2>6. CASE loc[p].op = "mmap"
    <3>1. /\ UNCHANGED <<st, parent, list>>
          /\ pc'[p] = "mmap" /\ loc'[p].op = "mmap" /\ loc'[p].q = loc[p].q
          /\ \A q \in Procs \ {p} : pc'[q] = pc[q] /\ loc'[q] = loc[q]
      BY <2>1, <2>6, NextTurn, Zenon
    <3>2. loc[p].q = p
      BY <2>2, <2>6, Zenon
    <3>3. ~ InGrow(p)' /\ ~ InFork(p)' /\ pc'[p] # "fault"
      BY <3>1, Zenon DEF InGrow, InFork
    <3>4. SlotOK(p)'
      BY <2>2, <3>1, <3>2, <3>3, Zenon DEF SlotOK
    <3>5. ListOK(p)'
      BY <2>4, <3>2, Zenon DEF ListOK, Live
    <3>6. Elsewhere(p)
      <4>1. \A q \in Procs \ {p} : killed'[q] = killed[q]
        BY <2>4, <3>2, Zenon
      <4>2. \A q \in Procs \ {p} : Live(q)' => Live(q)
        BY <2>1, <3>1, <4>1, Zenon DEF Live
      <4> QED
        BY <2>1, <3>1, <4>2, Zenon DEF Elsewhere
    <3> QED
      BY <3>4, <3>5, <3>6, Others, Zenon
  <2>7. CASE loc[p].op = "grow"
    <3>1. list' = [list EXCEPT ![p] = list[p]] /\ Return(p)
      BY <2>1, <2>7, Zenon DEF AfterMap
    <3>2. \A q \in Procs : list'[q] = list[q]
      BY <3>1, Zenon DEF Inv, TypeOK
    <3>3. HeadGuard(list'[p])
      BY <2>2, <3>2, Zenon DEF SlotOK, HeadGuard
    <3>4. killed'[p] /\ \A q \in Procs \ {p} : killed'[q] = killed[q]
      BY <2>2, <2>4, <2>7, Zenon
    <3> QED
      BY <2>1, <3>1, <3>2, <3>3, <3>4, ReturnList, Zenon
  <2> QED
    BY <2>2, <2>5, <2>6, <2>7, Zenon
<1> QED
  BY <1>1, <1>2, Zenon

(***************************************************************************)
(* Page faults.                                                            *)
(***************************************************************************)
\* The page-fault handler takes a page for the guard page of node k.
LEMMA FaultGrowList ==
  ASSUME Inv, ListInv, NEW p \in Procs, At(p, "fault"),
         NEW k \in 1..Len(list[p]), ~ OutOfRange(loc[p].va),
         InGuard(list[p][k], loc[p].va), FaultGrow(p, k)
  PROVE  ListInv'
<1>1. CASE Stop("kalloc")
  BY <1>1, StopList, Zenon
<1>2. CASE ~ Stop("kalloc")
  <2> DEFINE l == list[p]
             g == list[p][k].guardstart
  <2>1. PICK pg \in Offered(free) :
          /\ loc' = [loc EXCEPT ![p].k = k, ![p].page = pg, ![p].va = g]
          /\ Goto(p, "mappages")
          /\ UNCHANGED <<st, parent, killed, list, pte, own>>
    BY <1>2, Zenon DEF FaultGrow
  <2> DEFINE v == [loc[p] EXCEPT !.k = k, !.page = pg, !.va = g]
  <2>2. /\ pc[p] = "fault" /\ l \in Seq(VmaType) /\ loc[p] \in LocType
        /\ HandlerOK(p) /\ SlotOK(p) /\ ListOK(p) /\ loc[p].va \in Int
    BY Handler, Zenon DEF At, ListInv
  <2>3. loc[p].op = "grow" /\ loc[p].q = p
    BY <2>2, Zenon DEF HandlerOK, SlotOK
  <2>4. /\ v.op = loc[p].op /\ v.q = loc[p].q /\ v.k = k /\ v.va = g
    BY <2>2, Zenon DEF LocType
  <2>5. /\ loc'[p] = v /\ pc'[p] = "mappages"
        /\ \A q \in Procs \ {p} : pc'[q] = pc[q] /\ loc'[q] = loc[q]
    BY <2>1, <2>2, Zenon DEF Goto, Inv, TypeOK
  <2> HIDE DEF v
  <2>6. g \notin {0, JUNK, NOGUARD}
    <3>1. l[k] \in VmaType
      BY <2>2, NodeInts, Zenon
    <3>2. MIN_ADDR <= loc[p].va /\ loc[p].va < MAX_ADDR
      BY <2>2, Layout DEF OutOfRange
    <3> QED
      BY <2>2, <3>1, <3>2, GuardHit, Zenon
  <2>7. HeadGuard(l) /\ (Live(p) => Tidy(l, pte[p]))
    BY <2>2, IdleTidy, Zenon
  <2>8. k # 1
    <3>1. l # <<>>
      BY <2>2
    <3> QED
      BY <2>6, <2>7, <3>1, Zenon DEF HeadGuard
  <2>9. ASSUME Live(p)' PROVE Growing(p)'
    <3>1. Tidy(l, pte[p])
      BY <2>1, <2>7, <2>9, Zenon DEF Live
    <3>2. NodeOK(l[k])
      BY <3>1, Zenon DEF Tidy, Sane, InOrder
    <3>3. g = l[k].end + 1
      BY <2>6, <3>2, Zenon DEF NodeOK
    <3>4. k \in 2..Len(l)
      BY <2>2, <2>8
    <3>5. /\ loc'[p].k = k /\ loc'[p].va = l[k].end + 1
          /\ list'[p] = l /\ pte'[p] = pte[p]
      BY <2>1, <2>4, <2>5, <3>3, Zenon
    <3> QED
      BY <3>1, <3>4, <3>5, Zenon DEF Growing
  <2>10. /\ ~ InMmap(p)' /\ InGrow(p)' /\ ~ InFork(p)' /\ pc'[p] # "fault"
         /\ loc'[p].q = p /\ loc'[p].k # 1
    BY <2>3, <2>4, <2>5, <2>8, Zenon DEF InMmap, InGrow, InFork
  <2>11. SlotOK(p)'
    BY <2>1, <2>2, <2>10, Zenon DEF SlotOK
  <2>12. ListOK(p)'
    BY <2>9, <2>10, Zenon DEF ListOK
  <2>13. Elsewhere(p)
    BY <2>1, <2>5, MoveElsewhere, Zenon
  <2> QED
    BY <2>11, <2>12, <2>13, Others, Zenon
<1> QED
  BY <1>1, <1>2, Zenon

\* The page-fault handler.
LEMMA PageFaultList ==
  ASSUME Inv, ListInv, NEW p \in Procs, PageFault(p)
  PROVE  ListInv'
<1> DEFINE a == loc[p].va
           k == FaultSlot(list[p], a)
<1>1. CASE FaultKill(p)
  <2>1. /\ st[p] = "RUN" /\ pc[p] = "fault" /\ Return(p)
        /\ killed' = [killed EXCEPT ![p] = TRUE]
        /\ UNCHANGED <<list, pte, own>>
    BY <1>1, Zenon DEF PageFault, At, FaultKill
  <2>2. killed \in [Procs -> BOOLEAN]
    BY Zenon DEF Inv, TypeOK
  <2>3. killed'[p] /\ \A q \in Procs \ {p} : killed'[q] = killed[q]
    BY <2>1, <2>2, Zenon
  <2>4. HeadGuard(list'[p])
    BY <2>1, IdleTidy, Zenon
  <2> QED
    BY <2>1, <2>3, <2>4, ReturnList, Zenon
<1>2. CASE Stop("wild")
  BY <1>2, StopList, Zenon
<1>3. CASE UNCHANGED vars
  BY <1>3, SameList, Zenon DEF vars
<1>4. CASE /\ ~ OutOfRange(a) /\ k # 0
           /\ InGuard(list[p][k], a) /\ FaultGrow(p, k)
  <2>1. list[p] \in Seq(VmaType) /\ Len(list[p]) \in Nat
    BY Handler
  <2>2. k \in 0..Len(list[p])
    BY <2>1, FaultSlotRange, Zenon
  <2> HIDE DEF k
  <2>3. k \in 1..Len(list[p])
    BY <1>4, <2>1, <2>2
  <2>4. At(p, "fault")
    BY Zenon DEF PageFault
  <2> QED
    BY <1>4, <2>3, <2>4, FaultGrowList, Zenon
<1> QED
  BY <1>1, <1>2, <1>3, <1>4, Zenon DEF PageFault

(***************************************************************************)
(* The theorems.                                                           *)
(***************************************************************************)
\* No program asks mmap() for zero bytes.
NoEmpty == \A len \in Lens : len > 0

\* No slot has a list at boot.
LEMMA InitList ==
  ASSUME Init
  PROVE  ListInv
<1> SUFFICES ASSUME NEW p \in Procs PROVE SlotOK(p) /\ ListOK(p)
  BY Zenon DEF ListInv
<1>1. list[p] = <<>> /\ st[p] = "UNUSED" /\ pc[p] = "user"
  BY Zenon DEF Init
<1>2. ~ InMmap(p) /\ ~ InGrow(p) /\ ~ InFork(p)
  BY <1>1, Zenon DEF InMmap, InGrow, InFork
<1> QED
  BY <1>1, <1>2, Zenon DEF SlotOK, ListOK, Live

\* Every step of every process keeps the invariant.
LEMMA NextList ==
  ASSUME NoEmpty, Inv, ListInv, [Next]_vars
  PROVE  ListInv'
<1>1. CASE UNCHANGED vars
  BY <1>1, SameList, Zenon DEF vars
<1>2. ASSUME NEW p \in Procs, Mmap(p) PROVE ListInv'
  <2>1. ASSUME NEW addr \in Addrs, NEW len \in Lens, NEW prot \in Prots,
               NEW flags \in FlagSets, SysMmap(p, addr, len, prot, flags)
        PROVE  ListInv'
    <3>1. len > 0
      BY Zenon DEF NoEmpty
    <3> QED
      BY <2>1, <3>1, SysMmapList, Zenon
  <2> QED
    BY <1>2, <2>1, MmapKallocList, MmapGuardList, Zenon DEF Mmap
<1>3. ASSUME NEW p \in Procs, MapPages(p) PROVE ListInv'
  <2>1. CASE MapRemap(p)
    BY <2>1, StopList, Zenon DEF MapRemap
  <2>2. CASE MapOk(p)
    <3>1. loc[p].op \in {"mmap", "fork", "grow"}
      BY <2>2, MapCaller, Zenon DEF MapOk, At
    <3> QED
      BY <2>2, <3>1, MapOkMmap, MapOkGrow, MapOkFork, Zenon
  <2>3. CASE MapFail(p)
    BY <2>3, MapFailList, Zenon
  <2> QED
    BY <1>3, <2>1, <2>2, <2>3, Zenon DEF MapPages
<1>4. ASSUME NEW p \in Procs, Munmap(p) PROVE ListInv'
  BY <1>4, SysMunmapList, MunmapLoopList, MunmapReturnList, Zenon DEF Munmap
<1>5. ASSUME NEW p \in Procs, Memory(p) PROVE ListInv'
  BY <1>5, AccessList, PageFaultList, Zenon DEF Memory
<1>6. ASSUME NEW p \in Procs, ForkSteps(p) PROVE ListInv'
  BY <1>6, ForkList, ForkSharedList, ForkPrivateList, ForkNextList,
     ForkReturnList, Zenon DEF ForkSteps
<1>7. ASSUME NEW p \in Procs, ProcSteps(p) PROVE ListInv'
  BY <1>7, ForkByInitList, ExecList, ExitStepList, WaitList, Zenon
     DEF ProcSteps
<1>8. CASE Halted \/ Done
  BY <1>1, <1>8, Zenon DEF Halted, Done
<1> QED
  BY <1>1, <1>2, <1>3, <1>4, <1>5, <1>6, <1>7, <1>8, Zenon DEF Next

\* Between two system calls the list of a process that did exec() is tidy.
LEMMA Described ==
  ASSUME ListInv, NEW p \in Procs, Describes(p)
  PROVE  Tidy(list[p], pte[p])
<1>1. pc[p] = "user" /\ Live(p)
  BY Zenon DEF Describes, Settled, Live
<1> QED
  BY <1>1, IdleTidy, Zenon

\* A tidy list is sorted and its areas are disjoint.
LEMMA SortedIs == ListInv => ListSorted
<1> SUFFICES ASSUME ListInv, NEW p \in Procs, Describes(p)
             PROVE  \A j, k \in 1..Len(list[p]) : j < k =>
                      list[p][j].end < list[p][k].start
  BY Zenon DEF ListSorted
<1>1. Tidy(list[p], pte[p])
  BY Described, Zenon
<1> QED
  BY <1>1, Zenon DEF Tidy, Sane, InOrder

\* A tidy list is what the page table holds.
LEMMA MemoryIs == ListInv => ListIsMemory
<1> SUFFICES ASSUME ListInv, NEW p \in Procs, Describes(p)
             PROVE  /\ Mapped(p) = UNION {PagesOf(list[p][k]) : k \in 1..Len(list[p])}
                    /\ \A k \in 2..Len(list[p]) :
                         NonEmpty(list[p][k]) => FirstFrame(pte[p], list[p][k])
  BY Zenon DEF ListIsMemory
<1>1. Tidy(list[p], pte[p])
  BY Described, Zenon
<1>2. Mapped(p) = {a \in VPages : \E k \in 1..Len(list[p]) : Covers(list[p][k], a)}
  BY <1>1, Zenon DEF Tidy, Mapped
<1>3. UNION {PagesOf(list[p][k]) : k \in 1..Len(list[p])}
        = {a \in VPages : \E k \in 1..Len(list[p]) : Covers(list[p][k], a)}
  <2> DEFINE U == UNION {PagesOf(list[p][k]) : k \in 1..Len(list[p])}
             W == {a \in VPages : \E k \in 1..Len(list[p]) : Covers(list[p][k], a)}
  <2>1. \A k, a : a \in PagesOf(list[p][k]) <=> a \in VPages /\ Covers(list[p][k], a)
    BY Zenon DEF PagesOf
  <2>2. \A a : a \in U <=> \E k \in 1..Len(list[p]) : a \in PagesOf(list[p][k])
    BY Zenon
  <2>3. \A a : a \in U <=> a \in W
    BY <2>1, <2>2, Zenon
  <2> QED
    BY <2>3, Zenon
<1> QED
  BY <1>1, <1>2, <1>3, Zenon DEF Tidy

\* A tidy list has its guard pages right behind its areas.
LEMMA GuardIs == ListInv => GuardIsNext
<1> SUFFICES ASSUME ListInv, NEW p \in Procs, Describes(p),
                    NEW k \in 1..Len(list[p]),
                    list[p][k].guardstart \in MIN_ADDR..MAX_ADDR
             PROVE  list[p][k].guardstart = list[p][k].end + 1
  BY Zenon DEF GuardIsNext
<1>1. NodeOK(list[p][k])
  BY Described, Zenon DEF Tidy, Sane, InOrder
<1>2. 0 \notin MIN_ADDR..MAX_ADDR /\ JUNK \notin MIN_ADDR..MAX_ADDR
      /\ NOGUARD \notin MIN_ADDR..MAX_ADDR
  BY Layout DEF JUNK
<1> QED
  BY <1>1, <1>2, Zenon DEF NodeOK

\* The invariant of the VMA lists holds at every step of every interleaving of
\* mmap, munmap, page faults, fork, exec, exit and wait, for any number of
\* processes, pages and calls, as long as no program asks for zero bytes.
THEOREM ListInvariant == ASSUME NoEmpty PROVE Spec => []ListInv
<1>1. Inv /\ ListInv /\ [Next]_vars => Inv' /\ ListInv'
  BY NextInv, NextList, Zenon
<1>2. Init => Inv /\ ListInv
  BY InitInv, InitList, Zenon
<1> QED
  BY <1>1, <1>2, PTL DEF Spec

\* Between system calls the areas of a process are disjoint and in the order of
\* their addresses, although sys_mmap trusts space_after, which counts bytes and
\* which growth leaves alone.
THEOREM SortedAlways == ASSUME NoEmpty PROVE Spec => []ListSorted
BY ListInvariant, SortedIs, PTL

\* Between system calls the list has an area over a page exactly when the page
\* table maps it, and vma->pa is the frame of the first page.
THEOREM MemoryAlways == ASSUME NoEmpty PROVE Spec => []ListIsMemory
BY ListInvariant, MemoryIs, PTL

\* Between system calls a guard page that a fault can hit is the page right
\* behind its area: DropPrevGuard, SetGuard and growth never leave a stale one.
THEOREM GuardAlways == ASSUME NoEmpty PROVE Spec => []GuardIsNext
BY ListInvariant, GuardIs, PTL
=============================================================================
