----------------------------- MODULE ProcProofs -----------------------------
(***************************************************************************)
(* IInv is an invariant of module Proc for any number of slots and CPUs,   *)
(* and what it says about scheduling, wait(), sleep() and interrupts.      *)
(* First the steps that change the slot of another process.                *)
(***************************************************************************)
EXTENDS ProcSteps, FiniteSetTheorems

(***************************************************************************)
(* The scheduler's choice, exit() and wait().                              *)
(***************************************************************************)
\* While c holds ptable.lock, no other CPU is on the stack or the page table
\* of a process that is not running.
LEMMA Elsewhere ==
  ASSUME IInv, NEW c \in Cpus, lock["ptable"] = c, NEW q \in Procs,
         state[q] # "RUNNING", NEW d \in Cpus \ {c}
  PROVE  cpu[d].thr # q /\ cpu[d].cr3 # q
<1>1. LocksOf(d) /\ ThreadOf(d) /\ cpu[d] \in CpuType /\ q # 0 /\ d # c
  BY Constants, Zenon DEF IInv, Types
<1>2. lock["ptable"] # d
  BY <1>1, Zenon
<1>3. cpu[d].cr3 # q
  <2>1. SUFFICES ASSUME cpu[d].cr3 = q
                 PROVE  FALSE
    BY Zenon
  <2>2. cpu[d].spc = "back"
    BY <1>1, <2>1, Zenon DEF ThreadOf
  <2>3. cpu[d].thr # 0
    BY <1>1, <1>2, <2>2, Zenon DEF LocksOf
  <2>4. cpu[d].thr = q /\ th[q].pc = "sched"
    BY <1>1, <2>1, <2>3, Zenon DEF ThreadOf
  <2>5. QED
    BY <1>1, <1>2, <2>4, Zenon DEF LocksOf, UnderPtable
<1>4. QED
  BY <1>1, <1>3, Zenon DEF ThreadOf

\* scheduler() finds p and switches to it.
LEMMA SchedSwtchStep ==
  ASSUME IInv, NEW c \in Cpus, SchedSwtch(c), NEW p \in Procs,
         state[p] = "RUNNABLE", p = First(Ahead(c))
  PROVE  IInv'
<1> DEFINE k == [cpu[c] EXCEPT !.thr = p, !.proc = p, !.cr3 = p, !.cur = p,
                               !.spc = "back"]
<1>1. /\ Types /\ cpu \in [Cpus -> CpuType] /\ state \in [Procs -> States]
  BY TypeFacts, Zenon DEF Types
<1>2. /\ cpu[c].thr = 0 /\ cpu[c].irq = "none" /\ cpu[c].ncli = 1
      /\ ~ cpu[c].ie /\ lock["ptable"] = c /\ lock["ticks"] # c
  BY SchedulesFacts, Zenon DEF SchedSwtch
<1>3. /\ cpu[c] \in CpuType /\ cpu' = [cpu EXCEPT ![c] = k]
      /\ state' = [state EXCEPT ![p] = "RUNNING"]
  BY <1>1, Zenon DEF SchedSwtch
<1>4. k \in CpuType
  <2>1. p \in Nat /\ p \in Procs \cup {0}
    BY ProcAssumption DEF Procs
  <2>2. QED
    BY <1>3, <2>1, Zenon DEF CpuType
<1>5. /\ k.thr = p /\ k.cr3 = p /\ k.spc = "back" /\ k.irq = cpu[c].irq
      /\ k.ncli = cpu[c].ncli /\ k.ie = cpu[c].ie
  BY <1>3, Zenon DEF CpuType
<1> HIDE DEF k
<1>6. /\ cpu' \in [Cpus -> CpuType] /\ cpu'[c] = k
      /\ \A d \in Cpus \ {c} : cpu'[d] = cpu[d]
  BY <1>1, <1>3, <1>4, Zenon
<1>7. /\ state' \in [Procs -> States] /\ state'[p] = "RUNNING"
      /\ \A q \in Procs \ {p} : state'[q] = state[q]
  BY <1>1, <1>3, Zenon DEF States
<1>8. UNCHANGED <<halt, lock, pid, parent, chan, killed, kstack, pgdir,
                  nextpid, th, ticks>>
  BY Zenon DEF SchedSwtch
<1>9. \A d \in Cpus : cpu[d].thr # p
  <2>1. cpu[c].thr # p
    BY <1>2, Constants, Zenon
  <2>2. \A d \in Cpus \ {c} : cpu[d].thr # p
    BY <1>2, Elsewhere, Zenon
  <2>3. QED
    BY <2>1, <2>2, Zenon
<1>10. SlotOf(p) /\ Executed(p)
  BY Zenon DEF IInv
<1>11. /\ th[p].pc \in {"forkret", "resume"}
       /\ th[p].pc = "resume" => th[p].ret \notin {"none", "zombie"}
  BY <1>9, <1>10, Zenon DEF Executed, SlotOf
<1>12. Local(c, {p})
  <2>1. \A q \in Procs \ {p} : Kept(q)
    BY <1>7, <1>8, Zenon DEF Kept
  <2>2. QED
    BY <1>6, <1>7, <1>8, <1>9, <2>1, Zenon DEF Local
<1>13. LocksOf(c)' /\ FlagsOf(c)' /\ ThreadOf(c)'
  <2>1. /\ cpu'[c].thr = p /\ cpu'[c].cr3 = p /\ cpu'[c].spc = "back"
        /\ cpu'[c].irq = "none" /\ cpu'[c].ncli = 1 /\ ~ cpu'[c].ie
        /\ p # 0 /\ lock' = lock /\ th' = th
    BY <1>2, <1>5, <1>6, <1>8, Constants, Zenon
  <2>2. LocksOf(c)'
    BY <1>2, <1>11, <2>1, Zenon DEF LocksOf, UnderPtable, UnderTicks
  <2>3. FlagsOf(c)'
    BY <1>11, <2>1, Zenon DEF FlagsOf, Open
  <2>4. ThreadOf(c)'
    BY <1>7, <1>11, <2>1, Zenon DEF ThreadOf
  <2>5. QED
    BY <2>2, <2>3, <2>4, Zenon
<1>14. \A d \in Cpus : LocksOf(d)' /\ FlagsOf(d)' /\ ThreadOf(d)'
  BY <1>12, <1>13, AllCpus, Zenon
<1>15. OneThread'
  BY <1>5, <1>6, <1>9 DEF IInv, OneThread
<1>16. \A q \in Procs : SlotOf(q)' /\ Executed(q)'
  <2>1. SlotOf(p)'
    BY <1>7, <1>8, <1>10, <1>11, Zenon DEF SlotOf
  <2>2. Executed(p)'
    BY <1>5, <1>6, Zenon DEF Executed
  <2>3. QED
    BY <1>2, <1>12, <2>1, <2>2, AllSlots, Zenon
<1>17. \A q \in Procs : ForkOf(q)'
  <2>1. ASSUME NEW q \in Procs, Forking(q)'
        PROVE  /\ Forking(q) /\ Place(q)' = Place(q) /\ th'[q].np = th[q].np
               /\ th[q].np \notin {p}
               /\ parent'[th[q].np] = parent[th[q].np]
    <3>1. Forking(q) /\ Place(q)' = Place(q) /\ th'[q].np = th[q].np
      BY <1>8, <2>1, Zenon DEF Forking, Place
    <3>2. state[th[q].np] = "EMBRYO"
      BY <3>1, Zenon DEF IInv, ForkOf, ChildOf
    <3>3. QED
      BY <1>8, <3>1, <3>2, Zenon
  <2>2. QED
    BY <1>12, <2>1, AllForks, Constants
<1>18. InitLives'
  BY <1>7, <1>8, Constants, Zenon DEF IInv, InitLives, Live
<1>19. ParentLives'
  <2> SUFFICES ASSUME NEW q \in Procs \ {initproc},
                      state'[q] \notin {"UNUSED", "EMBRYO"}
               PROVE  parent[q] # 0 /\ state'[parent[q]] \in Live
    BY <1>8, Zenon DEF ParentLives, Live
  <2>1. state[q] \notin {"UNUSED", "EMBRYO"}
    BY <1>7, Zenon
  <2>2. parent[q] # 0 /\ state[parent[q]] \in Live /\ parent[q] \in Procs
    BY <1>1, <2>1, Zenon DEF IInv, ParentLives, Live, Types
  <2>3. QED
    BY <1>7, <2>2, Zenon DEF Live
<1>20. Dozing'
  BY <1>8, Zenon DEF IInv, Dozing, Elapsed
<1>21. NoLostWakeup'
  <2> SUFFICES ASSUME NEW q \in Procs, state'[q] = "SLEEPING"
               PROVE  NoLost(q)'
    BY Zenon DEF NoLostWakeup, NoLost
  <2>1. state[q] = "SLEEPING"
    BY <1>7, Zenon
  <2>2. NoLost(q)
    BY Zenon DEF IInv, NoLostWakeup, NoLost
  <2>3. Elapsed(q)' <=> Elapsed(q)
    BY <1>8, Zenon DEF Elapsed
  <2>4. ZombieKids(q)' \subseteq ZombieKids(q)
    BY <1>7, <1>8, Zenon DEF ZombieKids, Kids
  <2>5. \A d \in Cpus : cpu'[d].irq = cpu[d].irq
    BY <1>5, <1>6, Zenon
  <2>6. QED
    BY <1>8, <2>1, <2>2, <2>3, <2>4, <2>5, Zenon DEF NoLost
<1>22. Types'
  BY <1>1, <1>6, <1>7, <1>8, Zenon DEF Types
<1>23. QED
  BY <1>14, <1>15, <1>16, <1>17, <1>18, <1>19, <1>20, <1>21, <1>22, Zenon DEF
     IInv

\* wait() of p frees the slot q.
LEMMA WaitReapsStep ==
  ASSUME IInv, NEW c \in Cpus, NEW p \in Procs, WaitReaps(c, p), NEW q,
         q \in ZombieKids(p), q = First(ZombieKids(p))
  PROVE  IInv'
<1>1. Runs(c, p, "scan")
  BY Zenon DEF WaitReaps
<1>2. /\ Types
      /\ lock \in [{"ptable", "ticks"} -> Cpus \cup {0}]
      /\ cpu \in [Cpus -> CpuType] /\ th \in [Procs -> ThreadType]
  BY TypeFacts, Zenon
<1>3. /\ cpu[c].ncli = 1 /\ cpu[c].intena
      /\ lock["ptable"] = c /\ lock["ticks"] # c
  BY <1>1, AtPtable, Zenon DEF UnderPtable
<1>4. /\ SlotOf(p) /\ p # 0 /\ cpu[c].thr = p /\ cpu[c].irq = "none"
      /\ cpu[c].spc = "back" /\ cpu[c].cr3 = p /\ state[p] = "RUNNING"
  BY <1>1, RunsFacts
<1>5. q \in Procs /\ parent[q] = p /\ state[q] = "ZOMBIE" /\ q # p
  BY <1>4, Zenon DEF ZombieKids, Kids
<1>6. q # initproc
  BY <1>5, Zenon DEF IInv, InitLives, Live
<1>7. /\ kstack' = [kstack EXCEPT ![q] = FALSE]
      /\ pgdir' = [pgdir EXCEPT ![q] = FALSE]
      /\ pid' = [pid EXCEPT ![q] = 0]
      /\ parent' = [parent EXCEPT ![q] = 0]
      /\ killed' = [killed EXCEPT ![q] = FALSE]
      /\ state' = [state EXCEPT ![q] = "UNUSED"]
      /\ th' = [th EXCEPT ![p] = Thread("sysret"), ![q] = Thread("none")]
      /\ UNCHANGED <<halt, chan, nextpid, ticks>>
  BY Zenon DEF WaitReaps
<1>8. CpuTo(c, 0, cpu[c].ie \/ cpu[c].intena, FALSE)
  BY <1>2, <1>3, CpuPop, Zenon DEF WaitReaps
<1>9. /\ cpu'[c].thr = p /\ cpu'[c].cr3 = p /\ cpu'[c].irq = "none"
      /\ cpu'[c].spc = "back" /\ cpu'[c].ncli = 0
  BY <1>4, <1>8, Zenon DEF CpuTo
<1>10. LockTo(c) /\ lock'["ptable"] # c /\ lock'["ticks"] # c
  BY <1>2, <1>3, ReleaseFacts, Zenon DEF WaitReaps
<1>11. /\ th' \in [Procs -> ThreadType]
       /\ th'[p].pc = "sysret" /\ th'[p].back = "none"
       /\ th'[q].pc = "none" /\ th'[q].back = "none"
       /\ \A r \in Procs \ {p, q} : th'[r] = th[r]
  <2>1. /\ Thread("sysret") \in ThreadType /\ Thread("none") \in ThreadType
        /\ Thread("sysret").pc = "sysret" /\ Thread("sysret").back = "none"
        /\ Thread("none").pc = "none" /\ Thread("none").back = "none"
    <3>1. "sysret" \in Labels /\ "none" \in Labels
      BY Zenon DEF Labels, Open
    <3>2. QED
      BY <3>1, ThreadFacts, Zenon
  <2>2. /\ th'[p] = Thread("sysret") /\ th'[q] = Thread("none")
        /\ \A r \in Procs \ {p, q} : th'[r] = th[r]
    BY <1>2, <1>5, <1>7, Zenon
  <2>3. th' \in [Procs -> ThreadType]
    BY <1>2, <1>5, <1>7, <2>1, Zenon
  <2>4. QED
    BY <2>1, <2>2, <2>3, Zenon
<1>12. /\ state' \in [Procs -> States] /\ state'[q] = "UNUSED"
       /\ parent' \in [Procs -> Procs \cup {0}] /\ parent'[q] = 0
       /\ ~ kstack'[q] /\ ~ pgdir'[q]
       /\ \A r \in Procs \ {q} :
            /\ state'[r] = state[r] /\ parent'[r] = parent[r]
            /\ kstack'[r] = kstack[r] /\ pgdir'[r] = pgdir[r]
  BY <1>2, <1>5, <1>7, Zenon DEF Types, States
<1>13. state'[p] = "RUNNING" /\ kstack'[p] /\ pgdir'[p]
  BY <1>4, <1>5, <1>12, Zenon DEF SlotOf
<1>14. Fits(c, th'[p].pc, 0, cpu'[c].ie, cpu'[c].intena)
  <2>1. cpu'[c].ie
    BY <1>3, <1>8, Zenon DEF CpuTo
  <2>2. QED
    BY <1>10, <1>11, <2>1, Zenon DEF Fits, Open
<1>15. LocksOf(c)' /\ FlagsOf(c)' /\ ThreadOf(c)'
  BY <1>9, <1>13, <1>14, FitsCpu, Zenon
<1>16. Local(c, {p, q})
  <2>1. \A d \in Cpus \ {c} : cpu[d].thr # p /\ cpu[d].thr # q /\ cpu[d].cr3 # q
    <3>1. \A d \in Cpus \ {c} : cpu[d].thr # q /\ cpu[d].cr3 # q
      BY <1>3, <1>5, Elsewhere, Zenon
    <3>2. \A d \in Cpus \ {c} : cpu[d].thr # p
      BY <1>4, Zenon DEF IInv, OneThread
    <3>3. QED
      BY <3>1, <3>2, Zenon
  <2>2. \A r \in Procs \ {p, q} : Kept(r)
    BY <1>11, <1>12, Zenon DEF Kept
  <2>3. QED
    BY <1>8, <1>10, <1>13, <2>1, <2>2, Zenon DEF Local, CpuTo, LockTo
<1>17. \A d \in Cpus : LocksOf(d)' /\ FlagsOf(d)' /\ ThreadOf(d)'
  BY <1>15, <1>16, AllCpus, Zenon
<1>18. \A d \in Cpus : cpu'[d].thr = cpu[d].thr /\ cpu'[d].irq = cpu[d].irq
  BY <1>8, Zenon DEF CpuTo
<1>19. OneThread'
  BY <1>18 DEF IInv, OneThread
<1>20. \A r \in Procs : SlotOf(r)' /\ Executed(r)'
  <2>1. SlotOf(p)'
    BY <1>11, <1>13, <1>14, FittingSlot, Zenon
  <2>2. SlotOf(q)'
    BY <1>11, <1>12, Zenon DEF SlotOf
  <2>3. Executed(p)'
    BY <1>9, Zenon DEF Executed
  <2>4. Executed(q)'
    BY <1>11, <1>12, Zenon DEF Executed
  <2>5. QED
    BY <1>4, <1>16, <2>1, <2>2, <2>3, <2>4, AllSlots, Zenon
<1>21. \A r \in Procs : ForkOf(r)'
  <2>1. ASSUME NEW r \in Procs, Forking(r)'
        PROVE  /\ Forking(r) /\ Place(r)' = Place(r) /\ th'[r].np = th[r].np
               /\ th[r].np \notin {p, q}
               /\ parent'[th[r].np] = parent[th[r].np]
    <3>1. th'[r] = th[r]
      BY <1>11, <2>1, Zenon DEF Forking, Place
    <3>2. Forking(r) /\ Place(r)' = Place(r) /\ th'[r].np = th[r].np
      BY <2>1, <3>1, Zenon DEF Forking, Place
    <3>3. th[r].np \in Procs /\ state[th[r].np] = "EMBRYO"
      BY <3>2, Zenon DEF IInv, ForkOf, ChildOf
    <3>4. QED
      BY <1>4, <1>5, <1>12, <3>2, <3>3, Zenon
  <2>2. QED
    BY <1>16, <2>1, AllForks, Constants
<1>22. InitLives'
  BY <1>5, <1>6, <1>12, Constants DEF IInv, InitLives
<1>23. ParentLives'
  <2> SUFFICES ASSUME NEW r \in Procs \ {initproc},
                      state'[r] \notin {"UNUSED", "EMBRYO"}
               PROVE  parent'[r] # 0 /\ state'[parent'[r]] \in Live
    BY Zenon DEF ParentLives, Live
  <2>1. r # q /\ state[r] \notin {"UNUSED", "EMBRYO"} /\ parent'[r] = parent[r]
    BY <1>12, Zenon
  <2>2. parent[r] # 0 /\ state[parent[r]] \in Live /\ parent[r] \in Procs
    BY <1>2, <2>1, Zenon DEF IInv, ParentLives, Live, Types
  <2>3. parent[r] # q
    BY <1>5, <2>2, Zenon DEF Live
  <2>4. QED
    BY <1>12, <2>1, <2>2, <2>3, Zenon
<1>24. Dozing'
  <2> SUFFICES ASSUME NEW r \in Procs, th'[r].pc = "doze"
               PROVE  ~ Elapsed(r)'
    BY Zenon DEF Dozing
  <2>1. th'[r] = th[r] /\ ticks' = ticks
    BY <1>7, <1>11, Zenon
  <2>2. ~ Elapsed(r)
    BY <2>1, Zenon DEF IInv, Dozing
  <2>3. QED
    BY <2>1, <2>2, Zenon DEF Elapsed
<1>25. NoLostWakeup'
  <2> SUFFICES ASSUME NEW r \in Procs, state'[r] = "SLEEPING"
               PROVE  NoLost(r)'
    BY Zenon DEF NoLostWakeup, NoLost
  <2>1. r # q /\ r # p /\ state[r] = "SLEEPING"
    BY <1>12, <1>13, Zenon
  <2>2. th'[r] = th[r] /\ chan' = chan /\ ticks' = ticks
    BY <1>7, <1>11, <2>1, Zenon
  <2>3. NoLost(r)
    BY Zenon DEF IInv, NoLostWakeup, NoLost
  <2>4. Elapsed(r)' <=> Elapsed(r)
    BY <2>2, Zenon DEF Elapsed
  <2>5. ZombieKids(r)' \subseteq ZombieKids(r)
    BY <1>12, Zenon DEF ZombieKids, Kids
  <2>6. QED
    BY <1>18, <2>1, <2>2, <2>3, <2>4, <2>5, Zenon DEF NoLost
<1>26. Types'
  <2>1. /\ kstack' \in [Procs -> BOOLEAN] /\ pgdir' \in [Procs -> BOOLEAN]
        /\ killed' \in [Procs -> BOOLEAN] /\ pid' \in [Procs -> Nat]
    BY <1>2, <1>5, <1>7, Zenon DEF Types
  <2>2. QED
    BY <1>2, <1>7, <1>8, <1>10, <1>11, <1>12, <2>1, Zenon DEF Types, CpuTo,
       LockTo
<1>27. QED
  BY <1>17, <1>19, <1>20, <1>21, <1>22, <1>23, <1>24, <1>25, <1>26, Zenon DEF
     IInv

\* exit(): nobody who waits for p, or inherits a zombie of it, stays asleep.
LEMMA ExitStep ==
  ASSUME IInv, NEW c \in Cpus, NEW p \in Procs, Exit(c, p)
  PROVE  IInv'
<1>1. Runs(c, p, "exit") /\ p # initproc
  BY Zenon DEF Exit
<1>2. /\ Types
      /\ lock \in [{"ptable", "ticks"} -> Cpus \cup {0}]
      /\ cpu \in [Cpus -> CpuType] /\ th \in [Procs -> ThreadType]
  BY TypeFacts, Zenon
<1>3. /\ cpu[c].ncli = 0 /\ lock["ticks"] # c /\ th[p].back = "none"
  BY <1>1, AtOpen, Zenon DEF Open
<1>4. /\ SlotOf(p) /\ p # 0 /\ cpu[c].thr = p /\ cpu[c].irq = "none"
      /\ cpu[c].spc = "back" /\ cpu[c].cr3 = p /\ state[p] = "RUNNING"
  BY <1>1, RunsFacts
<1>5. CpuTo(c, 1, FALSE, cpu[c].ie)
  BY <1>2, <1>3, CpuPush, Zenon DEF Exit
<1>6. /\ cpu'[c].thr = p /\ cpu'[c].cr3 = p /\ cpu'[c].irq = "none"
      /\ cpu'[c].spc = "back" /\ cpu'[c].ncli = 1 /\ ~ cpu'[c].ie
  BY <1>4, <1>5, Zenon DEF CpuTo
<1>7. /\ ThTo(p) /\ th'[p].pc = "sched" /\ th'[p].ret = "zombie"
      /\ th'[p].back = "none"
  BY <1>2, <1>3, SchedFacts, Zenon DEF Exit
<1>8. LockTo(c) /\ lock'["ptable"] = c /\ lock'["ticks"] # c
  BY <1>2, <1>3, AcquireFacts, Zenon DEF Exit
<1>9. /\ state' = [q \in Procs |-> IF q = p THEN "ZOMBIE"
                                   ELSE IF ExitWakes(p, q) THEN "RUNNABLE"
                                   ELSE state[q]]
      /\ parent' = [q \in Procs |-> IF q \in Kids(p) THEN initproc
                                    ELSE parent[q]]
      /\ UNCHANGED <<halt, pid, chan, killed, kstack, pgdir, nextpid, ticks>>
  BY Zenon DEF Exit
<1>10. /\ state' \in [Procs -> States] /\ state'[p] = "ZOMBIE"
       /\ parent' \in [Procs -> Procs \cup {0}]
  BY <1>2, <1>9, Constants, Zenon DEF Types, States
<1>11. \A q \in Procs \ {p} :
         \/ state'[q] = state[q]
         \/ state[q] = "SLEEPING" /\ state'[q] = "RUNNABLE"
  BY <1>9, Zenon DEF ExitWakes
<1>12. \A q \in Procs : parent'[q] = IF parent[q] = p THEN initproc ELSE parent[q]
  BY <1>9, Zenon DEF Kids
<1>13. LocksOf(c)' /\ FlagsOf(c)' /\ ThreadOf(c)'
  BY <1>6, <1>7, <1>8, <1>10, SchedCpu, Zenon
<1>14. Local(c, {p})
  <2>1. \A d \in Cpus \ {c} : cpu[d].thr # p
    BY <1>4, Zenon DEF IInv, OneThread
  <2>2. \A q \in Procs \ {p} : Kept(q)
    BY <1>7, <1>9, <1>11, Zenon DEF Kept, ThTo
  <2>3. QED
    BY <1>5, <1>8, <1>10, <2>1, <2>2, Zenon DEF Local, CpuTo, LockTo
<1>15. \A d \in Cpus : LocksOf(d)' /\ FlagsOf(d)' /\ ThreadOf(d)'
  BY <1>13, <1>14, AllCpus, Zenon
<1>16. \A d \in Cpus : cpu'[d].thr = cpu[d].thr /\ cpu'[d].irq = cpu[d].irq
  BY <1>5, Zenon DEF CpuTo
<1>17. OneThread'
  BY <1>16 DEF IInv, OneThread
<1>18. \A q \in Procs : SlotOf(q)' /\ Executed(q)'
  <2>1. kstack'[p] /\ pgdir'[p]
    BY <1>4, <1>9, Zenon DEF SlotOf
  <2>2. SlotOf(p)'
    BY <1>7, <1>10, <2>1, Zenon DEF SlotOf
  <2>3. Executed(p)'
    BY <1>6, Zenon DEF Executed
  <2>4. QED
    BY <1>4, <1>14, <2>2, <2>3, AllSlots, Zenon
<1>19. \A q \in Procs : ForkOf(q)'
  <2>1. ASSUME NEW q \in Procs, Forking(q)'
        PROVE  /\ Forking(q) /\ Place(q)' = Place(q) /\ th'[q].np = th[q].np
               /\ th[q].np \notin {p}
               /\ Place(q) = "runnable" =>
                    parent'[th[q].np] = parent[th[q].np]
    <3>1. q # p
      BY <1>7, <2>1, Zenon DEF Forking, Place
    <3>2. Forking(q) /\ Place(q)' = Place(q) /\ th'[q].np = th[q].np
      BY <1>7, <2>1, <3>1, Zenon DEF Forking, Place, ThTo
    <3>3. /\ th[q].np \in Procs /\ state[th[q].np] = "EMBRYO"
          /\ Place(q) = "runnable" => parent[th[q].np] = q
      BY <3>2, Zenon DEF IInv, ForkOf, ChildOf
    <3>4. QED
      BY <1>4, <1>12, <3>1, <3>2, <3>3, Zenon
  <2>2. QED
    BY <1>14, <2>1, AllForks, Constants, Zenon
<1>20. InitLives'
  <2>1. InitLives /\ initproc \in Procs
    BY Constants, Zenon DEF IInv
  <2>2. state'[initproc] \in Live
    BY <1>1, <1>11, <2>1, Zenon DEF InitLives, Live
  <2>3. parent'[initproc] = 0
    BY <1>4, <1>12, <2>1, Zenon DEF InitLives
  <2>4. \A q \in Procs : parent'[q] # q
    BY <1>4, <1>12, <2>1, Zenon DEF InitLives
  <2>5. QED
    BY <2>2, <2>3, <2>4, Zenon DEF InitLives
<1>21. ParentLives'
  <2> SUFFICES ASSUME NEW q \in Procs \ {initproc},
                      state'[q] \notin {"UNUSED", "EMBRYO"}
               PROVE  parent'[q] # 0 /\ state'[parent'[q]] \in Live
    BY Zenon DEF ParentLives, Live
  <2>1. state[q] \notin {"UNUSED", "EMBRYO"}
    BY <1>4, <1>11, Zenon
  <2>2. parent[q] # 0 /\ state[parent[q]] \in Live /\ parent[q] \in Procs
    BY <1>2, <2>1, Zenon DEF IInv, ParentLives, Live, Types
  <2>3. CASE parent[q] = p
    BY <1>12, <1>20, <2>3, Constants, Zenon DEF InitLives
  <2>4. CASE parent[q] # p
    BY <1>11, <1>12, <2>2, <2>4, Zenon DEF Live
  <2>5. QED
    BY <2>3, <2>4, Zenon
<1>22. Dozing'
  <2> SUFFICES ASSUME NEW q \in Procs, th'[q].pc = "doze"
               PROVE  ~ Elapsed(q)'
    BY Zenon DEF Dozing
  <2>1. th'[q] = th[q] /\ ticks' = ticks
    BY <1>7, <1>9, Zenon DEF ThTo
  <2>2. ~ Elapsed(q)
    BY <2>1, Zenon DEF IInv, Dozing
  <2>3. QED
    BY <2>1, <2>2, Zenon DEF Elapsed
<1>23. NoLostWakeup'
  <2> SUFFICES ASSUME NEW q \in Procs, state'[q] = "SLEEPING"
               PROVE  NoLost(q)'
    BY Zenon DEF NoLostWakeup, NoLost
  <2>1. q # p /\ state[q] = "SLEEPING" /\ ~ ExitWakes(p, q)
    BY <1>9, <1>10, <1>11, Zenon
  <2>2. th'[q] = th[q] /\ chan' = chan /\ ticks' = ticks
    BY <1>7, <1>9, <2>1, Zenon DEF ThTo
  <2>3. NoLost(q)
    BY Zenon DEF IInv, NoLostWakeup, NoLost
  <2>4. Elapsed(q)' <=> Elapsed(q)
    BY <2>2, Zenon DEF Elapsed
  <2>5. ASSUME chan[q] = q
        PROVE  ZombieKids(q)' = {}
    <3> SUFFICES ASSUME NEW r \in Procs, parent'[r] = q, state'[r] = "ZOMBIE"
                 PROVE  FALSE
      BY Zenon DEF ZombieKids, Kids
    <3>1. r # p
      <4>1. parent[p] # p
        BY Zenon DEF IInv, InitLives
      <4>2. QED
        BY <1>12, <2>1, <2>5, <4>1, Zenon DEF ExitWakes
    <3>2. state[r] = "ZOMBIE"
      BY <1>11, <3>1, Zenon
    <3>3. CASE parent[r] = p
      <4>1. r \in ZombieKids(p) /\ q = initproc
        BY <1>12, <3>2, <3>3, Zenon DEF ZombieKids, Kids
      <4>2. QED
        BY <2>1, <2>5, <4>1, Zenon DEF ExitWakes
    <3>4. CASE parent[r] # p
      <4>1. r \in ZombieKids(q)
        BY <1>12, <3>2, <3>4, Zenon DEF ZombieKids, Kids
      <4>2. QED
        BY <2>1, <2>3, <2>5, <4>1, Zenon DEF NoLost
    <3>5. QED
      BY <3>3, <3>4, Zenon
  <2>6. QED
    BY <1>16, <2>1, <2>2, <2>3, <2>4, <2>5, Zenon DEF NoLost
<1>24. Types'
  BY <1>2, <1>5, <1>7, <1>8, <1>9, <1>10, Zenon DEF Types, CpuTo, ThTo, LockTo
<1>25. QED
  BY <1>15, <1>17, <1>18, <1>19, <1>20, <1>21, <1>22, <1>23, <1>24, Zenon DEF
     IInv

\* A loop over the table stops at a slot it looks for, when there is one.
LEMMA FirstIn ==
  ASSUME NEW S, S \subseteq Procs, S # {}
  PROVE  First(S) \in S
<1>1. S \subseteq Nat
  BY ProcAssumption DEF Procs
<1>2. PICK x \in S : \A y \in S : ~ (<<y, x>> \in OpToRel(<, Nat))
  BY <1>1, NatLessThanWellFounded, WFMin, Zenon
<1>3. \A y \in Nat : y < x => <<y, x>> \in OpToRel(<, Nat)
  <2> SUFFICES ASSUME NEW y \in Nat, y < x
               PROVE  <<y, x>> \in OpToRel(<, Nat)
    BY Zenon
  <2>1. <<y, x>> \in Nat \X Nat /\ <<y, x>>[1] = y /\ <<y, x>>[2] = x
    BY <1>1
  <2>2. <<y, x>>[1] < <<y, x>>[2]
    BY <2>1
  <2>3. <<y, x>> \in {ss \in Nat \X Nat : ss[1] < ss[2]}
    BY <2>1, <2>2
  <2> QED
    BY <2>3, Zenon DEF OpToRel
<1>4. \A y \in S : ~ (y < x)
  BY <1>1, <1>2, <1>3, Zenon
<1>5. \A y \in S : x <= y
  BY <1>1, <1>4
<1>6. QED
  BY <1>5, Zenon DEF First

(***************************************************************************)
(* userinit() and main() establish the invariant.                          *)
(***************************************************************************)
LEMMA InitInv == Init => IInv
<1> SUFFICES ASSUME Init
             PROVE  IInv
  OBVIOUS
<1>1. /\ Thread("forkret") \in ThreadType /\ Thread("none") \in ThreadType
      /\ Thread("forkret").pc = "forkret" /\ Thread("forkret").back = "none"
      /\ Thread("none").pc = "none" /\ Thread("none").back = "none"
  <2>1. "forkret" \in Labels /\ "none" \in Labels
    BY DEF Labels, UnderPtable
  <2>2. QED
    BY <2>1, ThreadFacts, Zenon
<1>2. /\ Fresh \in CpuType
      /\ Fresh.thr = 0 /\ Fresh.cr3 = 0 /\ Fresh.irq = "none"
      /\ Fresh.spc = "sti" /\ Fresh.ncli = 0
  BY Constants DEF Fresh, CpuType
<1>3. \A p \in Procs :
        /\ state[p] = IF p = initproc THEN "RUNNABLE" ELSE "UNUSED"
        /\ th[p] = Thread(IF p = initproc THEN "forkret" ELSE "none")
        /\ kstack[p] <=> p = initproc
        /\ pgdir[p] <=> p = initproc
        /\ parent[p] = 0
  BY Zenon DEF Init
<1>4. \A p \in Procs : /\ th[p] \in ThreadType /\ th[p].back = "none"
                       /\ th[p].pc = IF p = initproc THEN "forkret" ELSE "none"
  BY <1>1, <1>3
<1>5. \A c \in Cpus : cpu[c] = Fresh
  BY DEF Init
<1>6. lock["ptable"] = 0 /\ lock["ticks"] = 0
  BY DEF Init
<1>7. Types
  <2>1. th \in [Procs -> ThreadType]
    BY <1>4 DEF Init
  <2>2. cpu \in [Cpus -> CpuType]
    BY <1>2 DEF Init
  <2>3. /\ pid \in [Procs -> Nat] /\ state \in [Procs -> States]
        /\ lock \in [{"ptable", "ticks"} -> Cpus \cup {0}]
    BY DEF Init, States
  <2>4. /\ kstack \in [Procs -> BOOLEAN] /\ pgdir \in [Procs -> BOOLEAN]
        /\ killed \in [Procs -> BOOLEAN]
    BY DEF Init
  <2>5. QED
    BY <2>1, <2>2, <2>3, <2>4 DEF Init, Types
<1>8. \A c \in Cpus : LocksOf(c) /\ FlagsOf(c) /\ ThreadOf(c)
  <2> SUFFICES ASSUME NEW c \in Cpus
               PROVE  LocksOf(c) /\ FlagsOf(c) /\ ThreadOf(c)
    OBVIOUS
  <2>1. /\ cpu[c].thr = 0 /\ cpu[c].cr3 = 0 /\ cpu[c].irq = "none"
        /\ cpu[c].spc = "sti" /\ cpu[c].ncli = 0 /\ c # 0
    BY <1>2, <1>5, Constants
  <2>2. QED
    BY <1>6, <2>1 DEF LocksOf, FlagsOf, ThreadOf
<1>9. OneThread
  BY <1>2, <1>5 DEF OneThread
<1>10. ASSUME NEW p \in Procs
       PROVE  SlotOf(p) /\ Executed(p) /\ ForkOf(p)
  <2>1. SlotOf(p)
    BY <1>3, <1>4 DEF SlotOf
  <2>2. Executed(p)
    BY <1>3, <1>4 DEF Executed
  <2>3. ForkOf(p)
    BY <1>4 DEF ForkOf, Forking, Place
  <2>4. QED
    BY <2>1, <2>2, <2>3
<1>11. InitLives /\ ParentLives
  BY <1>3, Constants DEF InitLives, ParentLives, Live
<1>12. Dozing /\ NoLostWakeup
  BY <1>3, <1>4 DEF Dozing, NoLostWakeup
<1>13. QED
  BY <1>7, <1>8, <1>9, <1>10, <1>11, <1>12 DEF IInv

(***************************************************************************)
(* Every step preserves it.                                                *)
(***************************************************************************)
LEMMA SchedulerInv ==
  ASSUME IInv, NEW c \in Cpus, Scheduler(c)
  PROVE  IInv'
<1>1. CASE SchedSwtch(c)
  <2>1. Ahead(c) \subseteq Procs /\ Ahead(c) # {}
    BY <1>1, Zenon DEF SchedSwtch, Ahead
  <2>2. First(Ahead(c)) \in Ahead(c)
    BY <2>1, FirstIn
  <2>3. First(Ahead(c)) \in Procs /\ state[First(Ahead(c))] = "RUNNABLE"
    BY <2>2 DEF Ahead
  <2>4. QED
    BY <1>1, <2>3, SchedSwtchStep
<1>2. QED
  BY <1>1, StiStep, SchedAcquireStep, SchedBackStep, SchedReleaseStep
  DEF Scheduler

LEMMA TimerInv ==
  ASSUME IInv, NEW c \in Cpus, TimerIrq(c) \/ Timer(c)
  PROVE  IInv'
<1>1. CASE TimerTail(c)
  <2>1. cpu[c].thr \in Procs \cup {0}
    BY TypeFacts DEF CpuType
  <2>2. QED
    BY <1>1, <2>1, TimerTailIdleStep, TimerTailStep
<1>2. QED
  BY <1>1, TimerIrqStep, TimerCountsStep, TimerWakesStep DEF Timer

LEMMA ForkInv ==
  ASSUME IInv, NEW c \in Cpus, NEW p \in Procs, Fork(c, p)
  PROVE  IInv'
<1>1. CASE ForkAlloc(c, p)
  <2> DEFINE unused == {q \in Procs : state[q] = "UNUSED"}
  <2>1. CASE unused = {}
    BY <1>1, <2>1, ForkAllocFailsStep
  <2>2. CASE unused # {}
    <3>1. First(unused) \in unused
      BY <2>2, FirstIn
    <3>2. First(unused) \in Procs /\ state[First(unused)] = "UNUSED"
      BY <3>1
    <3>3. QED
      BY <1>1, <3>2, ForkAllocStep
  <2>3. QED
    BY <2>1, <2>2
<1>2. QED
  BY <1>1, ForkKstackStep, ForkCopyStep, ForkRunStep DEF Fork

LEMMA WaitingInv ==
  ASSUME IInv, NEW c \in Cpus, NEW p \in Procs, Waiting(c, p)
  PROVE  IInv'
<1>1. CASE WaitReaps(c, p)
  <2>1. ZombieKids(p) \subseteq Procs /\ ZombieKids(p) # {}
    BY <1>1 DEF WaitReaps, ZombieKids, Kids
  <2>2. First(ZombieKids(p)) \in ZombieKids(p)
    BY <2>1, FirstIn
  <2>3. QED
    BY <1>1, <2>2, WaitReapsStep
<1>2. QED
  BY <1>1, WaitStep, WaitGivesUpStep, WaitSleepsStep, WaitWokenStep
  DEF Waiting

LEMMA NappingInv ==
  ASSUME IInv, NEW c \in Cpus, NEW p \in Procs, Napping(c, p)
  PROVE  IInv'
BY NapStep, NapOverStep, NapWaitsStep, NapSleepsStep, NapWokenStep,
   NapRelockStep DEF Napping

LEMMA KillInv ==
  ASSUME IInv, NEW c \in Cpus, NEW p \in Procs, Kill(c, p)
  PROVE  IInv'
<1> DEFINE named == {q \in Procs : pid[q] = th[p].arg}
<1>1. named # {} => First(named) \in named
  BY FirstIn
<1>2. named # {} => First(named) \in Procs
  BY <1>1
<1>3. QED
  BY <1>2, KillStep

LEMMA KernelInv ==
  ASSUME IInv, NEW c \in Cpus, NEW p \in Procs, Syscall(c, p) \/ Kernel(c, p)
  PROVE  IInv'
<1>1. CASE Work(c, p)
  BY <1>1, SysretStep, ForkInv, ExitStep, InitExitsStep, WaitingInv, KillInv,
     NappingInv DEF Work
<1>2. CASE Switching(c, p)
  BY <1>2, SchedOutStep, SchedInStep, ForkretStep DEF Switching
<1>3. CASE Yielding(c, p)
  BY <1>3, YieldStep, YieldedStep, IretStep DEF Yielding
<1>4. QED
  BY <1>1, <1>2, <1>3, SyscallStep DEF Kernel

LEMMA NextInv == IInv /\ [Next]_vars => IInv'
<1> SUFFICES ASSUME IInv, [Next]_vars
             PROVE  IInv'
  OBVIOUS
<1>1. ASSUME UNCHANGED vars
      PROVE  IInv'
  <2>1. UNCHANGED <<halt, lock, cpu, state, pid, parent, chan, killed, kstack,
                    pgdir, th, nextpid, ticks>>
    BY <1>1 DEF vars
  <2>2. Types'
    BY <2>1 DEF IInv, Types
  <2>3. QED
    BY <2>1, <2>2, IdleStep
<1>2. CASE Halted
  BY <1>1, <1>2 DEF Halted
<1>3. ASSUME NEW c \in Cpus, Scheduler(c) \/ TimerIrq(c) \/ Timer(c)
      PROVE  IInv'
  BY <1>3, SchedulerInv, TimerInv
<1>4. ASSUME NEW c \in Cpus, NEW p \in Procs, Syscall(c, p) \/ Kernel(c, p)
      PROVE  IInv'
  BY <1>4, KernelInv
<1>5. QED
  BY <1>1, <1>2, <1>3, <1>4 DEF Next

(***************************************************************************)
(* What the invariant implies.                                             *)
(***************************************************************************)
LEMMA InvOneCpu == IInv => OneCpu
<1> SUFFICES ASSUME IInv
             PROVE  OneCpu
  OBVIOUS
<1>1. ASSUME NEW c \in Cpus, cpu[c].thr # 0
      PROVE  state[cpu[c].thr] = "RUNNING" \/ lock["ptable"] = c
  <2>1. LocksOf(c) /\ ThreadOf(c)
    BY DEF IInv
  <2>2. QED
    BY <1>1, <2>1 DEF LocksOf, ThreadOf, UnderPtable
<1>2. \A p \in Procs : state[p] = "RUNNING" => \E c \in Cpus : cpu[c].thr = p
  BY DEF IInv, Executed
<1>3. QED
  BY <1>1, <1>2 DEF IInv, OneThread, OneCpu

LEMMA InvMemoryInUse == IInv => MemoryInUse
<1> SUFFICES ASSUME IInv
             PROVE  MemoryInUse
  OBVIOUS
<1>1. \A p \in Procs :
        /\ state[p] = "UNUSED" => ~ kstack[p] /\ ~ pgdir[p]
        /\ state[p] \notin {"UNUSED", "EMBRYO"} => kstack[p] /\ pgdir[p]
  BY DEF IInv, SlotOf
<1>2. ASSUME NEW c \in Cpus, NEW p \in {cpu[c].thr, cpu[c].cr3} \ {0}
      PROVE  kstack[p] /\ pgdir[p]
  <2>1. ThreadOf(c) /\ cpu[c] \in CpuType
    BY DEF IInv, Types
  <2>2. cpu[c].cr3 = p
    BY <1>2, <2>1 DEF ThreadOf
  <2>3. p \in Procs /\ state[p] \notin {"UNUSED", "EMBRYO"}
    BY <1>2, <2>1, <2>2 DEF ThreadOf, CpuType
  <2>4. QED
    BY <1>1, <2>3
<1>3. QED
  BY <1>1, <1>2 DEF MemoryInUse

\* A CPU holds as many locks as pushcli() has counted.
LEMMA LocksCounted ==
  ASSUME IInv, NEW c \in Cpus
  PROVE  cpu[c].ncli = Cardinality({l \in DOMAIN lock : lock[l] = c})
<1> DEFINE S == {l \in DOMAIN lock : lock[l] = c}
<1>1. DOMAIN lock = {"ptable", "ticks"} /\ LocksOf(c)
  BY DEF IInv, Types
<1>2. CASE lock["ptable"] = c
  <2>1. S = {"ptable"} /\ cpu[c].ncli = 1
    BY <1>1, <1>2 DEF LocksOf
  <2>2. QED
    BY <2>1, FS_Singleton, Zenon
<1>3. CASE lock["ticks"] = c
  <2>1. S = {"ticks"} /\ cpu[c].ncli = 1
    BY <1>1, <1>3 DEF LocksOf
  <2>2. QED
    BY <2>1, FS_Singleton, Zenon
<1>4. CASE lock["ptable"] # c /\ lock["ticks"] # c
  <2>1. S = {} /\ cpu[c].ncli = 0
    BY <1>1, <1>4 DEF LocksOf
  <2>2. QED
    BY <2>1, FS_EmptySet
<1>5. QED
  BY <1>2, <1>3, <1>4

LEMMA InvInterrupts == IInv => Interrupts
<1> SUFFICES ASSUME IInv, NEW c \in Cpus
             PROVE  /\ \A p \in Procs : Runs(c, p, "sched") =>
                         /\ lock["ptable"] = c /\ cpu[c].ncli = 1
                         /\ state[p] # "RUNNING"
                    /\ cpu[c].ncli # 0 => ~ cpu[c].ie
                    /\ cpu[c].irq # "none" => ~ cpu[c].ie
                    /\ \A p \in Procs : cpu[c].thr = p /\ cpu[c].irq = "none" =>
                         /\ th[p].pc \in {"yield", "iret"} => ~ cpu[c].ie
                         /\ /\ cpu[c].ncli = 0
                            /\ th[p].pc \notin {"yield", "iret", "exit"}
                            => cpu[c].ie
  BY LocksCounted DEF Interrupts
<1>1. LocksOf(c) /\ FlagsOf(c) /\ ThreadOf(c)
  BY DEF IInv
<1>2. \A p \in Procs : Runs(c, p, "sched") =>
        /\ lock["ptable"] = c /\ cpu[c].ncli = 1 /\ state[p] # "RUNNING"
  BY AtPtable, RunsFacts DEF UnderPtable
<1>3. /\ cpu[c].ncli # 0 => ~ cpu[c].ie
      /\ cpu[c].irq # "none" => ~ cpu[c].ie
  BY <1>1 DEF FlagsOf
<1>4. ASSUME NEW p \in Procs, cpu[c].thr = p, cpu[c].irq = "none"
      PROVE  /\ th[p].pc \in {"yield", "iret"} => ~ cpu[c].ie
             /\ /\ cpu[c].ncli = 0
                /\ th[p].pc \notin {"yield", "iret", "exit"}
                => cpu[c].ie
  <2>1. p # 0 /\ th[p].pc \in Labels /\ th[p].pc # "none"
    BY <1>1, <1>4, TypeFacts, Constants DEF ThreadOf, ThreadType
  <2>2. th[p].pc \in UnderPtable \cup UnderTicks => cpu[c].ncli = 1
    BY <1>1, <1>4, <2>1 DEF LocksOf
  <2>3. /\ th[p].pc \in {"yield", "iret"} => ~ cpu[c].ie
        /\ th[p].pc \in Open \ {"exit"} => cpu[c].ie
    BY <1>1, <1>4, <2>1 DEF FlagsOf
  <2>4. QED
    BY <2>1, <2>2, <2>3 DEF Labels
<1>5. QED
  BY <1>2, <1>3, <1>4

(***************************************************************************)
(* Theorems.                                                               *)
(***************************************************************************)
\* In every reachable state, the locks, the interrupt flags, the page tables
\* and the process table agree with where each thread is in proc.c and
\* trap.c, whatever NPROC and NCPU are.
THEOREM InvAlways == Spec => []IInv
BY InitInv, NextInv, PTL DEF Spec

\* sched() and scheduler() never let two CPUs execute one process: ptable.lock
\* is held from the change of state until swtch() has left the stack.
THEOREM OneCpuAlways == Spec => []OneCpu
BY InvAlways, InvOneCpu, PTL

\* pushcli(), popcli() and the intena that sched() saves and restores keep the
\* interrupt flag right across context switches and CPUs, and no panic of
\* sched() can happen.
THEOREM InterruptsAlways == Spec => []Interrupts
BY InvAlways, InvInterrupts, PTL

\* wait() never frees the stack or the page directory a CPU is on, and fork()
\* neither leaks nor forgets one.
THEOREM MemoryAlways == Spec => []MemoryInUse
BY InvAlways, InvMemoryInUse, PTL

\* exit() and the clock interrupt never miss a process that wait() or
\* sys_sleep() has put to sleep.
THEOREM WakeupsAlways == Spec => []NoLostWakeup
<1>1. IInv => NoLostWakeup
  BY DEF IInv
<1>2. QED
  BY <1>1, InvAlways, PTL

\* exit() passes its children to init in time: no process has a parent that
\* is gone.
THEOREM ParentsAlways == Spec => []ParentLives
<1>1. IInv => ParentLives
  BY DEF IInv
<1>2. QED
  BY <1>1, InvAlways, PTL
============================================================================
