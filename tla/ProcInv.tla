------------------------------ MODULE ProcInv ------------------------------
(***************************************************************************)
(* The inductive invariant of module Proc: where a thread is in the kernel *)
(* decides which lock its CPU holds, what the interrupt flag is, and what  *)
(* its slot of the process table may say.                                  *)
(***************************************************************************)
EXTENDS Proc

\* Labels of a process that holds no lock and may be interrupted, that holds
\* ptable.lock, and that holds tickslock.
Open ==
  {"user", "sysret", "fork", "kstack", "copyuvm", "runnable", "exit", "wait",
   "kill", "sleep", "relock"}
UnderPtable ==
  {"sched", "resume", "forkret", "yielded", "scan", "woken", "rise"}
UnderTicks == {"nap", "doze"}
Labels == Open \cup UnderPtable \cup UnderTicks \cup {"yield", "iret", "none"}

States == {"UNUSED", "EMBRYO", "SLEEPING", "RUNNABLE", "RUNNING", "ZOMBIE"}
Live == {"SLEEPING", "RUNNABLE", "RUNNING"}

CpuType ==
  [thr: Procs \cup {0}, proc: Procs \cup {0}, cr3: Procs \cup {0},
   ie: BOOLEAN, ncli: Nat, intena: BOOLEAN,
   irq: {"none", "count", "wake", "tail"},
   spc: {"sti", "top", "scan", "back"}, cur: Nat]
ThreadType ==
  [pc: Labels, ret: {"none", "woken", "rise", "yielded", "zombie"},
   intena: BOOLEAN, back: Open \cup {"none"}, np: Procs \cup {0}, arg: Nat,
   t0: Nat]

Types ==
  /\ halt \in {"none", "init_exiting"}
  /\ lock \in [{"ptable", "ticks"} -> Cpus \cup {0}]
  /\ cpu \in [Cpus -> CpuType]
  /\ state \in [Procs -> States]
  /\ pid \in [Procs -> Nat]
  /\ parent \in [Procs -> Procs \cup {0}]
  /\ chan \in [Procs -> Procs \cup {0, TICKS}]
  /\ killed \in [Procs -> BOOLEAN]
  /\ kstack \in [Procs -> BOOLEAN]
  /\ pgdir \in [Procs -> BOOLEAN]
  /\ th \in [Procs -> ThreadType]
  /\ nextpid \in Nat
  /\ ticks \in Nat

\* Which lock CPU c holds follows from the label of the thread it executes, and
\* it holds at most one.
LocksOf(c) ==
  LET k == cpu[c]
  IN  /\ lock["ptable"] = c <=>
           \/ k.thr = 0 /\ k.spc \in {"scan", "back"}
           \/ k.thr # 0 /\ th[k.thr].pc \in UnderPtable
      /\ lock["ticks"] = c <=>
           k.irq = "wake" \/ (k.thr # 0 /\ th[k.thr].pc \in UnderTicks)
      /\ lock["ptable"] = c => lock["ticks"] # c
      /\ k.ncli = IF lock["ptable"] = c \/ lock["ticks"] = c THEN 1 ELSE 0

\* The interrupt flag, and the value that the last release() will give it.
FlagsOf(c) ==
  LET k == cpu[c]
      t == th[k.thr]
  IN  /\ k.ncli # 0 => ~ k.ie
      /\ k.irq # "none" =>
           /\ ~ k.ie /\ lock["ptable"] # c
           /\ k.thr # 0 => t.pc \in Open
      /\ k.irq = "wake" => ~ k.intena
      /\ k.thr # 0 /\ k.irq = "none" =>
           /\ t.pc \in {"yield", "iret"} => ~ k.ie
           /\ t.pc \in Open \ {"exit"} => k.ie
           /\ t.pc \in {"scan", "woken", "rise", "nap", "doze"} => k.intena
           /\ t.pc = "yielded" => ~ k.intena
           /\ t.pc = "sched" => /\ t.ret \in {"woken", "rise"} => k.intena
                                /\ t.ret = "yielded" => ~ k.intena

\* A CPU that executes a process was sent there by its scheduler, runs on the
\* page table of that process, and the process has not given up its slot.
ThreadOf(c) ==
  LET k == cpu[c]
  IN  /\ k.thr # 0 =>
           /\ k.spc = "back" /\ k.cr3 = k.thr
           /\ th[k.thr].pc # "none"
           /\ state[k.thr] = "RUNNING" <=> th[k.thr].pc # "sched"
      /\ k.cr3 # 0 => k.spc = "back" /\ state[k.cr3] \notin {"UNUSED", "EMBRYO"}

\* What the slot of p says, and what its locals are, given its label.
SlotOf(p) ==
  LET t == th[p]
      s == state[p]
  IN  /\ t.pc = "none" => s \in {"UNUSED", "EMBRYO"}
      /\ t.pc = "forkret" => s \in {"EMBRYO", "RUNNABLE", "RUNNING"}
      /\ t.pc = "sched" => s \in {"RUNNABLE", "SLEEPING", "ZOMBIE"}
      /\ t.pc = "resume" => s \in {"RUNNABLE", "RUNNING", "SLEEPING", "ZOMBIE"}
      /\ t.pc \notin {"none", "forkret", "sched", "resume"} => s = "RUNNING"
      /\ t.pc \in {"sched", "resume"} =>
           /\ t.ret # "none"
           /\ t.ret = "zombie" <=> s = "ZOMBIE"
           /\ s = "SLEEPING" => t.ret \in {"woken", "rise"}
      /\ t.pc = "resume" => /\ t.ret \in {"woken", "rise"} => t.intena
                            /\ t.ret = "yielded" => ~ t.intena
      /\ t.back # "none" <=>
           \/ t.pc \in {"yield", "yielded", "iret"}
           \/ t.pc \in {"sched", "resume"} /\ t.ret = "yielded"
      /\ s = "UNUSED" => ~ kstack[p] /\ ~ pgdir[p]
      /\ s \notin {"UNUSED", "EMBRYO"} => kstack[p] /\ pgdir[p]

\* A process in the middle of the kernel is executed by some CPU.
Executed(p) ==
  state[p] = "RUNNING" \/ th[p].pc \notin {"none", "forkret", "resume"} =>
    \E c \in Cpus : cpu[c].thr = p

\* The label of p in its system call, also while the clock has taken the CPU
\* away from it.
Place(p) == IF th[p].back = "none" THEN th[p].pc ELSE th[p].back

Forking(p) == Place(p) \in {"kstack", "copyuvm", "runnable"}

\* The slot fork() has taken is as complete as it should be...
ChildOf(p) ==
  LET np == th[p].np
  IN  /\ np \in Procs /\ state[np] = "EMBRYO"
      /\ kstack[np] <=> Place(p) # "kstack"
      /\ pgdir[np] <=> Place(p) = "runnable"
      /\ th[np].pc = IF Place(p) = "runnable" THEN "forkret" ELSE "none"
      /\ Place(p) = "runnable" => parent[np] = p

\* ...and only its own.
ForkOf(p) ==
  Forking(p) =>
    /\ ChildOf(p)
    /\ \A q \in Procs \ {p} : Forking(q) => th[q].np # th[p].np

OneThread ==
  \A c, d \in Cpus : c # d /\ cpu[c].thr # 0 => cpu[c].thr # cpu[d].thr

\* Nobody has counted a tick since sys_sleep() decided to sleep.
Dozing == \A p \in Procs : th[p].pc = "doze" => ~ Elapsed(p)

\* init has not exited and has no parent, and nobody is their own.
InitLives ==
  /\ state[initproc] \in Live /\ parent[initproc] = 0
  /\ \A p \in Procs : parent[p] # p

\* Every step preserves this: the locks, the interrupt flag, the page table
\* and the process table agree with where every thread is in scheduler(),
\* sched(), fork(), exit(), wait(), sleep() and trap().
IInv ==
  /\ Types
  /\ \A c \in Cpus : LocksOf(c) /\ FlagsOf(c) /\ ThreadOf(c)
  /\ OneThread
  /\ \A p \in Procs : SlotOf(p) /\ Executed(p) /\ ForkOf(p)
  /\ InitLives /\ ParentLives
  /\ Dozing /\ NoLostWakeup
============================================================================
