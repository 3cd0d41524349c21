------------------------------- MODULE Proc -------------------------------
(***************************************************************************)
(* Processes and their scheduling: allocproc, fork, exit, wait, kill,      *)
(* sleep, wakeup, yield, sched, scheduler and forkret of proc.c, sys_sleep *)
(* of sysproc.c and the clock interrupt of trap.c, on several CPUs.        *)
(*                                                                         *)
(* A CPU executes one kernel thread at a time: its scheduler or a process. *)
(* swtch() changes the thread while ptable.lock stays held, so the thread  *)
(* that acquired the lock is not the one that releases it.  A step is what *)
(* one thread does under a lock, or a single access to shared state        *)
(* outside any lock.  A CPU that spins for a lock takes no step.           *)
(*                                                                         *)
(* Slot 1 of the table is initproc; 0 is the null pointer, no CPU, and the *)
(* scheduler as a thread.  CPU 1 is the one that counts the clock ticks.   *)
(***************************************************************************)
EXTENDS Integers, FiniteSets

CONSTANTS
  NPROC,     \* slots of ptable
  NCPU,      \* CPUs
  MaxPid,    \* bound: the last pid fork() hands out
  TickMod,   \* the tick counter is a number below TickMod (2^32 in the code)
  Naps,      \* numbers of ticks programs sleep for
  Calls      \* the system calls programs make

ASSUME ProcAssumption ==
  /\ NPROC \in Nat \ {0}
  /\ NCPU \in Nat \ {0}
  /\ MaxPid \in Nat
  /\ TickMod \in Nat \ {0}
  /\ Naps \subseteq 0..(TickMod - 1)
  /\ Calls \subseteq {"fork", "exit", "wait", "kill", "sleep"}

Procs == 1..NPROC
Cpus == 1..NCPU
initproc == 1

\* &ticks as a wait channel; the other channels are processes.
TICKS == NPROC + 1

\* Where a loop over the table that looks for a slot in S stops.
First(S) == CHOOSE p \in S : \A q \in S : p <= q

VARIABLES
  halt,      \* "none", or the panic that stopped the kernel
  lock,      \* the CPU that holds ptable.lock and tickslock
  cpu,       \* struct cpu, the interrupt flag, %cr3 and the current thread
  state,     \* p->state
  pid,       \* p->pid
  parent,    \* p->parent
  chan,      \* p->chan
  killed,    \* p->killed
  kstack,    \* p->kstack is allocated
  pgdir,     \* p->pgdir is allocated
  th,        \* where each process is in the kernel, and its local variables
  nextpid,
  ticks

vars == <<halt, lock, cpu, state, pid, parent, chan, killed, kstack, pgdir,
          th, nextpid, ticks>>

table == <<state, pid, parent, chan, killed, kstack, pgdir, nextpid>>

\* pc: the next step; ret: where sched() returns to; intena: local of
\* sched(); back: what the clock interrupted; np, arg, t0: locals of fork(),
\* of kill() and sys_sleep(), and of sys_sleep().  A slot without a stack is
\* at "none".
Thread(l) == [pc |-> l, ret |-> "none", intena |-> FALSE, back |-> "none",
              np |-> 0, arg |-> 0, t0 |-> 0]

\* A CPU about to enter scheduler(); main() runs with interrupts disabled.
Fresh == [thr |-> 0, proc |-> 0, cr3 |-> 0, ie |-> FALSE, ncli |-> 0,
          intena |-> FALSE, irq |-> "none", spc |-> "sti", cur |-> 0]

\* userinit() has made the first process.
Init ==
  /\ halt = "none"
  /\ lock = [l \in {"ptable", "ticks"} |-> 0]
  /\ cpu = [c \in Cpus |-> Fresh]
  /\ state = [p \in Procs |-> IF p = initproc THEN "RUNNABLE" ELSE "UNUSED"]
  /\ pid = [p \in Procs |-> IF p = initproc THEN 1 ELSE 0]
  /\ parent = [p \in Procs |-> 0]
  /\ chan = [p \in Procs |-> 0]
  /\ killed = [p \in Procs |-> FALSE]
  /\ kstack = [p \in Procs |-> p = initproc]
  /\ pgdir = [p \in Procs |-> p = initproc]
  /\ th = [p \in Procs |-> Thread(IF p = initproc THEN "forkret" ELSE "none")]
  /\ nextpid = 2
  /\ ticks = 0

(***************************************************************************)
(* Interrupt flags and locks (spinlock.c).                                 *)
(***************************************************************************)
pushcli(k) ==
  [k EXCEPT !.intena = IF k.ncli = 0 THEN k.ie ELSE @,
            !.ncli = @ + 1, !.ie = FALSE]

\* intena is dead once ncli is 0: pushcli() sets it before it is read.
popcli(k) ==
  [k EXCEPT !.ncli = @ - 1, !.ie = @ \/ (k.ncli = 1 /\ k.intena),
            !.intena = @ /\ k.ncli # 1]

\* acquire() and release() of one lock within a step.
Held(k) == popcli(pushcli(k))

Free(l) == lock[l] = 0

Acquire(c, l) == Free(l) /\ lock' = [lock EXCEPT ![l] = c]

Release(l) == lock' = [lock EXCEPT ![l] = 0]

\* CPU c executes process p, which is at label l.
Runs(c, p, l) ==
  /\ halt = "none"
  /\ cpu[c].thr = p
  /\ cpu[c].irq = "none"
  /\ th[p].pc = l

\* CPU c executes its scheduler, which is at label l.
Schedules(c, l) ==
  /\ halt = "none"
  /\ cpu[c].thr = 0
  /\ cpu[c].irq = "none"
  /\ cpu[c].spc = l

Goto(p, l) == th' = [th EXCEPT ![p].pc = l]

\* The end of a system call: trap() looks at p->killed once more.
Return(p) == th' = [th EXCEPT ![p] = Thread("sysret")]

\* Call sched(), to go on at l when this process is chosen again.
Sched(p, l) == th' = [th EXCEPT ![p].pc = "sched", ![p].ret = l]

\* The state of every process after wakeup1(ch).
Woken(ch) ==
  [q \in Procs |->
     IF state[q] = "SLEEPING" /\ chan[q] = ch THEN "RUNNABLE" ELSE state[q]]

(***************************************************************************)
(* scheduler().                                                            *)
(***************************************************************************)
Sti(c) ==
  /\ Schedules(c, "sti")
  /\ cpu' = [cpu EXCEPT ![c].ie = TRUE, ![c].spc = "top"]
  /\ UNCHANGED <<halt, lock, table, th, ticks>>

SchedAcquire(c) ==
  /\ Schedules(c, "top")
  /\ Acquire(c, "ptable")
  /\ cpu' = [cpu EXCEPT ![c] = [pushcli(@) EXCEPT !.spc = "scan", !.cur = 1]]
  /\ UNCHANGED <<halt, table, th, ticks>>

\* The runnable processes the loop has still to come to.
Ahead(c) == {p \in Procs : p >= cpu[c].cur /\ state[p] = "RUNNABLE"}

\* Mutant: the process is switched to while it still counts as RUNNABLE.
SchedSwtchIdle(c) ==
  /\ Schedules(c, "scan")
  /\ Ahead(c) # {}
  /\ LET p == First(Ahead(c))
     IN  cpu' = [cpu EXCEPT ![c].thr = p, ![c].proc = p, ![c].cr3 = p,
                            ![c].cur = p, ![c].spc = "back"]
  /\ UNCHANGED <<halt, lock, table, th, ticks>>

SchedSwtch(c) ==
  /\ Schedules(c, "scan")
  /\ Ahead(c) # {}
  /\ LET p == First(Ahead(c))
     IN  /\ cpu' = [cpu EXCEPT ![c].thr = p, ![c].proc = p, ![c].cr3 = p,
                               ![c].cur = p, ![c].spc = "back"]
         /\ state' = [state EXCEPT ![p] = "RUNNING"]
  /\ UNCHANGED <<halt, lock, pid, parent, chan, killed, kstack, pgdir,
                 nextpid, th, ticks>>

\* Mutant: the loop starts again from the first slot.
SchedBackRestarts(c) ==
  /\ Schedules(c, "back")
  /\ cpu' = [cpu EXCEPT ![c].proc = 0, ![c].cr3 = 0, ![c].cur = 1,
                        ![c].spc = "scan"]
  /\ UNCHANGED <<halt, lock, table, th, ticks>>

\* Back from swtch(): switchkvm(), and on with the loop.
SchedBack(c) ==
  /\ Schedules(c, "back")
  /\ cpu' = [cpu EXCEPT ![c].proc = 0, ![c].cr3 = 0, ![c].cur = @ + 1,
                        ![c].spc = "scan"]
  /\ UNCHANGED <<halt, lock, table, th, ticks>>

SchedRelease(c) ==
  /\ Schedules(c, "scan")
  /\ Ahead(c) = {}
  /\ Release("ptable")
  /\ cpu' = [cpu EXCEPT ![c] = [popcli(@) EXCEPT !.spc = "sti", !.cur = 0]]
  /\ UNCHANGED <<halt, table, th, ticks>>

(***************************************************************************)
(* sched() and the first steps of a process that is chosen.                *)
(***************************************************************************)
\* swtch() to the scheduler of this CPU.
SchedOut(c, p) ==
  /\ Runs(c, p, "sched")
  /\ th' = [th EXCEPT ![p].pc = "resume", ![p].intena = cpu[c].intena]
  /\ cpu' = [cpu EXCEPT ![c].thr = 0]
  /\ UNCHANGED <<halt, lock, table, ticks>>

\* Mutant: intena is left to the CPU.
SchedInKeeps(c, p) ==
  /\ Runs(c, p, "resume")
  /\ th' = [th EXCEPT ![p].pc = th[p].ret, ![p].ret = "none",
                      ![p].intena = FALSE]
  /\ UNCHANGED <<halt, lock, cpu, table, ticks>>

\* swtch() returns, perhaps on another CPU, and sched() restores intena.
SchedIn(c, p) ==
  /\ Runs(c, p, "resume")
  /\ cpu' = [cpu EXCEPT ![c].intena = th[p].intena]
  /\ th' = [th EXCEPT ![p].pc = th[p].ret, ![p].ret = "none",
                      ![p].intena = FALSE]
  /\ UNCHANGED <<halt, lock, table, ticks>>

\* A new process: release the lock the scheduler took, return to user space.
Forkret(c, p) ==
  /\ Runs(c, p, "forkret")
  /\ Release("ptable")
  /\ cpu' = [cpu EXCEPT ![c] = [popcli(@) EXCEPT !.ie = TRUE]]
  /\ Goto(p, "user")
  /\ UNCHANGED <<halt, table, ticks>>

(***************************************************************************)
(* System calls.  A program in user space makes any call at any time.      *)
(***************************************************************************)
Syscall(c, p) ==
  /\ Runs(c, p, "user")
  /\ \E call \in Calls :
       /\ call = "fork" => nextpid <= MaxPid
       /\ \E arg \in CASE call = "kill"  -> 0..MaxPid
                       [] call = "sleep" -> Naps
                       [] OTHER          -> {0} :
            th' = [th EXCEPT ![p] =
                     IF killed[p] THEN Thread("exit")
                     ELSE [Thread(call) EXCEPT !.arg = arg]]
  /\ UNCHANGED <<halt, lock, cpu, table, ticks>>

Sysret(c, p) ==
  /\ Runs(c, p, "sysret")
  /\ Goto(p, IF killed[p] THEN "exit" ELSE "user")
  /\ UNCHANGED <<halt, lock, cpu, table, ticks>>

\* allocproc() up to the release of the lock.
ForkAlloc(c, p) ==
  LET unused == {q \in Procs : state[q] = "UNUSED"}
      np     == First(unused)
  IN  /\ Runs(c, p, "fork")
      /\ Free("ptable")
      /\ cpu' = [cpu EXCEPT ![c] = Held(@)]
      /\ IF unused = {}
         THEN Return(p) /\ UNCHANGED <<state, pid, nextpid>>
         ELSE /\ state' = [state EXCEPT ![np] = "EMBRYO"]
              /\ pid' = [pid EXCEPT ![np] = nextpid]
              /\ nextpid' = nextpid + 1
              /\ th' = [th EXCEPT ![p].pc = "kstack", ![p].np = np]
      /\ UNCHANGED <<halt, lock, parent, chan, killed, kstack, pgdir, ticks>>

\* The slot is given back without the lock.
ForkFails(p) ==
  /\ state' = [state EXCEPT ![th[p].np] = "UNUSED"]
  /\ Return(p)

ForkKstack(c, p) ==
  /\ Runs(c, p, "kstack")
  /\ \/ /\ kstack' = [kstack EXCEPT ![th[p].np] = TRUE]
        /\ Goto(p, "copyuvm")
        /\ UNCHANGED state
     \/ ForkFails(p) /\ UNCHANGED kstack
  /\ UNCHANGED <<halt, lock, cpu, pid, parent, chan, killed, pgdir, nextpid,
                 ticks>>

\* Mutant: the kernel stack is forgotten when copyuvm() fails.
ForkCopyLeaks(c, p) ==
  /\ Runs(c, p, "copyuvm")
  /\ \/ /\ pgdir' = [pgdir EXCEPT ![th[p].np] = TRUE]
        /\ parent' = [parent EXCEPT ![th[p].np] = p]
        /\ th' = [th EXCEPT ![p].pc = "runnable",
                            ![th[p].np] = Thread("forkret")]
        /\ UNCHANGED <<state, kstack>>
     \/ ForkFails(p) /\ UNCHANGED <<parent, pgdir, kstack>>
  /\ UNCHANGED <<halt, lock, cpu, pid, chan, killed, nextpid, ticks>>

ForkCopy(c, p) ==
  /\ Runs(c, p, "copyuvm")
  /\ \/ /\ pgdir' = [pgdir EXCEPT ![th[p].np] = TRUE]
        /\ parent' = [parent EXCEPT ![th[p].np] = p]
        /\ th' = [th EXCEPT ![p].pc = "runnable",
                            ![th[p].np] = Thread("forkret")]
        /\ UNCHANGED <<state, kstack>>
     \/ /\ kstack' = [kstack EXCEPT ![th[p].np] = FALSE]
        /\ ForkFails(p)
        /\ UNCHANGED <<parent, pgdir>>
  /\ UNCHANGED <<halt, lock, cpu, pid, chan, killed, nextpid, ticks>>

ForkRun(c, p) ==
  /\ Runs(c, p, "runnable")
  /\ Free("ptable")
  /\ cpu' = [cpu EXCEPT ![c] = Held(@)]
  /\ state' = [state EXCEPT ![th[p].np] = "RUNNABLE"]
  /\ Return(p)
  /\ UNCHANGED <<halt, lock, pid, parent, chan, killed, kstack, pgdir,
                 nextpid, ticks>>

\* The children of p; those of them wait() may collect.
Kids(p) == {q \in Procs : parent[q] = p}

ZombieKids(p) == {q \in Kids(p) : state[q] = "ZOMBIE"}

\* Mutant: the parent is not told.
ExitWakesInit(p, q) ==
  state[q] = "SLEEPING" /\ chan[q] = initproc /\ ZombieKids(p) # {}

\* Whom exit() of p wakes: its parent, and init when it inherits a zombie.
ExitWakes(p, q) ==
  /\ state[q] = "SLEEPING"
  /\ \/ chan[q] = parent[p]
     \/ chan[q] = initproc /\ ZombieKids(p) # {}

\* exit().  Files and memory below p->sz are not part of this module.
Exit(c, p) ==
  /\ Runs(c, p, "exit")
  /\ p # initproc
  /\ Acquire(c, "ptable")
  /\ cpu' = [cpu EXCEPT ![c] = pushcli(@)]
  /\ state' = [q \in Procs |-> IF q = p THEN "ZOMBIE"
                               ELSE IF ExitWakes(p, q) THEN "RUNNABLE"
                               ELSE state[q]]
  /\ parent' = [q \in Procs |-> IF q \in Kids(p) THEN initproc ELSE parent[q]]
  /\ Sched(p, "zombie")
  /\ UNCHANGED <<halt, pid, chan, killed, kstack, pgdir, nextpid, ticks>>

InitExits(c, p) ==
  /\ Runs(c, p, "exit")
  /\ p = initproc
  /\ halt' = "init_exiting"
  /\ UNCHANGED <<lock, cpu, table, th, ticks>>

Wait(c, p) ==
  /\ Runs(c, p, "wait")
  /\ Acquire(c, "ptable")
  /\ cpu' = [cpu EXCEPT ![c] = pushcli(@)]
  /\ Goto(p, "scan")
  /\ UNCHANGED <<halt, table, ticks>>

\* The loop finds a zombie and frees its slot.
WaitReaps(c, p) ==
  LET q == First(ZombieKids(p))
  IN  /\ Runs(c, p, "scan")
      /\ ZombieKids(p) # {}
      /\ kstack' = [kstack EXCEPT ![q] = FALSE]
      /\ pgdir' = [pgdir EXCEPT ![q] = FALSE]
      /\ pid' = [pid EXCEPT ![q] = 0]
      /\ parent' = [parent EXCEPT ![q] = 0]
      /\ killed' = [killed EXCEPT ![q] = FALSE]
      /\ state' = [state EXCEPT ![q] = "UNUSED"]
      /\ Release("ptable")
      /\ cpu' = [cpu EXCEPT ![c] = popcli(@)]
      /\ th' = [th EXCEPT ![p] = Thread("sysret"), ![q] = Thread("none")]
      /\ UNCHANGED <<halt, chan, nextpid, ticks>>

WaitGivesUp(c, p) ==
  /\ Runs(c, p, "scan")
  /\ ZombieKids(p) = {}
  /\ Kids(p) = {} \/ killed[p]
  /\ Release("ptable")
  /\ cpu' = [cpu EXCEPT ![c] = popcli(@)]
  /\ Return(p)
  /\ UNCHANGED <<halt, table, ticks>>

\* sleep(curproc, &ptable.lock), up to swtch().
WaitSleeps(c, p) ==
  /\ Runs(c, p, "scan")
  /\ ZombieKids(p) = {}
  /\ Kids(p) # {} /\ ~ killed[p]
  /\ chan' = [chan EXCEPT ![p] = p]
  /\ state' = [state EXCEPT ![p] = "SLEEPING"]
  /\ Sched(p, "woken")
  /\ UNCHANGED <<halt, lock, cpu, pid, parent, killed, kstack, pgdir,
                 nextpid, ticks>>

WaitWoken(c, p) ==
  /\ Runs(c, p, "woken")
  /\ chan' = [chan EXCEPT ![p] = 0]
  /\ Goto(p, "scan")
  /\ UNCHANGED <<halt, lock, cpu, state, pid, parent, killed, kstack, pgdir,
                 nextpid, ticks>>

\* Mutant: the sleeper is not woken.
KillQuiet(c, p) ==
  LET named == {q \in Procs : pid[q] = th[p].arg}
      q     == First(named)
  IN  /\ Runs(c, p, "kill")
      /\ Free("ptable")
      /\ cpu' = [cpu EXCEPT ![c] = Held(@)]
      /\ killed' = IF named = {} THEN killed ELSE [killed EXCEPT ![q] = TRUE]
      /\ Return(p)
      /\ UNCHANGED <<halt, lock, state, pid, parent, chan, kstack, pgdir,
                     nextpid, ticks>>

\* kill(): the first slot with that pid, whatever its state.
Kill(c, p) ==
  LET named == {q \in Procs : pid[q] = th[p].arg}
      q     == First(named)
  IN  /\ Runs(c, p, "kill")
      /\ Free("ptable")
      /\ cpu' = [cpu EXCEPT ![c] = Held(@)]
      /\ IF named = {}
         THEN UNCHANGED <<state, killed>>
         ELSE /\ killed' = [killed EXCEPT ![q] = TRUE]
              /\ state' = [state EXCEPT ![q] = IF @ = "SLEEPING"
                                               THEN "RUNNABLE" ELSE @]
      /\ Return(p)
      /\ UNCHANGED <<halt, lock, pid, parent, chan, kstack, pgdir, nextpid,
                     ticks>>

(***************************************************************************)
(* sys_sleep(), and sleep() with a lock that is not ptable.lock.           *)
(***************************************************************************)
Nap(c, p) ==
  /\ Runs(c, p, "sleep")
  /\ Acquire(c, "ticks")
  /\ cpu' = [cpu EXCEPT ![c] = pushcli(@)]
  /\ th' = [th EXCEPT ![p].pc = "nap", ![p].t0 = ticks]
  /\ UNCHANGED <<halt, table, ticks>>

Elapsed(p) == (ticks - th[p].t0) % TickMod >= th[p].arg

NapOver(c, p) ==
  /\ Runs(c, p, "nap")
  /\ Elapsed(p) \/ killed[p]
  /\ Release("ticks")
  /\ cpu' = [cpu EXCEPT ![c] = popcli(@)]
  /\ Return(p)
  /\ UNCHANGED <<halt, table, ticks>>

\* The loop decides to sleep; p->killed was read without ptable.lock.
NapWaits(c, p) ==
  /\ Runs(c, p, "nap")
  /\ ~ Elapsed(p) /\ ~ killed[p]
  /\ Goto(p, "doze")
  /\ UNCHANGED <<halt, lock, cpu, table, ticks>>

\* acquire(&ptable.lock); release(lk); go to sleep.
NapSleeps(c, p) ==
  /\ Runs(c, p, "doze")
  /\ Free("ptable")
  /\ lock' = [lock EXCEPT !["ptable"] = c, !["ticks"] = 0]
  /\ cpu' = [cpu EXCEPT ![c] = popcli(pushcli(@))]
  /\ chan' = [chan EXCEPT ![p] = TICKS]
  /\ state' = [state EXCEPT ![p] = "SLEEPING"]
  /\ Sched(p, "rise")
  /\ UNCHANGED <<halt, pid, parent, killed, kstack, pgdir, nextpid, ticks>>

NapWoken(c, p) ==
  /\ Runs(c, p, "rise")
  /\ chan' = [chan EXCEPT ![p] = 0]
  /\ Release("ptable")
  /\ cpu' = [cpu EXCEPT ![c] = popcli(@)]
  /\ Goto(p, "relock")
  /\ UNCHANGED <<halt, state, pid, parent, killed, kstack, pgdir, nextpid,
                 ticks>>

NapRelock(c, p) ==
  /\ Runs(c, p, "relock")
  /\ Acquire(c, "ticks")
  /\ cpu' = [cpu EXCEPT ![c] = pushcli(@)]
  /\ Goto(p, "nap")
  /\ UNCHANGED <<halt, table, ticks>>

(***************************************************************************)
(* The clock interrupt, in user space, in the kernel or in the scheduler.  *)
(***************************************************************************)
\* The processor enters trap() with interrupts disabled.
TimerIrq(c) ==
  /\ halt = "none"
  /\ cpu[c].ie
  /\ cpu' = [cpu EXCEPT ![c].ie = FALSE,
                        ![c].irq = IF c = 1 THEN "count" ELSE "tail"]
  /\ UNCHANGED <<halt, lock, table, th, ticks>>

TimerCounts(c) ==
  /\ halt = "none"
  /\ cpu[c].irq = "count"
  /\ Acquire(c, "ticks")
  /\ ticks' = (ticks + 1) % TickMod
  /\ cpu' = [cpu EXCEPT ![c] = [pushcli(@) EXCEPT !.irq = "wake"]]
  /\ UNCHANGED <<halt, table, th>>

\* Mutant: the tick is counted and nobody is woken.
TimerWakesNobody(c) ==
  /\ halt = "none"
  /\ cpu[c].irq = "wake"
  /\ Release("ticks")
  /\ cpu' = [cpu EXCEPT ![c] = [popcli(Held(@)) EXCEPT !.irq = "tail"]]
  /\ UNCHANGED <<halt, table, th, ticks>>

\* wakeup(&ticks), then release(&tickslock).
TimerWakes(c) ==
  /\ halt = "none"
  /\ cpu[c].irq = "wake"
  /\ Free("ptable")
  /\ state' = Woken(TICKS)
  /\ Release("ticks")
  /\ cpu' = [cpu EXCEPT ![c] = [popcli(Held(@)) EXCEPT !.irq = "tail"]]
  /\ UNCHANGED <<halt, pid, parent, chan, killed, kstack, pgdir, nextpid, th,
                 ticks>>

\* The end of trap(): exit, yield, or return to the scheduler.
TimerTail(c) ==
  LET p == cpu[c].thr
  IN  /\ halt = "none"
      /\ cpu[c].irq = "tail"
      /\ IF p = 0
         THEN /\ cpu' = [cpu EXCEPT ![c].irq = "none", ![c].ie = TRUE]
              /\ UNCHANGED th
         ELSE /\ cpu' = [cpu EXCEPT ![c].irq = "none"]
              /\ th' = [th EXCEPT ![p] =
                          IF killed[p] /\ @.pc = "user" THEN Thread("exit")
                          ELSE [@ EXCEPT !.pc = "yield", !.back = th[p].pc]]
      /\ UNCHANGED <<halt, lock, table, ticks>>

Yield(c, p) ==
  /\ Runs(c, p, "yield")
  /\ Acquire(c, "ptable")
  /\ cpu' = [cpu EXCEPT ![c] = pushcli(@)]
  /\ state' = [state EXCEPT ![p] = "RUNNABLE"]
  /\ Sched(p, "yielded")
  /\ UNCHANGED <<halt, pid, parent, chan, killed, kstack, pgdir, nextpid,
                 ticks>>

Yielded(c, p) ==
  /\ Runs(c, p, "yielded")
  /\ Release("ptable")
  /\ cpu' = [cpu EXCEPT ![c] = popcli(@)]
  /\ Goto(p, "iret")
  /\ UNCHANGED <<halt, table, ticks>>

\* The last test of trap(), and back to what was interrupted.
Iret(c, p) ==
  /\ Runs(c, p, "iret")
  /\ IF killed[p] /\ th[p].back = "user"
     THEN th' = [th EXCEPT ![p] = Thread("exit")] /\ UNCHANGED cpu
     ELSE /\ th' = [th EXCEPT ![p].pc = th[p].back, ![p].back = "none"]
          /\ cpu' = [cpu EXCEPT ![c].ie = TRUE]
  /\ UNCHANGED <<halt, lock, table, ticks>>

\* panic() disables interrupts and loops for ever.
Halted == halt # "none" /\ UNCHANGED vars

(***************************************************************************)
(* The specification.                                                      *)
(***************************************************************************)
Scheduler(c) ==
  \/ Sti(c) \/ SchedAcquire(c) \/ SchedSwtch(c) \/ SchedBack(c)
  \/ SchedRelease(c)

Switching(c, p) == SchedOut(c, p) \/ SchedIn(c, p) \/ Forkret(c, p)

Fork(c, p) ==
  ForkAlloc(c, p) \/ ForkKstack(c, p) \/ ForkCopy(c, p) \/ ForkRun(c, p)

Waiting(c, p) ==
  \/ Wait(c, p) \/ WaitReaps(c, p) \/ WaitGivesUp(c, p) \/ WaitSleeps(c, p)
  \/ WaitWoken(c, p)

Napping(c, p) ==
  \/ Nap(c, p) \/ NapOver(c, p) \/ NapWaits(c, p) \/ NapSleeps(c, p)
  \/ NapWoken(c, p) \/ NapRelock(c, p)

Yielding(c, p) == Yield(c, p) \/ Yielded(c, p) \/ Iret(c, p)

\* What a process in the kernel does next: the work of a system call, and
\* what is done with interrupts disabled to give up the CPU and get it back.
Work(c, p) ==
  \/ Sysret(c, p) \/ Fork(c, p) \/ Exit(c, p) \/ InitExits(c, p)
  \/ Waiting(c, p) \/ Kill(c, p) \/ Napping(c, p)

Kernel(c, p) == Work(c, p) \/ Switching(c, p) \/ Yielding(c, p)

\* What the clock interrupt does once it has been taken.
Timer(c) == TimerCounts(c) \/ TimerWakes(c) \/ TimerTail(c)

Next ==
  \/ \E c \in Cpus :
       \/ Scheduler(c) \/ TimerIrq(c) \/ Timer(c)
       \/ \E p \in Procs : Syscall(c, p) \/ Kernel(c, p)
  \/ Halted

Spec == Init /\ [][Next]_vars

\* A CPU goes on executing.  The clock interrupt, which the local APIC keeps
\* pending while interrupts are disabled, is taken sooner or later, and as its
\* period is longer than its handler, code that is interrupted again and again
\* still advances.
FairSpec ==
  /\ Spec
  /\ \A c \in Cpus : /\ WF_vars(Timer(c))
                     /\ SF_vars(Scheduler(c))
                     /\ SF_vars(TimerIrq(c))
  /\ \A p \in Procs :
       /\ WF_vars(\E c \in Cpus : Switching(c, p) \/ Yielding(c, p))
       /\ SF_vars(\E c \in Cpus : Work(c, p))

(***************************************************************************)
(* Properties.                                                             *)
(***************************************************************************)

\* No two CPUs execute one process, hence its one kernel stack, although its
\* state says RUNNABLE, SLEEPING or ZOMBIE before it has left that stack:
\* ptable.lock is held until swtch() is done.
OneCpu ==
  /\ \A c, d \in Cpus : c # d /\ cpu[c].thr # 0 => cpu[c].thr # cpu[d].thr
  /\ \A c \in Cpus : cpu[c].thr # 0 =>
       state[cpu[c].thr] = "RUNNING" \/ lock["ptable"] = c
  /\ \A p \in Procs : state[p] = "RUNNING" => \E c \in Cpus : cpu[c].thr = p

\* wait() frees a kernel stack or a page directory only when no CPU uses it,
\* neither the thread on it nor %cr3, and fork(), failing half-way, neither
\* leaks one nor hands out a process without.
MemoryInUse ==
  /\ \A c \in Cpus : \A p \in {cpu[c].thr, cpu[c].cr3} \ {0} :
       kstack[p] /\ pgdir[p]
  /\ \A p \in Procs : state[p] = "UNUSED" => ~ kstack[p] /\ ~ pgdir[p]
  /\ \A p \in Procs : state[p] \notin {"UNUSED", "EMBRYO"} =>
       kstack[p] /\ pgdir[p]

\* Interrupts are enabled in user space and wherever a system call holds no
\* lock, and disabled under a lock and in the handler of an interrupt, also
\* after the thread has moved to a CPU whose intena another thread set.  So
\* the panics of sched() cannot happen: whoever enters it holds ptable.lock
\* and no other lock, and has changed its state.
Interrupts ==
  \A c \in Cpus :
    /\ \A p \in Procs : Runs(c, p, "sched") =>
         /\ lock["ptable"] = c /\ cpu[c].ncli = 1
         /\ state[p] # "RUNNING"
    /\ cpu[c].ncli = Cardinality({l \in DOMAIN lock : lock[l] = c})
    /\ cpu[c].ncli # 0 => ~ cpu[c].ie
    /\ cpu[c].irq # "none" => ~ cpu[c].ie
    /\ \A p \in Procs : cpu[c].thr = p /\ cpu[c].irq = "none" =>
         /\ th[p].pc \in {"yield", "iret"} => ~ cpu[c].ie
         /\ /\ cpu[c].ncli = 0
            /\ th[p].pc \notin {"yield", "iret", "exit"}
            => cpu[c].ie

\* No wakeup is lost: a process asleep in wait() has no zombie child, and one
\* asleep in sys_sleep() whose time has come is about to be woken by the clock
\* interrupt that counted the last tick.
NoLostWakeup ==
  \A p \in Procs : state[p] = "SLEEPING" =>
    /\ chan[p] = p => ZombieKids(p) = {}
    /\ chan[p] = TICKS /\ Elapsed(p) => \E c \in Cpus : cpu[c].irq = "wake"

\* kill() leaves nobody asleep for good: a killed process never sleeps in
\* wait(), whose test of killed and whose sleep() are one critical section.  It
\* may still go to sleep in sys_sleep(), until the next tick.
KilledWoken ==
  \A p \in Procs : killed[p] /\ state[p] = "SLEEPING" => chan[p] = TICKS

\* Somebody will collect every process: its parent, when it has one, is there
\* and has not exited.
ParentLives ==
  \A p \in Procs \ {initproc} : state[p] \notin {"UNUSED", "EMBRYO"} =>
    /\ parent[p] # 0
    /\ state[parent[p]] \in {"RUNNABLE", "RUNNING", "SLEEPING"}

\* The scheduler is fair: a process that is runnable gets a CPU.
RunnableRuns ==
  \A p \in Procs :
    state[p] = "RUNNABLE" ~> state[p] = "RUNNING" \/ halt # "none"

\* A process that is killed exits, whatever it is doing.
KilledExits ==
  \A p \in Procs :
    (killed[p] /\ state[p] \in {"RUNNABLE", "RUNNING", "SLEEPING"}
       ~> state[p] = "ZOMBIE" \/ halt # "none")
===========================================================================
