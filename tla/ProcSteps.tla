----------------------------- MODULE ProcSteps -----------------------------
(***************************************************************************)
(* Every step of module Proc preserves the invariant of ProcInv: what the  *)
(* helpers do, what a step may leave out of account, and one lemma for     *)
(* each action but SchedSwtch, WaitReaps and Exit, which ProcProofs has.   *)
(***************************************************************************)
EXTENDS ProcInv, TLAPS

\* The null pointer is no process and no CPU, &ticks no process.
LEMMA Constants ==
  /\ 0 \notin Procs /\ 0 \notin Cpus
  /\ TICKS \notin Procs /\ TICKS # 0
  /\ initproc \in Procs
BY ProcAssumption DEF Procs, Cpus, TICKS, initproc

\* A struct cpu stays one when its interrupt fields change.
LEMMA SetFlags ==
  ASSUME NEW k \in CpuType, NEW i \in BOOLEAN, NEW e \in BOOLEAN, NEW n \in Nat
  PROVE  [k EXCEPT !.intena = i, !.ncli = n, !.ie = e] \in CpuType
BY Zenon DEF CpuType

\* pushcli() disables interrupts and remembers the flag the first time.
LEMMA PushFacts ==
  ASSUME NEW k \in CpuType
  PROVE  /\ pushcli(k) \in CpuType
         /\ pushcli(k).thr = k.thr /\ pushcli(k).cr3 = k.cr3
         /\ pushcli(k).irq = k.irq /\ pushcli(k).spc = k.spc
         /\ pushcli(k).ncli = k.ncli + 1
         /\ pushcli(k).ie = FALSE
         /\ k.ncli = 0 => (pushcli(k).intena <=> k.ie)
         /\ k.ncli # 0 => (pushcli(k).intena <=> k.intena)
<1>1. /\ k.ncli + 1 \in Nat
      /\ (IF k.ncli = 0 THEN k.ie ELSE k.intena) \in BOOLEAN
  BY DEF CpuType
<1>2. pushcli(k) \in CpuType
  BY <1>1, SetFlags, Zenon DEF pushcli
<1>3. /\ pushcli(k).thr = k.thr /\ pushcli(k).cr3 = k.cr3
      /\ pushcli(k).irq = k.irq /\ pushcli(k).spc = k.spc
      /\ pushcli(k).ncli = k.ncli + 1
  BY Zenon DEF CpuType, pushcli
<1>4. pushcli(k).ie = FALSE
  BY Zenon DEF CpuType, pushcli
<1>5. /\ k.ncli = 0 => (pushcli(k).intena <=> k.ie)
      /\ k.ncli # 0 => (pushcli(k).intena <=> k.intena)
  BY Zenon DEF CpuType, pushcli
<1>6. QED
  BY <1>2, <1>3, <1>4, <1>5, Zenon

\* The last popcli() enables interrupts if they were enabled before.
LEMMA PopFacts ==
  ASSUME NEW k \in CpuType, k.ncli # 0
  PROVE  /\ popcli(k) \in CpuType
         /\ popcli(k).thr = k.thr /\ popcli(k).cr3 = k.cr3
         /\ popcli(k).irq = k.irq /\ popcli(k).spc = k.spc
         /\ popcli(k).ncli = k.ncli - 1
         /\ popcli(k).ie <=> k.ie \/ (k.ncli = 1 /\ k.intena)
         /\ popcli(k).intena <=> k.intena /\ k.ncli # 1
<1>1. k.ncli - 1 \in Nat
  BY DEF CpuType
<1>2. popcli(k) \in CpuType
  <2> DEFINE ie == k.ie \/ (k.ncli = 1 /\ k.intena)
             intena == k.intena /\ k.ncli # 1
  <2>1. ie \in BOOLEAN /\ intena \in BOOLEAN
    BY Zenon
  <2>2. popcli(k) = [k EXCEPT !.ncli = k.ncli - 1, !.ie = ie, !.intena = intena]
    BY Zenon DEF popcli
  <2> HIDE DEF ie, intena
  <2>3. QED
    BY <1>1, <2>1, <2>2, Zenon DEF CpuType
<1>3. /\ popcli(k).thr = k.thr /\ popcli(k).cr3 = k.cr3
      /\ popcli(k).irq = k.irq /\ popcli(k).spc = k.spc
      /\ popcli(k).ncli = k.ncli - 1
  BY Zenon DEF CpuType, popcli
<1>4. popcli(k).ie <=> k.ie \/ (k.ncli = 1 /\ k.intena)
  BY Zenon DEF CpuType, popcli
<1>5. popcli(k).intena <=> k.intena /\ k.ncli # 1
  BY Zenon DEF CpuType, popcli
<1>6. QED
  BY <1>2, <1>3, <1>4, <1>5, Zenon

\* acquire() and release() of a lock leave the interrupt flag as it was.
LEMMA HeldFacts ==
  ASSUME NEW k \in CpuType
  PROVE  /\ Held(k) \in CpuType
         /\ Held(k).thr = k.thr /\ Held(k).cr3 = k.cr3
         /\ Held(k).irq = k.irq /\ Held(k).spc = k.spc
         /\ Held(k).ncli = k.ncli
         /\ k.ncli = 0 => (Held(k).ie <=> k.ie)
         /\ k.ncli # 0 => ~ Held(k).ie /\ (Held(k).intena <=> k.intena)
<1> DEFINE h == pushcli(k)
<1>1. /\ h \in CpuType
      /\ h.thr = k.thr /\ h.cr3 = k.cr3 /\ h.irq = k.irq /\ h.spc = k.spc
      /\ h.ncli = k.ncli + 1 /\ h.ie = FALSE
      /\ k.ncli = 0 => (h.intena <=> k.ie)
      /\ k.ncli # 0 => (h.intena <=> k.intena)
  BY PushFacts, Zenon
<1>2. k.ncli \in Nat
  BY Zenon DEF CpuType
<1>3. Held(k) = popcli(h)
  BY Zenon DEF Held
<1> HIDE DEF h
<1>4. h.ncli # 0
  BY <1>1, <1>2
<1>5. /\ popcli(h) \in CpuType
      /\ popcli(h).thr = h.thr /\ popcli(h).cr3 = h.cr3
      /\ popcli(h).irq = h.irq /\ popcli(h).spc = h.spc
      /\ popcli(h).ncli = h.ncli - 1
      /\ popcli(h).ie <=> h.ie \/ (h.ncli = 1 /\ h.intena)
      /\ popcli(h).intena <=> h.intena /\ h.ncli # 1
  BY <1>1, <1>4, PopFacts, Zenon
<1>6. h.ncli - 1 = k.ncli /\ (h.ncli = 1 <=> k.ncli = 0)
  BY <1>1, <1>2
<1>7. QED
  BY <1>1, <1>3, <1>5, <1>6, Zenon

\* A thread that starts at label l.
LEMMA ThreadFacts ==
  ASSUME NEW l \in Labels
  PROVE  /\ Thread(l) \in ThreadType
         /\ Thread(l).pc = l /\ Thread(l).ret = "none"
         /\ Thread(l).back = "none"
BY Constants, Zenon DEF Thread, ThreadType

(***************************************************************************)
(* What a step of CPU c, or of process p, does to the CPUs, to the threads *)
(* and to the locks.                                                       *)
(***************************************************************************)
\* Only cpu[c] changes, and of it only the flags.
CpuTo(c, n, e, i) ==
  /\ cpu' \in [Cpus -> CpuType]
  /\ \A d \in Cpus \ {c} : cpu'[d] = cpu[d]
  /\ cpu'[c].thr = cpu[c].thr /\ cpu'[c].cr3 = cpu[c].cr3
  /\ cpu'[c].irq = cpu[c].irq /\ cpu'[c].spc = cpu[c].spc
  /\ cpu'[c].ncli = n /\ (cpu'[c].ie <=> e) /\ (cpu'[c].intena <=> i)

ThTo(p) ==
  /\ th' \in [Procs -> ThreadType]
  /\ \A q \in Procs \ {p} : th'[q] = th[q]

\* A lock changes hands between c and nobody.
LockTo(c) ==
  /\ lock' \in [{"ptable", "ticks"} -> Cpus \cup {0}]
  /\ \A d \in Cpus \ {c} : /\ lock'["ptable"] = d <=> lock["ptable"] = d
                           /\ lock'["ticks"] = d <=> lock["ticks"] = d

\* acquire() by a CPU that holds no lock.
LEMMA CpuPush ==
  ASSUME cpu \in [Cpus -> CpuType], NEW c \in Cpus, cpu[c].ncli = 0,
         cpu' = [cpu EXCEPT ![c] = pushcli(@)]
  PROVE  CpuTo(c, 1, FALSE, cpu[c].ie)
<1>1. cpu[c] \in CpuType
  BY Zenon
<1>2. cpu'[c] = pushcli(cpu[c]) /\ \A d \in Cpus \ {c} : cpu'[d] = cpu[d]
  BY Zenon
<1>3. cpu' \in [Cpus -> CpuType]
  BY <1>1, PushFacts, Zenon
<1>4. /\ pushcli(cpu[c]).thr = cpu[c].thr /\ pushcli(cpu[c]).cr3 = cpu[c].cr3
      /\ pushcli(cpu[c]).irq = cpu[c].irq /\ pushcli(cpu[c]).spc = cpu[c].spc
      /\ pushcli(cpu[c]).ncli = 0 + 1
      /\ ~ pushcli(cpu[c]).ie
      /\ pushcli(cpu[c]).intena <=> cpu[c].ie
  BY <1>1, PushFacts, Zenon
<1>5. QED
  BY <1>2, <1>3, <1>4 DEF CpuTo

\* release() of the only lock.
LEMMA CpuPop ==
  ASSUME cpu \in [Cpus -> CpuType], NEW c \in Cpus, cpu[c].ncli = 1,
         cpu' = [cpu EXCEPT ![c] = popcli(@)]
  PROVE  CpuTo(c, 0, cpu[c].ie \/ cpu[c].intena, FALSE)
<1>1. cpu[c] \in CpuType
  BY Zenon
<1>2. cpu'[c] = popcli(cpu[c]) /\ \A d \in Cpus \ {c} : cpu'[d] = cpu[d]
  BY Zenon
<1>3. cpu' \in [Cpus -> CpuType]
  BY <1>1, PopFacts
<1>4. QED
  BY <1>1, <1>2, <1>3, PopFacts DEF CpuTo

\* acquire() and release() within a step.
LEMMA CpuHeld ==
  ASSUME cpu \in [Cpus -> CpuType], NEW c \in Cpus, cpu[c].ncli = 0,
         cpu' = [cpu EXCEPT ![c] = Held(@)]
  PROVE  CpuTo(c, 0, cpu[c].ie, cpu'[c].intena)
<1>1. cpu[c] \in CpuType
  BY Zenon
<1>2. cpu'[c] = Held(cpu[c]) /\ \A d \in Cpus \ {c} : cpu'[d] = cpu[d]
  BY Zenon
<1>3. cpu' \in [Cpus -> CpuType]
  BY <1>1, HeldFacts, Zenon
<1>4. QED
  BY <1>1, <1>2, <1>3, HeldFacts, Zenon DEF CpuTo

\* A step that leaves the CPUs alone.
LEMMA CpuSame ==
  ASSUME cpu \in [Cpus -> CpuType], NEW c \in Cpus, cpu' = cpu
  PROVE  CpuTo(c, cpu[c].ncli, cpu[c].ie, cpu[c].intena)
BY Zenon DEF CpuTo

\* The flags matter only as truth values.
LEMMA CpuFlags ==
  ASSUME NEW c, NEW n, NEW e, NEW i, NEW f, NEW j, CpuTo(c, n, e, i),
         e <=> f, i <=> j
  PROVE  CpuTo(c, n, f, j)
BY Zenon DEF CpuTo

\* Only the thread of p changes.
LEMMA ThSet ==
  ASSUME th \in [Procs -> ThreadType], NEW p \in Procs, NEW t \in ThreadType,
         th' = [th EXCEPT ![p] = t]
  PROVE  ThTo(p) /\ th'[p] = t
BY Zenon DEF ThTo

\* p goes on at label l.
LEMMA GotoFacts ==
  ASSUME th \in [Procs -> ThreadType], NEW p \in Procs, NEW l \in Labels,
         Goto(p, l)
  PROVE  /\ ThTo(p)
         /\ th'[p].pc = l /\ th'[p].ret = th[p].ret
         /\ th'[p].back = th[p].back /\ th'[p].np = th[p].np
         /\ th'[p].arg = th[p].arg /\ th'[p].t0 = th[p].t0
<1> DEFINE t == [th[p] EXCEPT !.pc = l]
<1>1. th[p] \in ThreadType /\ th' = [th EXCEPT ![p] = t]
  BY Zenon DEF Goto
<1>2. t \in ThreadType
  BY <1>1, Zenon DEF ThreadType
<1>3. /\ t.pc = l /\ t.ret = th[p].ret /\ t.back = th[p].back
      /\ t.np = th[p].np /\ t.arg = th[p].arg /\ t.t0 = th[p].t0
  BY <1>1, Zenon DEF ThreadType
<1> HIDE DEF t
<1>4. ThTo(p) /\ th'[p] = t
  BY <1>1, <1>2, ThSet, Zenon
<1>5. QED
  BY <1>3, <1>4, Zenon

\* p returns from a system call.
LEMMA ReturnFacts ==
  ASSUME th \in [Procs -> ThreadType], NEW p \in Procs, Return(p)
  PROVE  /\ ThTo(p)
         /\ th'[p].pc = "sysret" /\ th'[p].back = "none"
<1>1. "sysret" \in Labels
  BY Zenon DEF Labels, Open
<1>2. /\ Thread("sysret") \in ThreadType
      /\ Thread("sysret").pc = "sysret" /\ Thread("sysret").back = "none"
  BY <1>1, ThreadFacts, Zenon
<1>3. ThTo(p) /\ th'[p] = Thread("sysret")
  BY <1>2, ThSet, Zenon DEF Return
<1>4. QED
  BY <1>2, <1>3, Zenon

\* p calls sched().
LEMMA SchedFacts ==
  ASSUME th \in [Procs -> ThreadType], NEW p \in Procs,
         NEW l \in {"woken", "rise", "yielded", "zombie"}, Sched(p, l)
  PROVE  /\ ThTo(p)
         /\ th'[p].pc = "sched" /\ th'[p].ret = l
         /\ th'[p].back = th[p].back /\ th'[p].np = th[p].np
         /\ th'[p].arg = th[p].arg /\ th'[p].t0 = th[p].t0
<1> DEFINE t == [th[p] EXCEPT !.pc = "sched", !.ret = l]
<1>1. th[p] \in ThreadType /\ th' = [th EXCEPT ![p] = t]
  BY Zenon DEF Sched
<1>2. t \in ThreadType
  <2>1. "sched" \in Labels
    BY Zenon DEF Labels, UnderPtable
  <2>2. QED
    BY <1>1, <2>1, Zenon DEF ThreadType
<1>3. /\ t.pc = "sched" /\ t.ret = l /\ t.back = th[p].back
      /\ t.np = th[p].np /\ t.arg = th[p].arg /\ t.t0 = th[p].t0
  BY <1>1, Zenon DEF ThreadType
<1> HIDE DEF t
<1>4. ThTo(p) /\ th'[p] = t
  BY <1>1, <1>2, ThSet, Zenon
<1>5. QED
  BY <1>3, <1>4, Zenon

\* acquire() finds the lock free and gives it to c.
LEMMA AcquireFacts ==
  ASSUME lock \in [{"ptable", "ticks"} -> Cpus \cup {0}], NEW c \in Cpus,
         NEW l \in {"ptable", "ticks"}, Acquire(c, l)
  PROVE  /\ LockTo(c) /\ lock[l] = 0 /\ lock'[l] = c
         /\ \A m \in {"ptable", "ticks"} : m # l => lock'[m] = lock[m]
BY Constants, Zenon DEF Acquire, Free, LockTo

\* release() by the holder.
LEMMA ReleaseFacts ==
  ASSUME lock \in [{"ptable", "ticks"} -> Cpus \cup {0}], NEW c \in Cpus,
         NEW l \in {"ptable", "ticks"}, lock[l] = c, Release(l)
  PROVE  /\ LockTo(c) /\ lock'[l] # c
         /\ \A m \in {"ptable", "ticks"} : m # l => lock'[m] = lock[m]
BY Constants, Zenon DEF Release, LockTo

\* A step that leaves the locks alone.
LEMMA LockSame ==
  ASSUME lock \in [{"ptable", "ticks"} -> Cpus \cup {0}], NEW c \in Cpus,
         lock' = lock
  PROVE  LockTo(c)
BY Zenon DEF LockTo

(***************************************************************************)
(* A step of CPU c disturbs the processes of T and nobody else.            *)
(***************************************************************************)
\* Nothing happens to q, except perhaps a wakeup.
Kept(q) ==
  /\ th'[q] = th[q] /\ kstack'[q] = kstack[q] /\ pgdir'[q] = pgdir[q]
  /\ state'[q] = state[q] \/ (state[q] = "SLEEPING" /\ state'[q] = "RUNNABLE")

Local(c, T) ==
  /\ \A d \in Cpus \ {c} :
       /\ cpu'[d] = cpu[d]
       /\ lock'["ptable"] = d <=> lock["ptable"] = d
       /\ lock'["ticks"] = d <=> lock["ticks"] = d
       /\ cpu[d].thr # 0 => cpu[d].thr \notin T
       /\ cpu[d].cr3 \in T \ {0} =>
            state'[cpu[d].cr3] \notin {"UNUSED", "EMBRYO"}
  /\ \A q \in Procs \ T : Kept(q)

\* A wakeup changes nothing else that the slot says.
LEMMA KeptSlot ==
  ASSUME NEW q \in Procs, SlotOf(q), Kept(q)
  PROVE  SlotOf(q)'
<1>1. CASE state'[q] = state[q]
  BY <1>1, Zenon DEF SlotOf, Kept
<1>2. CASE state[q] = "SLEEPING" /\ state'[q] = "RUNNABLE"
  <2>1. /\ th[q].pc \in {"sched", "resume"} /\ th[q].ret \in {"woken", "rise"}
        /\ kstack[q] /\ pgdir[q]
    BY <1>2, Zenon DEF SlotOf
  <2>2. th'[q] = th[q] /\ kstack'[q] /\ pgdir'[q]
    BY <2>1, Zenon DEF Kept
  <2>3. QED
    BY <1>2, <2>1, <2>2, Zenon DEF SlotOf
<1>3. QED
  BY <1>1, <1>2, Zenon DEF Kept

\* What holds for CPU d holds after a step that leaves it alone.
LEMMA OtherCpu ==
  ASSUME NEW d \in Cpus, LocksOf(d), FlagsOf(d), ThreadOf(d),
         cpu'[d] = cpu[d],
         lock'["ptable"] = d <=> lock["ptable"] = d,
         lock'["ticks"] = d <=> lock["ticks"] = d,
         cpu[d].thr # 0 => Kept(cpu[d].thr),
         cpu[d].cr3 # 0 => state'[cpu[d].cr3] \notin {"UNUSED", "EMBRYO"}
  PROVE  LocksOf(d)' /\ FlagsOf(d)' /\ ThreadOf(d)'
<1>1. cpu[d].thr # 0 => th'[cpu[d].thr] = th[cpu[d].thr]
  BY Zenon DEF Kept
<1>2. LocksOf(d)'
  BY <1>1, Zenon DEF LocksOf
<1>3. FlagsOf(d)'
  BY <1>1, Zenon DEF FlagsOf
<1>4. cpu[d].thr # 0 =>
        (state'[cpu[d].thr] = "RUNNING" <=> state[cpu[d].thr] = "RUNNING")
  BY Zenon DEF Kept
<1>5. ThreadOf(d)'
  BY <1>1, <1>4, Zenon DEF ThreadOf
<1>6. QED
  BY <1>2, <1>3, <1>5, Zenon

\* It is enough to look at the CPU that takes the step...
LEMMA AllCpus ==
  ASSUME IInv, NEW c \in Cpus, NEW T, Local(c, T),
         LocksOf(c)', FlagsOf(c)', ThreadOf(c)'
  PROVE  \A d \in Cpus : LocksOf(d)' /\ FlagsOf(d)' /\ ThreadOf(d)'
<1> SUFFICES ASSUME NEW d \in Cpus
             PROVE  LocksOf(d)' /\ FlagsOf(d)' /\ ThreadOf(d)'
  BY Zenon
<1>1. CASE d = c
  BY <1>1, Zenon
<1>2. CASE d # c
  <2>1. LocksOf(d) /\ FlagsOf(d) /\ ThreadOf(d) /\ cpu \in [Cpus -> CpuType]
    BY Zenon DEF IInv, Types
  <2>2. /\ cpu'[d] = cpu[d]
        /\ lock'["ptable"] = d <=> lock["ptable"] = d
        /\ lock'["ticks"] = d <=> lock["ticks"] = d
        /\ cpu[d].thr # 0 => cpu[d].thr \notin T
        /\ cpu[d].cr3 \in T \ {0} =>
            state'[cpu[d].cr3] \notin {"UNUSED", "EMBRYO"}
        /\ \A q \in Procs \ T : Kept(q)
    BY <1>2, Zenon DEF Local
  <2>3. /\ cpu[d].thr # 0 => cpu[d].thr \in Procs
        /\ cpu[d].cr3 # 0 => cpu[d].cr3 \in Procs
    BY <2>1, Zenon DEF CpuType
  <2>4. cpu[d].thr # 0 => Kept(cpu[d].thr)
    BY <2>2, <2>3, Zenon
  <2>5. cpu[d].cr3 # 0 => state'[cpu[d].cr3] \notin {"UNUSED", "EMBRYO"}
    <3>1. SUFFICES ASSUME cpu[d].cr3 # 0, cpu[d].cr3 \notin T
                   PROVE  state'[cpu[d].cr3] \notin {"UNUSED", "EMBRYO"}
      BY <2>2, Zenon
    <3>2. Kept(cpu[d].cr3) /\ state[cpu[d].cr3] \notin {"UNUSED", "EMBRYO"}
      BY <2>1, <2>2, <2>3, <3>1, Zenon DEF ThreadOf
    <3>3. QED
      BY <3>2, Zenon DEF Kept
  <2>6. QED
    BY <2>1, <2>2, <2>4, <2>5, OtherCpu, Zenon
<1>3. QED
  BY <1>1, <1>2, Zenon

\* ...at the processes it disturbs...
LEMMA AllSlots ==
  ASSUME IInv, NEW c \in Cpus, NEW T, Local(c, T),
         cpu[c].thr = 0 \/ cpu[c].thr \in T \/ cpu'[c].thr = cpu[c].thr,
         \A q \in Procs : q \in T => SlotOf(q)' /\ Executed(q)'
  PROVE  \A q \in Procs : SlotOf(q)' /\ Executed(q)'
<1> SUFFICES ASSUME NEW q \in Procs, q \notin T
             PROVE  SlotOf(q)' /\ Executed(q)'
  BY Zenon
<1>1. SlotOf(q) /\ Executed(q)
  BY Zenon DEF IInv
<1>2. Kept(q)
  BY Zenon DEF Local
<1>3. SlotOf(q)'
  BY <1>1, <1>2, KeptSlot, Zenon
<1>4. Executed(q)'
  <2>1. SUFFICES ASSUME \/ state'[q] = "RUNNING"
                        \/ th'[q].pc \notin {"none", "forkret", "resume"}
                 PROVE  \E d \in Cpus : cpu'[d].thr = q
    BY Zenon DEF Executed
  <2>2. state[q] = "RUNNING" \/ th[q].pc \notin {"none", "forkret", "resume"}
    BY <1>2, <2>1, Zenon DEF Kept
  <2>3. PICK d \in Cpus : cpu[d].thr = q
    BY <1>1, <2>2, Zenon DEF Executed
  <2>4. cpu'[d].thr = q
    BY <2>3, Constants DEF Local
  <2>5. QED
    BY <2>4, Zenon
<1>5. QED
  BY <1>3, <1>4, Zenon

\* ...and at the one process that goes on in fork().
LEMMA AllForks ==
  ASSUME IInv, NEW c \in Cpus, NEW T, Local(c, T), NEW p,
         \A q \in Procs \ {p} : Forking(q)' =>
           /\ Forking(q) /\ Place(q)' = Place(q) /\ th'[q].np = th[q].np
           /\ th[q].np \notin T
           /\ Place(q) = "runnable" => parent'[th[q].np] = parent[th[q].np],
         p \in Procs /\ Forking(p)' =>
           /\ ChildOf(p)'
           /\ \A q \in Procs \ {p} : Forking(q) => th[q].np # th'[p].np
  PROVE  \A q \in Procs : ForkOf(q)'
<1> SUFFICES ASSUME NEW q \in Procs, Forking(q)'
             PROVE  /\ ChildOf(q)'
                    /\ \A r \in Procs \ {q} : Forking(r)' => th'[r].np # th'[q].np
  BY Zenon DEF ForkOf
<1>1. CASE q = p
  <2>1. /\ ChildOf(p)'
        /\ \A r \in Procs \ {p} : Forking(r) => th[r].np # th'[p].np
    BY <1>1, Zenon
  <2>2. \A r \in Procs \ {p} : Forking(r)' => th'[r].np # th'[p].np
    BY <2>1, Zenon
  <2>3. QED
    BY <1>1, <2>1, <2>2, Zenon
<1>2. CASE q # p
  <2>1. /\ Forking(q) /\ Place(q)' = Place(q) /\ th'[q].np = th[q].np
        /\ th[q].np \notin T
        /\ Place(q) = "runnable" => parent'[th[q].np] = parent[th[q].np]
    BY <1>2, Zenon
  <2>2. /\ ChildOf(q)
        /\ \A r \in Procs \ {q} : Forking(r) => th[r].np # th[q].np
    BY <2>1, Zenon DEF IInv, ForkOf
  <2>3. th[q].np \in Procs /\ state[th[q].np] = "EMBRYO"
    BY <2>2, Zenon DEF ChildOf
  <2>4. Kept(th[q].np)
    BY <2>1, <2>3, Zenon DEF Local
  <2>5. ChildOf(q)'
    BY <2>1, <2>2, <2>3, <2>4 DEF ChildOf, Kept
  <2>6. ASSUME NEW r \in Procs \ {q}, Forking(r)'
        PROVE  th'[r].np # th'[q].np
    <3>1. CASE r = p
      BY <1>2, <2>1, <2>6, <3>1, Zenon
    <3>2. CASE r # p
      BY <2>1, <2>2, <2>6, <3>2, Zenon
    <3>3. QED
      BY <3>1, <3>2, Zenon
  <2>7. QED
    BY <2>5, <2>6, Zenon
<1>3. QED
  BY <1>1, <1>2, Zenon

(***************************************************************************)
(* Steps that change, of the process table, only the state of the process  *)
(* that CPU c executes, and wake sleepers.  T is empty or that process.    *)
(***************************************************************************)
NoLost(q) ==
  state[q] = "SLEEPING" =>
    /\ chan[q] = q => ZombieKids(q) = {}
    /\ chan[q] = TICKS /\ Elapsed(q) => \E d \in Cpus : cpu[d].irq = "wake"

Quiet(c, T) ==
  /\ UNCHANGED <<parent, kstack, pgdir>>
  /\ \A q \in Procs : \/ state'[q] = state[q]
                      \/ state[q] \in Live /\ state'[q] \in Live
  /\ \A d \in Cpus \ {c} : /\ cpu'[d] = cpu[d]
                           /\ lock'["ptable"] = d <=> lock["ptable"] = d
                           /\ lock'["ticks"] = d <=> lock["ticks"] = d
  /\ cpu'[c].thr \in {0, cpu[c].thr}
  /\ cpu[c].thr \in T \/ cpu'[c].thr = cpu[c].thr
  /\ \A q \in Procs \ T :
       Kept(q) /\ (state'[q] = "SLEEPING" => chan'[q] = chan[q])

\* A tick that is counted is announced, and an announcement reaches everybody.
Clock(c) ==
  \/ ticks' = ticks /\ cpu[c].irq # "wake"
  \/ ticks' = ticks /\ \A q \in Procs : state'[q] = "SLEEPING" => chan'[q] # TICKS
  \/ cpu'[c].irq = "wake" /\ \A q \in Procs : th[q].pc # "doze"

\* What is left to show of the process that goes on.
GoesOn(q) ==
  /\ SlotOf(q)' /\ Executed(q)'
  /\ Forking(q)' => /\ Forking(q) /\ Place(q)' = Place(q)
                    /\ th'[q].np = th[q].np
  /\ th'[q].pc = "doze" => ~ Elapsed(q)'
  /\ NoLost(q)'

\* Such a step preserves the invariant if it is right about c and T.
LEMMA QuietStep ==
  ASSUME IInv, Types', NEW c \in Cpus, NEW T, T \subseteq {cpu[c].thr},
         Quiet(c, T), Clock(c), LocksOf(c)', FlagsOf(c)', ThreadOf(c)',
         \A q \in Procs : q \in T => GoesOn(q)
  PROVE  IInv'
<1>1. Local(c, T)
  <2>1. \A d \in Cpus \ {c} : cpu[d].thr # 0 => cpu[d].thr # cpu[c].thr
    BY Zenon DEF IInv, OneThread
  <2>2. ASSUME NEW d \in Cpus \ {c}, cpu[d].cr3 # 0
        PROVE  state'[cpu[d].cr3] \notin {"UNUSED", "EMBRYO"}
    <3>1. ThreadOf(d) /\ cpu \in [Cpus -> CpuType]
      BY Zenon DEF IInv, Types
    <3>2. state[cpu[d].cr3] \notin {"UNUSED", "EMBRYO"} /\ cpu[d].cr3 \in Procs
      BY <2>2, <3>1, Zenon DEF ThreadOf, CpuType
    <3>3. QED
      BY <3>2, Zenon DEF Quiet, Live
  <2>3. QED
    BY <2>1, <2>2, Zenon DEF Local, Quiet
<1>2. \A d \in Cpus : LocksOf(d)' /\ FlagsOf(d)' /\ ThreadOf(d)'
  BY <1>1, AllCpus, Zenon
<1>3. OneThread'
  BY DEF IInv, OneThread, Quiet
<1>4. \A q \in Procs : SlotOf(q)' /\ Executed(q)'
  <2>1. cpu[c].thr = 0 \/ cpu[c].thr \in T \/ cpu'[c].thr = cpu[c].thr
    BY Zenon DEF Quiet
  <2>2. \A q \in Procs : q \in T => SlotOf(q)' /\ Executed(q)'
    BY Zenon DEF GoesOn
  <2>3. QED
    BY <1>1, <2>1, <2>2, AllSlots, Zenon
<1>5. \A q \in Procs : ForkOf(q)'
  <2>1. ASSUME NEW q \in Procs, Forking(q)'
        PROVE  Forking(q) /\ Place(q)' = Place(q) /\ th'[q].np = th[q].np
    <3>1. CASE q \in T
      BY <2>1, <3>1, Zenon DEF GoesOn
    <3>2. CASE q \notin T
      <4>1. th'[q] = th[q]
        BY <3>2, Zenon DEF Quiet, Kept
      <4>2. QED
        BY <2>1, <4>1, Zenon DEF Forking, Place
    <3>3. QED
      BY <3>1, <3>2, Zenon
  <2>2. ASSUME NEW q \in Procs, Forking(q)
        PROVE  ChildOf(q) /\ th[q].np \in Procs /\ th[q].np # cpu[c].thr
    <3>1. ChildOf(q)
      BY <2>2, Zenon DEF IInv, ForkOf
    <3>2. /\ th[q].np \in Procs /\ state[th[q].np] = "EMBRYO"
          /\ th[th[q].np].pc \in {"none", "forkret"}
      BY <3>1, Zenon DEF ChildOf
    <3>3. ThreadOf(c)
      BY Zenon DEF IInv
    <3>4. th[q].np # cpu[c].thr
      BY <3>2, <3>3, Constants, Zenon DEF ThreadOf
    <3>5. QED
      BY <3>1, <3>2, <3>4, Zenon
  <2>3. parent' = parent
    BY Zenon DEF Quiet
  <2>4. QED
    BY <1>1, <2>1, <2>2, <2>3, AllForks, Constants, ZenonT(30)
<1>6. InitLives'
  BY Constants, Zenon DEF IInv, InitLives, Quiet
<1>7. ParentLives'
  <2> SUFFICES ASSUME NEW q \in Procs \ {initproc},
                      state'[q] \notin {"UNUSED", "EMBRYO"}
               PROVE  parent[q] # 0 /\ state'[parent[q]] \in Live
    BY Zenon DEF ParentLives, Live, Quiet
  <2>1. state[q] \notin {"UNUSED", "EMBRYO"}
    BY Zenon DEF Quiet, Live
  <2>2. parent[q] # 0 /\ state[parent[q]] \in Live /\ parent[q] \in Procs
    BY <2>1, Zenon DEF IInv, ParentLives, Live, Types
  <2>3. QED
    BY <2>2, Zenon DEF Quiet
<1>8. Dozing'
  <2> SUFFICES ASSUME NEW q \in Procs, th'[q].pc = "doze"
               PROVE  ~ Elapsed(q)'
    BY Zenon DEF Dozing
  <2>1. CASE q \in T
    BY <2>1, Zenon DEF GoesOn
  <2>2. CASE q \notin T
    <3>1. th'[q] = th[q]
      BY <2>2, Zenon DEF Quiet, Kept
    <3>2. ticks' = ticks
      BY <3>1, Zenon DEF Clock
    <3>3. ~ Elapsed(q)
      BY <3>1, Zenon DEF IInv, Dozing
    <3>4. QED
      BY <3>1, <3>2, <3>3, Zenon DEF Elapsed
  <2>3. QED
    BY <2>1, <2>2, Zenon
<1>9. NoLostWakeup'
  <2> SUFFICES ASSUME NEW q \in Procs, state'[q] = "SLEEPING"
               PROVE  /\ chan'[q] = q => ZombieKids(q)' = {}
                      /\ chan'[q] = TICKS /\ Elapsed(q)' =>
                           \E d \in Cpus : cpu'[d].irq = "wake"
    BY Zenon DEF NoLostWakeup
  <2>1. CASE q \in T
    BY <2>1, Zenon DEF GoesOn, NoLost
  <2>2. CASE q \notin T
    <3>1. Kept(q) /\ chan'[q] = chan[q]
      BY <2>2, Zenon DEF Quiet
    <3>2. th'[q] = th[q] /\ state[q] = "SLEEPING"
      BY <3>1, Zenon DEF Kept
    <3>3. /\ chan[q] = q => ZombieKids(q) = {}
          /\ chan[q] = TICKS /\ Elapsed(q) =>
               \E d \in Cpus : cpu[d].irq = "wake"
      BY <3>2, Zenon DEF IInv, NoLostWakeup
    <3>4. ZombieKids(q)' \subseteq ZombieKids(q)
      BY Zenon DEF Quiet, ZombieKids, Kids, Live
    <3>5. ASSUME chan'[q] = TICKS, Elapsed(q)'
          PROVE  \E d \in Cpus : cpu'[d].irq = "wake"
      <4>1. CASE ticks' = ticks /\ cpu[c].irq # "wake"
        <5>1. Elapsed(q)
          BY <3>2, <3>5, <4>1, Zenon DEF Elapsed
        <5>2. PICK d \in Cpus : cpu[d].irq = "wake"
          BY <3>1, <3>3, <3>5, <5>1, Zenon
        <5>3. cpu'[d] = cpu[d]
          BY <4>1, <5>2, Zenon DEF Quiet
        <5>4. QED
          BY <5>2, <5>3, Zenon
      <4>2. CASE cpu'[c].irq = "wake"
        BY <4>2, Zenon
      <4>3. QED
        BY <3>5, <4>1, <4>2, Zenon DEF Clock
    <3>6. QED
      BY <3>1, <3>3, <3>4, <3>5, Zenon
  <2>3. QED
    BY <2>1, <2>2, Zenon
<1>10. QED
  BY <1>2, <1>3, <1>4, <1>5, <1>6, <1>7, <1>8, <1>9, Zenon DEF IInv

(***************************************************************************)
(* A process that CPU c executes.                                          *)
(***************************************************************************)
\* The types of locks, CPUs and threads.
LEMMA TypeFacts ==
  ASSUME IInv
  PROVE  /\ Types
         /\ lock \in [{"ptable", "ticks"} -> Cpus \cup {0}]
         /\ cpu \in [Cpus -> CpuType] /\ th \in [Procs -> ThreadType]
BY Zenon DEF IInv, Types

\* A CPU that executes p runs on its page table.
LEMMA RunsFacts ==
  ASSUME IInv, NEW c \in Cpus, NEW p \in Procs, NEW l, Runs(c, p, l)
  PROVE  /\ LocksOf(c) /\ FlagsOf(c) /\ SlotOf(p)
         /\ p # 0 /\ halt = "none" /\ cpu[c].thr = p /\ cpu[c].irq = "none"
         /\ th[p].pc = l /\ cpu[c].spc = "back" /\ cpu[c].cr3 = p
         /\ state[p] = "RUNNING" <=> l # "sched"
<1>1. LocksOf(c) /\ FlagsOf(c) /\ ThreadOf(c) /\ SlotOf(p)
  BY Zenon DEF IInv
<1>2. /\ p # 0 /\ halt = "none" /\ cpu[c].thr = p /\ cpu[c].irq = "none"
      /\ th[p].pc = l
  BY Constants, Zenon DEF Runs
<1>3. QED
  BY <1>1, <1>2, Zenon DEF ThreadOf

\* p holds no lock and may be interrupted...
LEMMA AtOpen ==
  ASSUME IInv, NEW c \in Cpus, NEW p \in Procs, NEW l \in Open, Runs(c, p, l)
  PROVE  /\ cpu[c].ncli = 0 /\ lock["ptable"] # c /\ lock["ticks"] # c
         /\ l # "exit" => cpu[c].ie
         /\ th[p].back = "none"
<1>1. /\ LocksOf(c) /\ FlagsOf(c) /\ SlotOf(p) /\ p # 0 /\ cpu[c].thr = p
      /\ cpu[c].irq = "none" /\ th[p].pc = l
  BY RunsFacts
<1>2. lock["ptable"] # c /\ lock["ticks"] # c
  BY <1>1, Zenon DEF LocksOf, Open, UnderPtable, UnderTicks
<1>3. cpu[c].ncli = 0
  BY <1>1, <1>2, Zenon DEF LocksOf
<1>4. l # "exit" => cpu[c].ie
  BY <1>1, Zenon DEF FlagsOf
<1>5. th[p].back = "none"
  BY <1>1, Zenon DEF SlotOf, Open
<1>6. QED
  BY <1>2, <1>3, <1>4, <1>5, Zenon

\* ...p holds ptable.lock...
LEMMA AtPtable ==
  ASSUME IInv, NEW c \in Cpus, NEW p \in Procs, NEW l \in UnderPtable,
         Runs(c, p, l)
  PROVE  /\ cpu[c].ncli = 1 /\ ~ cpu[c].ie
         /\ lock["ptable"] = c /\ lock["ticks"] # c
         /\ l \in {"scan", "woken", "rise"} => cpu[c].intena
         /\ l = "yielded" => ~ cpu[c].intena
         /\ l \in {"forkret", "scan", "woken", "rise"} => th[p].back = "none"
<1>1. /\ LocksOf(c) /\ FlagsOf(c) /\ SlotOf(p) /\ p # 0 /\ cpu[c].thr = p
      /\ cpu[c].irq = "none" /\ th[p].pc = l
  BY RunsFacts
<1>2. lock["ptable"] = c /\ lock["ticks"] # c
  BY <1>1, Zenon DEF LocksOf
<1>3. cpu[c].ncli = 1
  BY <1>1, <1>2, Zenon DEF LocksOf
<1>4. /\ ~ cpu[c].ie
      /\ l \in {"scan", "woken", "rise"} => cpu[c].intena
      /\ l = "yielded" => ~ cpu[c].intena
  <2>1. cpu[c].ncli # 0
    BY <1>3
  <2> QED
    BY <1>1, <2>1, Zenon DEF FlagsOf
<1>5. l \in {"forkret", "scan", "woken", "rise"} => th[p].back = "none"
  BY <1>1, Zenon DEF SlotOf
<1>6. QED
  BY <1>2, <1>3, <1>4, <1>5, Zenon

\* ...p holds tickslock...
LEMMA AtTicks ==
  ASSUME IInv, NEW c \in Cpus, NEW p \in Procs, NEW l \in UnderTicks,
         Runs(c, p, l)
  PROVE  /\ cpu[c].ncli = 1 /\ ~ cpu[c].ie /\ cpu[c].intena
         /\ lock["ptable"] # c /\ lock["ticks"] = c
         /\ th[p].back = "none"
<1>1. /\ LocksOf(c) /\ FlagsOf(c) /\ SlotOf(p) /\ p # 0 /\ cpu[c].thr = p
      /\ cpu[c].irq = "none" /\ th[p].pc = l
  BY RunsFacts
<1>2. lock["ptable"] # c /\ lock["ticks"] = c
  BY <1>1, Zenon DEF LocksOf
<1>3. cpu[c].ncli = 1
  BY <1>1, <1>2, Zenon DEF LocksOf
<1>4. ~ cpu[c].ie /\ cpu[c].intena
  <2>1. cpu[c].ncli # 0
    BY <1>3
  <2> QED
    BY <1>1, <2>1, Zenon DEF FlagsOf, UnderTicks
<1>5. th[p].back = "none"
  BY <1>1, Zenon DEF SlotOf, UnderTicks
<1>6. QED
  BY <1>2, <1>3, <1>4, <1>5, Zenon

\* ...p is at the end of trap().
LEMMA AtTrap ==
  ASSUME IInv, NEW c \in Cpus, NEW p \in Procs, NEW l \in {"yield", "iret"},
         Runs(c, p, l)
  PROVE  /\ cpu[c].ncli = 0 /\ ~ cpu[c].ie
         /\ lock["ptable"] # c /\ lock["ticks"] # c
         /\ th[p].back # "none"
<1>1. /\ LocksOf(c) /\ FlagsOf(c) /\ SlotOf(p) /\ p # 0 /\ cpu[c].thr = p
      /\ cpu[c].irq = "none" /\ th[p].pc = l
  BY RunsFacts
<1>2. lock["ptable"] # c /\ lock["ticks"] # c
  BY <1>1, Zenon DEF LocksOf, UnderPtable, UnderTicks
<1>3. cpu[c].ncli = 0
  BY <1>1, <1>2, Zenon DEF LocksOf
<1>4. ~ cpu[c].ie
  BY <1>1, Zenon DEF FlagsOf
<1>5. th[p].back # "none"
  BY <1>1, Zenon DEF SlotOf
<1>6. QED
  BY <1>2, <1>3, <1>4, <1>5, Zenon

\* The labels a running process may go on to, and what CPU and locks are then.
Fits(c, m, n, e, i) ==
  \/ /\ m \in Open \cup {"yield", "iret"}
     /\ n = 0 /\ lock'["ptable"] # c /\ lock'["ticks"] # c
     /\ m \in Open \ {"exit"} => e
     /\ m \in {"yield", "iret"} => ~ e
  \/ /\ m \in {"scan", "woken", "rise", "yielded"}
     /\ n = 1 /\ ~ e /\ lock'["ptable"] = c /\ lock'["ticks"] # c
     /\ i <=> m # "yielded"
  \/ /\ m \in UnderTicks
     /\ n = 1 /\ ~ e /\ lock'["ptable"] # c /\ lock'["ticks"] = c /\ i

\* The CPU is right about the label m that p goes on to...
LEMMA FittingCpu ==
  ASSUME NEW c \in Cpus, NEW p \in Procs, NEW m, NEW n, NEW e, NEW i,
         cpu'[c].thr = p, cpu'[c].cr3 = p, cpu'[c].irq = "none",
         cpu'[c].spc = "back", cpu'[c].ncli = n,
         cpu'[c].ie <=> e, cpu'[c].intena <=> i,
         Fits(c, m, n, e, i), th'[p].pc = m, state'[p] = "RUNNING"
  PROVE  LocksOf(c)' /\ FlagsOf(c)' /\ ThreadOf(c)'
<1>1. p # 0
  BY Constants, Zenon
<1>2. CASE m \in Open \cup {"yield", "iret"}
  <2>1. /\ n = 0 /\ lock'["ptable"] # c /\ lock'["ticks"] # c
        /\ m \in Open \ {"exit"} => e
        /\ m \in {"yield", "iret"} => ~ e
    BY <1>2, Zenon DEF Fits, Open, UnderTicks
  <2>2. LocksOf(c)'
    BY <1>1, <1>2, <2>1, Zenon DEF LocksOf, UnderPtable, UnderTicks, Open
  <2>3. FlagsOf(c)'
    BY <1>1, <1>2, <2>1, Zenon DEF FlagsOf, Open
  <2>4. ThreadOf(c)'
    BY <1>1, <1>2, Zenon DEF ThreadOf, Open
  <2>5. QED
    BY <2>2, <2>3, <2>4, Zenon
<1>3. CASE m \in {"scan", "woken", "rise", "yielded"}
  <2>1. /\ n = 1 /\ ~ e /\ lock'["ptable"] = c /\ lock'["ticks"] # c
        /\ i <=> m # "yielded"
    BY <1>3, Zenon DEF Fits, Open, UnderTicks
  <2>2. LocksOf(c)'
    BY <1>1, <1>3, <2>1, Zenon DEF LocksOf, UnderPtable, UnderTicks
  <2>3. FlagsOf(c)'
    BY <1>1, <1>3, <2>1, Zenon DEF FlagsOf, Open
  <2>4. ThreadOf(c)'
    BY <1>1, <1>3, Zenon DEF ThreadOf
  <2>5. QED
    BY <2>2, <2>3, <2>4, Zenon
<1>4. CASE m \in UnderTicks
  <2>1. n = 1 /\ ~ e /\ lock'["ptable"] # c /\ lock'["ticks"] = c /\ i
    BY <1>4, Zenon DEF Fits, Open, UnderTicks
  <2>2. LocksOf(c)'
    BY <1>1, <1>4, <2>1, Zenon DEF LocksOf, UnderPtable, UnderTicks
  <2>3. FlagsOf(c)'
    BY <1>1, <1>4, <2>1, Zenon DEF FlagsOf, Open, UnderTicks
  <2>4. ThreadOf(c)'
    BY <1>1, <1>4, Zenon DEF ThreadOf, UnderTicks
  <2>5. QED
    BY <2>2, <2>3, <2>4, Zenon
<1>5. QED
  BY <1>2, <1>3, <1>4, Zenon DEF Fits

\* ...in particular without a lock...
LEMMA FitsCpu ==
  ASSUME NEW c \in Cpus, NEW p \in Procs,
         cpu'[c].thr = p, cpu'[c].cr3 = p, cpu'[c].irq = "none",
         cpu'[c].spc = "back", cpu'[c].ncli = 0, state'[p] = "RUNNING",
         Fits(c, th'[p].pc, 0, cpu'[c].ie, cpu'[c].intena)
  PROVE  LocksOf(c)' /\ FlagsOf(c)' /\ ThreadOf(c)'
BY FittingCpu

\* ...and so is the slot of p.
LEMMA FittingSlot ==
  ASSUME NEW c \in Cpus, NEW p \in Procs, NEW m, NEW n, NEW e, NEW i,
         Fits(c, m, n, e, i), th'[p].pc = m,
         th'[p].back # "none" <=> m \in {"yield", "yielded", "iret"},
         state'[p] = "RUNNING", kstack'[p] /\ pgdir'[p]
  PROVE  SlotOf(p)'
<1>1. m \in Open \cup {"yield", "iret", "scan", "woken", "rise", "yielded"}
             \cup UnderTicks
  BY Zenon DEF Fits
<1>2. QED
  BY <1>1, Zenon DEF SlotOf, Open, UnderTicks

\* Of the table, at most the channel of p changes, and others are killed.
Stays(p) ==
  /\ UNCHANGED <<halt, pid, parent, kstack, pgdir, nextpid, ticks>>
  /\ killed' \in [Procs -> BOOLEAN]
  /\ chan' \in [Procs -> Procs \cup {0, TICKS}]
  /\ state' \in [Procs -> States] /\ state'[p] = state[p]
  /\ \A q \in Procs \ {p} :
       /\ chan'[q] = chan[q]
       /\ \/ state'[q] = state[q]
          \/ state[q] = "SLEEPING" /\ state'[q] = "RUNNABLE"

\* Such a step keeps the types.
LEMMA StaysTypes ==
  ASSUME Types, NEW c, NEW p, NEW n, NEW e, NEW i,
         CpuTo(c, n, e, i), ThTo(p), LockTo(c), Stays(p)
  PROVE  Types'
<1>1. cpu' \in [Cpus -> CpuType]
  BY Zenon DEF CpuTo
<1>2. th' \in [Procs -> ThreadType]
  BY Zenon DEF ThTo
<1>3. lock' \in [{"ptable", "ticks"} -> Cpus \cup {0}]
  BY Zenon DEF LockTo
<1>4. QED
  BY <1>1, <1>2, <1>3, Zenon DEF Types, Stays

\* A running process goes from label l to label m.
LEMMA KeepsRunning ==
  ASSUME IInv, NEW c \in Cpus, NEW p \in Procs, NEW l, NEW n, NEW e, NEW i,
         Runs(c, p, l), l # "sched",
         CpuTo(c, n, e, i), ThTo(p), LockTo(c), Stays(p),
         Fits(c, th'[p].pc, n, e, i),
         th'[p].back # "none" <=> th'[p].pc \in {"yield", "yielded", "iret"},
         Forking(p)' => /\ Forking(p) /\ Place(p)' = Place(p)
                        /\ th'[p].np = th[p].np,
         th'[p].pc = "doze" => ~ Elapsed(p)'
  PROVE  IInv'
<1>1. /\ SlotOf(p) /\ cpu[c].thr = p /\ cpu[c].irq = "none"
      /\ cpu[c].spc = "back" /\ cpu[c].cr3 = p /\ state[p] = "RUNNING"
  BY RunsFacts
<1>2. Types'
  BY StaysTypes, Zenon DEF IInv
<1>3. state'[p] = "RUNNING" /\ kstack' = kstack /\ pgdir' = pgdir
  BY <1>1, Zenon DEF Stays
<1>4. LocksOf(c)' /\ FlagsOf(c)' /\ ThreadOf(c)'
  <2>1. /\ cpu'[c].thr = p /\ cpu'[c].cr3 = p /\ cpu'[c].irq = "none"
        /\ cpu'[c].spc = "back" /\ cpu'[c].ncli = n
        /\ cpu'[c].ie <=> e
        /\ cpu'[c].intena <=> i
    BY <1>1, Zenon DEF CpuTo
  <2>2. QED
    BY <1>3, <2>1, FittingCpu
<1>5. SlotOf(p)'
  <2>1. kstack[p] /\ pgdir[p]
    BY <1>1, Zenon DEF SlotOf
  <2>2. QED
    BY <1>1, <1>3, <2>1, FittingSlot, Zenon
<1>6. cpu'[c].thr = cpu[c].thr
  BY Zenon DEF CpuTo
<1>7. Executed(p)'
  BY <1>1, <1>6, Zenon DEF Executed
<1>8. GoesOn(p)
  BY <1>1, <1>3, <1>5, <1>7, Zenon DEF GoesOn, NoLost
<1>9. Quiet(c, {p})
  <2>1. \A q \in Procs \ {p} : th'[q] = th[q]
    BY Zenon DEF ThTo
  <2>2. \A q \in Procs \ {p} : Kept(q) /\ chan'[q] = chan[q]
    BY <1>3, <2>1, Zenon DEF Kept, Stays
  <2>3. \A q \in Procs : \/ state'[q] = state[q]
                         \/ state[q] \in Live /\ state'[q] \in Live
    BY Zenon DEF Stays, Live
  <2>4. \A d \in Cpus \ {c} : /\ cpu'[d] = cpu[d]
                              /\ lock'["ptable"] = d <=> lock["ptable"] = d
                              /\ lock'["ticks"] = d <=> lock["ticks"] = d
    BY Zenon DEF CpuTo, LockTo
  <2>5. UNCHANGED <<parent, kstack, pgdir>>
    BY Zenon DEF Stays
  <2>6. QED
    BY <1>1, <1>6, <2>2, <2>3, <2>4, <2>5, Zenon DEF Quiet
<1>10. Clock(c)
  BY <1>1, Zenon DEF Clock, Stays
<1>11. QED
  BY <1>1, <1>2, <1>4, <1>8, <1>9, <1>10, QuietStep

\* ...and is neither in fork() nor about to sleep.
LEMMA PlainStep ==
  ASSUME IInv, NEW c \in Cpus, NEW p \in Procs, NEW l, NEW n, NEW e, NEW i,
         Runs(c, p, l), l # "sched",
         CpuTo(c, n, e, i), ThTo(p), LockTo(c), Stays(p),
         Fits(c, th'[p].pc, n, e, i), th'[p].back = "none",
         th'[p].pc \notin {"yield", "yielded", "iret", "kstack", "copyuvm",
                           "runnable", "doze"}
  PROVE  IInv'
<1>1. ~ Forking(p)'
  BY Zenon DEF Forking, Place
<1>2. th'[p].back # "none" <=> th'[p].pc \in {"yield", "yielded", "iret"}
  BY Zenon
<1>3. th'[p].pc = "doze" => ~ Elapsed(p)'
  BY Zenon
<1>4. QED
  BY <1>1, <1>2, <1>3, KeepsRunning, Zenon

\* sys_sleep() reads ticks.
LEMMA NapThread ==
  ASSUME Types, NEW p \in Procs,
         th' = [th EXCEPT ![p].pc = "nap", ![p].t0 = ticks]
  PROVE  /\ ThTo(p)
         /\ th'[p].pc = "nap" /\ th'[p].back = th[p].back
<1> DEFINE t == [th[p] EXCEPT !.pc = "nap", !.t0 = ticks]
<1>1. th[p] \in ThreadType /\ th' = [th EXCEPT ![p] = t]
  BY Zenon DEF Types
<1>2. t \in ThreadType
  <2>1. "nap" \in Labels /\ ticks \in Nat
    BY Zenon DEF Labels, UnderTicks, Types
  <2>2. QED
    BY <1>1, <2>1, Zenon DEF ThreadType
<1>3. t.pc = "nap" /\ t.back = th[p].back
  BY <1>1, Zenon DEF ThreadType
<1> HIDE DEF t
<1>4. th'[p] = t /\ \A q \in Procs \ {p} : th'[q] = th[q]
  BY <1>1, Zenon DEF Types
<1>5. th' \in [Procs -> ThreadType]
  BY <1>1, <1>2, Zenon DEF Types
<1>6. QED
  BY <1>3, <1>4, <1>5, Zenon DEF ThTo

\* A program makes a system call.
LEMMA SyscallThread ==
  ASSUME Types, NEW c \in Cpus, NEW p \in Procs, Syscall(c, p)
  PROVE  /\ ThTo(p)
         /\ th'[p].back = "none"
         /\ th'[p].pc \in {"exit", "fork", "wait", "kill", "sleep"}
<1>1. PICK call \in Calls :
        \E arg \in CASE call = "kill"  -> 0..MaxPid
                     [] call = "sleep" -> Naps
                     [] OTHER          -> {0} :
          th' = [th EXCEPT ![p] = IF killed[p] THEN Thread("exit")
                                  ELSE [Thread(call) EXCEPT !.arg = arg]]
  BY Zenon DEF Syscall
<1>2. PICK arg \in CASE call = "kill"  -> 0..MaxPid
                     [] call = "sleep" -> Naps
                     [] OTHER          -> {0} :
          th' = [th EXCEPT ![p] = IF killed[p] THEN Thread("exit")
                                  ELSE [Thread(call) EXCEPT !.arg = arg]]
  BY <1>1, Zenon
<1>3. arg \in Nat
  <2>1. 0..MaxPid \subseteq Nat /\ Naps \subseteq Nat /\ {0} \subseteq Nat
    BY ProcAssumption
  <2>2. CASE call = "kill"
    BY <2>1, <2>2, <1>2, Zenon
  <2>3. CASE call = "sleep"
    BY <2>1, <2>3, <1>2, Zenon
  <2>4. CASE call # "kill" /\ call # "sleep"
    BY <2>1, <2>4, <1>2, Zenon
  <2>5. QED
    BY <2>2, <2>3, <2>4, Zenon
<1>4. call \in {"exit", "fork", "wait", "kill", "sleep"}
  BY ProcAssumption, Zenon
<1> DEFINE t == IF killed[p] THEN Thread("exit")
                ELSE [Thread(call) EXCEPT !.arg = arg]
<1>5. /\ t \in ThreadType /\ t.back = "none"
      /\ t.pc \in {"exit", "fork", "wait", "kill", "sleep"}
  <2>1. "exit" \in Labels /\ call \in Labels
    BY <1>4, Zenon DEF Labels, Open
  <2>2. Thread("exit") \in ThreadType /\ Thread(call) \in ThreadType
    BY <2>1, ThreadFacts, Zenon
  <2>3. [Thread(call) EXCEPT !.arg = arg] \in ThreadType
    BY <1>3, <2>2, Zenon DEF ThreadType
  <2>4. /\ [Thread(call) EXCEPT !.arg = arg].back = "none"
        /\ [Thread(call) EXCEPT !.arg = arg].pc = call
    BY Zenon DEF Thread
  <2>5. Thread("exit").back = "none" /\ Thread("exit").pc = "exit"
    BY Zenon DEF Thread
  <2>6. CASE killed[p]
    BY <2>2, <2>5, <2>6, Zenon
  <2>7. CASE ~ killed[p]
    BY <1>4, <2>3, <2>4, <2>7, Zenon
  <2>8. QED
    BY <2>6, <2>7, Zenon
<1>6. th' = [th EXCEPT ![p] = t]
  BY <1>2, Zenon
<1> HIDE DEF t
<1>7. th'[p] = t /\ \A q \in Procs \ {p} : th'[q] = th[q]
  BY <1>6, Zenon DEF Types
<1>8. th' \in [Procs -> ThreadType]
  BY <1>5, <1>6, Zenon DEF Types
<1>9. QED
  BY <1>5, <1>7, <1>8, Zenon DEF ThTo

\* sched() returns to its caller...
LEMMA SchedInThread ==
  ASSUME Types, NEW p \in Procs, SlotOf(p), th[p].pc = "resume",
         state[p] = "RUNNING",
         th' = [th EXCEPT ![p].pc = th[p].ret, ![p].ret = "none",
                          ![p].intena = FALSE]
  PROVE  /\ ThTo(p)
         /\ th'[p].pc = th[p].ret /\ th'[p].ret = "none"
         /\ th'[p].back = th[p].back /\ th'[p].np = th[p].np
<1> DEFINE t == [th[p] EXCEPT !.pc = th[p].ret, !.ret = "none",
                              !.intena = FALSE]
<1>1. th[p] \in ThreadType /\ th' = [th EXCEPT ![p] = t]
  BY Zenon DEF Types
<1>2. th[p].ret \in Labels
  <2>1. th[p].ret \in {"woken", "rise", "yielded"}
    BY <1>1, Zenon DEF SlotOf, ThreadType
  <2>2. QED
    BY <2>1, Zenon DEF Labels, UnderPtable
<1>3. t \in ThreadType
  BY <1>1, <1>2, Zenon DEF ThreadType
<1>4. /\ t.pc = th[p].ret /\ t.ret = "none" /\ t.back = th[p].back
      /\ t.np = th[p].np
  BY <1>1, Zenon DEF ThreadType
<1> HIDE DEF t
<1>5. th'[p] = t /\ \A q \in Procs \ {p} : th'[q] = th[q]
  BY <1>1, Zenon DEF Types
<1>6. th' \in [Procs -> ThreadType]
  BY <1>1, <1>3, Zenon DEF Types
<1>7. QED
  BY <1>4, <1>5, <1>6, Zenon DEF ThTo

\* ...with the intena it saved.
LEMMA SchedInCpu ==
  ASSUME Types, NEW c \in Cpus, NEW p \in Procs,
         cpu' = [cpu EXCEPT ![c].intena = th[p].intena]
  PROVE  CpuTo(c, cpu[c].ncli, cpu[c].ie, th[p].intena)
<1> DEFINE k == [cpu[c] EXCEPT !.intena = th[p].intena]
<1>1. cpu[c] \in CpuType /\ cpu' = [cpu EXCEPT ![c] = k]
  BY Zenon DEF Types
<1>2. th[p].intena \in BOOLEAN
  BY Zenon DEF Types, ThreadType
<1>3. k \in CpuType
  BY <1>1, <1>2, Zenon DEF CpuType
<1>4. /\ k.thr = cpu[c].thr /\ k.cr3 = cpu[c].cr3
      /\ k.irq = cpu[c].irq /\ k.spc = cpu[c].spc
      /\ k.ncli = cpu[c].ncli /\ k.ie = cpu[c].ie /\ k.intena = th[p].intena
  BY <1>1, Zenon DEF CpuType
<1> HIDE DEF k
<1>5. cpu'[c] = k /\ \A d \in Cpus \ {c} : cpu'[d] = cpu[d]
  BY <1>1, Zenon DEF Types
<1>6. cpu' \in [Cpus -> CpuType]
  BY <1>1, <1>3, Zenon DEF Types
<1>7. QED
  BY <1>4, <1>5, <1>6, Zenon DEF CpuTo

\* The first return to user space enables interrupts.
LEMMA ForkretCpu ==
  ASSUME Types, NEW c \in Cpus, cpu[c].ncli = 1,
         cpu' = [cpu EXCEPT ![c] = [popcli(@) EXCEPT !.ie = TRUE]]
  PROVE  CpuTo(c, 0, TRUE, FALSE)
<1> DEFINE k == [popcli(cpu[c]) EXCEPT !.ie = TRUE]
<1>1. cpu[c] \in CpuType /\ cpu' = [cpu EXCEPT ![c] = k]
  BY Zenon DEF Types
<1>2. /\ popcli(cpu[c]) \in CpuType
      /\ popcli(cpu[c]).thr = cpu[c].thr /\ popcli(cpu[c]).cr3 = cpu[c].cr3
      /\ popcli(cpu[c]).irq = cpu[c].irq /\ popcli(cpu[c]).spc = cpu[c].spc
      /\ popcli(cpu[c]).ncli = 0
      /\ ~ popcli(cpu[c]).intena
  BY <1>1, PopFacts
<1>3. k \in CpuType
  BY <1>2, Zenon DEF CpuType
<1>4. /\ k.thr = cpu[c].thr /\ k.cr3 = cpu[c].cr3
      /\ k.irq = cpu[c].irq /\ k.spc = cpu[c].spc
      /\ k.ncli = 0 /\ k.ie /\ ~ k.intena
  BY <1>2, Zenon DEF CpuType
<1> HIDE DEF k
<1>5. cpu'[c] = k /\ \A d \in Cpus \ {c} : cpu'[d] = cpu[d]
  BY <1>1, Zenon DEF Types
<1>6. cpu' \in [Cpus -> CpuType]
  BY <1>1, <1>3, Zenon DEF Types
<1>7. QED
  BY <1>4, <1>5, <1>6, Zenon DEF CpuTo

(***************************************************************************)
(* Steps of a process that goes on running.                                *)
(***************************************************************************)
\* The last test of p->killed.
LEMMA SysretStep ==
  ASSUME IInv, NEW c \in Cpus, NEW p \in Procs, Sysret(c, p)
  PROVE  IInv'
<1>1. Runs(c, p, "sysret")
  BY Zenon DEF Sysret
<1>2. /\ Types
      /\ lock \in [{"ptable", "ticks"} -> Cpus \cup {0}]
      /\ cpu \in [Cpus -> CpuType] /\ th \in [Procs -> ThreadType]
  BY TypeFacts, Zenon
<1>3. /\ cpu[c].ncli = 0 /\ cpu[c].ie /\ lock["ptable"] # c /\ lock["ticks"] # c
      /\ th[p].back = "none"
  BY <1>1, AtOpen, Zenon DEF Open
<1>4. CpuTo(c, 0, TRUE, cpu[c].intena)
  BY <1>2, <1>3, CpuSame, CpuFlags, Zenon DEF Sysret
<1>5. ThTo(p) /\ th'[p].pc \in {"exit", "user"} /\ th'[p].back = "none"
  <2>1. "exit" \in Labels /\ "user" \in Labels
    BY Zenon DEF Labels, Open
  <2>2. QED
    BY <1>2, <1>3, <2>1, GotoFacts, Zenon DEF Sysret
<1>6. LockTo(c) /\ lock' = lock
  BY <1>2, LockSame, Zenon DEF Sysret
<1>7. Stays(p)
  BY <1>2, Zenon DEF Sysret, table, Stays, Types
<1>8. Fits(c, th'[p].pc, 0, TRUE, cpu[c].intena)
  BY <1>3, <1>5, <1>6, Zenon DEF Fits, Open
<1>9. QED
  BY <1>1, <1>4, <1>5, <1>6, <1>7, <1>8, PlainStep, Zenon

\* syscall().
LEMMA SyscallStep ==
  ASSUME IInv, NEW c \in Cpus, NEW p \in Procs, Syscall(c, p)
  PROVE  IInv'
<1>1. Runs(c, p, "user")
  BY Zenon DEF Syscall
<1>2. /\ Types
      /\ lock \in [{"ptable", "ticks"} -> Cpus \cup {0}]
      /\ cpu \in [Cpus -> CpuType] /\ th \in [Procs -> ThreadType]
  BY TypeFacts, Zenon
<1>3. /\ cpu[c].ncli = 0 /\ cpu[c].ie /\ lock["ptable"] # c /\ lock["ticks"] # c
      /\ th[p].back = "none"
  BY <1>1, AtOpen, Zenon DEF Open
<1>4. CpuTo(c, 0, TRUE, cpu[c].intena)
  BY <1>2, <1>3, CpuSame, CpuFlags, Zenon DEF Syscall
<1>5. ThTo(p) /\ th'[p].back = "none"
      /\ th'[p].pc \in {"exit", "fork", "wait", "kill", "sleep"}
  BY <1>2, SyscallThread, Zenon
<1>6. LockTo(c) /\ lock' = lock
  BY <1>2, LockSame, Zenon DEF Syscall
<1>7. Stays(p)
  BY <1>2, Zenon DEF Syscall, table, Stays, Types
<1>8. Fits(c, th'[p].pc, 0, TRUE, cpu[c].intena)
  BY <1>3, <1>5, <1>6, Zenon DEF Fits, Open
<1>9. QED
  BY <1>1, <1>4, <1>5, <1>6, <1>7, <1>8, PlainStep, Zenon

\* wait() takes ptable.lock.
LEMMA WaitStep ==
  ASSUME IInv, NEW c \in Cpus, NEW p \in Procs, Wait(c, p)
  PROVE  IInv'
<1>1. Runs(c, p, "wait")
  BY Zenon DEF Wait
<1>2. /\ Types
      /\ lock \in [{"ptable", "ticks"} -> Cpus \cup {0}]
      /\ cpu \in [Cpus -> CpuType] /\ th \in [Procs -> ThreadType]
  BY TypeFacts, Zenon
<1>3. /\ cpu[c].ncli = 0 /\ cpu[c].ie /\ lock["ptable"] # c /\ lock["ticks"] # c
      /\ th[p].back = "none"
  BY <1>1, AtOpen, Zenon DEF Open
<1>4. CpuTo(c, 1, FALSE, TRUE)
  BY <1>2, <1>3, CpuPush, CpuFlags, Zenon DEF Wait
<1>5. ThTo(p) /\ th'[p].pc = "scan" /\ th'[p].back = "none"
  <2>1. "scan" \in Labels
    BY Zenon DEF Labels, Open, UnderPtable, UnderTicks
  <2>2. QED
    BY <1>2, <1>3, <2>1, GotoFacts, Zenon DEF Wait
<1>6. LockTo(c) /\ lock'["ptable"] = c /\ lock'["ticks"] # c
  BY <1>2, <1>3, AcquireFacts, Zenon DEF Wait
<1>7. Stays(p)
  BY <1>2, Zenon DEF Wait, table, Stays, Types
<1>8. Fits(c, th'[p].pc, 1, FALSE, TRUE)
  BY <1>5, <1>6, Zenon DEF Fits
<1>9. QED
  BY <1>1, <1>4, <1>5, <1>6, <1>7, <1>8, PlainStep, Zenon

\* wait() returns -1.
LEMMA WaitGivesUpStep ==
  ASSUME IInv, NEW c \in Cpus, NEW p \in Procs, WaitGivesUp(c, p)
  PROVE  IInv'
<1>1. Runs(c, p, "scan")
  BY Zenon DEF WaitGivesUp
<1>2. /\ Types
      /\ lock \in [{"ptable", "ticks"} -> Cpus \cup {0}]
      /\ cpu \in [Cpus -> CpuType] /\ th \in [Procs -> ThreadType]
  BY TypeFacts, Zenon
<1>3. /\ cpu[c].ncli = 1 /\ ~ cpu[c].ie /\ lock["ptable"] = c
      /\ lock["ticks"] # c /\ cpu[c].intena /\ th[p].back = "none"
  BY <1>1, AtPtable, Zenon DEF UnderPtable
<1>4. CpuTo(c, 0, TRUE, FALSE)
  BY <1>2, <1>3, CpuPop, CpuFlags, Zenon DEF WaitGivesUp
<1>5. ThTo(p) /\ th'[p].pc = "sysret" /\ th'[p].back = "none"
  BY <1>2, ReturnFacts, Zenon DEF WaitGivesUp
<1>6. LockTo(c) /\ lock'["ptable"] # c /\ lock'["ticks"] # c
  BY <1>2, <1>3, ReleaseFacts, Zenon DEF WaitGivesUp
<1>7. Stays(p)
  BY <1>2, Zenon DEF WaitGivesUp, table, Stays, Types
<1>8. Fits(c, th'[p].pc, 0, TRUE, FALSE)
  BY <1>3, <1>5, <1>6, Zenon DEF Fits, Open
<1>9. QED
  BY <1>1, <1>4, <1>5, <1>6, <1>7, <1>8, PlainStep, Zenon

\* sleep() returns to wait().
LEMMA WaitWokenStep ==
  ASSUME IInv, NEW c \in Cpus, NEW p \in Procs, WaitWoken(c, p)
  PROVE  IInv'
<1>1. Runs(c, p, "woken")
  BY Zenon DEF WaitWoken
<1>2. /\ Types
      /\ lock \in [{"ptable", "ticks"} -> Cpus \cup {0}]
      /\ cpu \in [Cpus -> CpuType] /\ th \in [Procs -> ThreadType]
  BY TypeFacts, Zenon
<1>3. /\ cpu[c].ncli = 1 /\ ~ cpu[c].ie /\ lock["ptable"] = c
      /\ lock["ticks"] # c /\ cpu[c].intena /\ th[p].back = "none"
  BY <1>1, AtPtable, Zenon DEF UnderPtable
<1>4. CpuTo(c, 1, FALSE, TRUE)
  <2>1. CpuTo(c, 1, cpu[c].ie, cpu[c].intena)
    BY <1>2, <1>3, CpuSame, Zenon DEF WaitWoken
  <2>2. QED
    BY <1>3, <2>1, Zenon DEF CpuTo
<1>5. ThTo(p) /\ th'[p].pc = "scan" /\ th'[p].back = "none"
  <2>1. "scan" \in Labels
    BY Zenon DEF Labels, Open, UnderPtable, UnderTicks
  <2>2. QED
    BY <1>2, <1>3, <2>1, GotoFacts, Zenon DEF WaitWoken
<1>6. LockTo(c) /\ lock' = lock
  BY <1>2, LockSame, Zenon DEF WaitWoken
<1>7. Stays(p)
  BY <1>2, Zenon DEF WaitWoken, table, Stays, Types
<1>8. Fits(c, th'[p].pc, 1, FALSE, TRUE)
  BY <1>3, <1>5, <1>6, Zenon DEF Fits
<1>9. QED
  BY <1>1, <1>4, <1>5, <1>6, <1>7, <1>8, PlainStep, Zenon

\* sys_sleep() takes tickslock.
LEMMA NapStep ==
  ASSUME IInv, NEW c \in Cpus, NEW p \in Procs, Nap(c, p)
  PROVE  IInv'
<1>1. Runs(c, p, "sleep")
  BY Zenon DEF Nap
<1>2. /\ Types
      /\ lock \in [{"ptable", "ticks"} -> Cpus \cup {0}]
      /\ cpu \in [Cpus -> CpuType] /\ th \in [Procs -> ThreadType]
  BY TypeFacts, Zenon
<1>3. /\ cpu[c].ncli = 0 /\ cpu[c].ie /\ lock["ptable"] # c /\ lock["ticks"] # c
      /\ th[p].back = "none"
  BY <1>1, AtOpen, Zenon DEF Open
<1>4. CpuTo(c, 1, FALSE, TRUE)
  BY <1>2, <1>3, CpuPush, CpuFlags, Zenon DEF Nap
<1>5. ThTo(p) /\ th'[p].pc = "nap" /\ th'[p].back = "none"
  BY <1>2, <1>3, NapThread, Zenon DEF Nap
<1>6. LockTo(c) /\ lock'["ticks"] = c /\ lock'["ptable"] # c
  BY <1>2, <1>3, AcquireFacts, Zenon DEF Nap
<1>7. Stays(p)
  BY <1>2, Zenon DEF Nap, table, Stays, Types
<1>8. Fits(c, th'[p].pc, 1, FALSE, TRUE)
  BY <1>5, <1>6, Zenon DEF Fits, UnderTicks
<1>9. QED
  BY <1>1, <1>4, <1>5, <1>6, <1>7, <1>8, PlainStep, Zenon

\* sys_sleep() returns.
LEMMA NapOverStep ==
  ASSUME IInv, NEW c \in Cpus, NEW p \in Procs, NapOver(c, p)
  PROVE  IInv'
<1>1. Runs(c, p, "nap")
  BY Zenon DEF NapOver
<1>2. /\ Types
      /\ lock \in [{"ptable", "ticks"} -> Cpus \cup {0}]
      /\ cpu \in [Cpus -> CpuType] /\ th \in [Procs -> ThreadType]
  BY TypeFacts, Zenon
<1>3. /\ cpu[c].ncli = 1 /\ ~ cpu[c].ie /\ cpu[c].intena
      /\ lock["ptable"] # c /\ lock["ticks"] = c /\ th[p].back = "none"
  BY <1>1, AtTicks, Zenon DEF UnderTicks
<1>4. CpuTo(c, 0, TRUE, FALSE)
  BY <1>2, <1>3, CpuPop, CpuFlags, Zenon DEF NapOver
<1>5. ThTo(p) /\ th'[p].pc = "sysret" /\ th'[p].back = "none"
  BY <1>2, ReturnFacts, Zenon DEF NapOver
<1>6. LockTo(c) /\ lock'["ticks"] # c /\ lock'["ptable"] # c
  BY <1>2, <1>3, ReleaseFacts, Zenon DEF NapOver
<1>7. Stays(p)
  BY <1>2, Zenon DEF NapOver, table, Stays, Types
<1>8. Fits(c, th'[p].pc, 0, TRUE, FALSE)
  BY <1>3, <1>5, <1>6, Zenon DEF Fits, Open
<1>9. QED
  BY <1>1, <1>4, <1>5, <1>6, <1>7, <1>8, PlainStep, Zenon

\* sleep() releases ptable.lock...
LEMMA NapWokenStep ==
  ASSUME IInv, NEW c \in Cpus, NEW p \in Procs, NapWoken(c, p)
  PROVE  IInv'
<1>1. Runs(c, p, "rise")
  BY Zenon DEF NapWoken
<1>2. /\ Types
      /\ lock \in [{"ptable", "ticks"} -> Cpus \cup {0}]
      /\ cpu \in [Cpus -> CpuType] /\ th \in [Procs -> ThreadType]
  BY TypeFacts, Zenon
<1>3. /\ cpu[c].ncli = 1 /\ ~ cpu[c].ie /\ lock["ptable"] = c
      /\ lock["ticks"] # c /\ cpu[c].intena /\ th[p].back = "none"
  BY <1>1, AtPtable, Zenon DEF UnderPtable
<1>4. CpuTo(c, 0, TRUE, FALSE)
  BY <1>2, <1>3, CpuPop, CpuFlags, Zenon DEF NapWoken
<1>5. ThTo(p) /\ th'[p].pc = "relock" /\ th'[p].back = "none"
  <2>1. "relock" \in Labels
    BY Zenon DEF Labels, Open, UnderPtable, UnderTicks
  <2>2. QED
    BY <1>2, <1>3, <2>1, GotoFacts, Zenon DEF NapWoken
<1>6. LockTo(c) /\ lock'["ptable"] # c /\ lock'["ticks"] # c
  BY <1>2, <1>3, ReleaseFacts, Zenon DEF NapWoken
<1>7. Stays(p)
  BY <1>2, Zenon DEF NapWoken, table, Stays, Types
<1>8. Fits(c, th'[p].pc, 0, TRUE, FALSE)
  BY <1>3, <1>5, <1>6, Zenon DEF Fits, Open
<1>9. QED
  BY <1>1, <1>4, <1>5, <1>6, <1>7, <1>8, PlainStep, Zenon

\* ...and takes tickslock again.
LEMMA NapRelockStep ==
  ASSUME IInv, NEW c \in Cpus, NEW p \in Procs, NapRelock(c, p)
  PROVE  IInv'
<1>1. Runs(c, p, "relock")
  BY Zenon DEF NapRelock
<1>2. /\ Types
      /\ lock \in [{"ptable", "ticks"} -> Cpus \cup {0}]
      /\ cpu \in [Cpus -> CpuType] /\ th \in [Procs -> ThreadType]
  BY TypeFacts, Zenon
<1>3. /\ cpu[c].ncli = 0 /\ cpu[c].ie /\ lock["ptable"] # c /\ lock["ticks"] # c
      /\ th[p].back = "none"
  BY <1>1, AtOpen, Zenon DEF Open
<1>4. CpuTo(c, 1, FALSE, TRUE)
  BY <1>2, <1>3, CpuPush, CpuFlags, Zenon DEF NapRelock
<1>5. ThTo(p) /\ th'[p].pc = "nap" /\ th'[p].back = "none"
  <2>1. "nap" \in Labels
    BY Zenon DEF Labels, Open, UnderPtable, UnderTicks
  <2>2. QED
    BY <1>2, <1>3, <2>1, GotoFacts, Zenon DEF NapRelock
<1>6. LockTo(c) /\ lock'["ticks"] = c /\ lock'["ptable"] # c
  BY <1>2, <1>3, AcquireFacts, Zenon DEF NapRelock
<1>7. Stays(p)
  BY <1>2, Zenon DEF NapRelock, table, Stays, Types
<1>8. Fits(c, th'[p].pc, 1, FALSE, TRUE)
  BY <1>5, <1>6, Zenon DEF Fits, UnderTicks
<1>9. QED
  BY <1>1, <1>4, <1>5, <1>6, <1>7, <1>8, PlainStep, Zenon

\* forkret().
LEMMA ForkretStep ==
  ASSUME IInv, NEW c \in Cpus, NEW p \in Procs, Forkret(c, p)
  PROVE  IInv'
<1>1. Runs(c, p, "forkret")
  BY Zenon DEF Forkret
<1>2. /\ Types
      /\ lock \in [{"ptable", "ticks"} -> Cpus \cup {0}]
      /\ cpu \in [Cpus -> CpuType] /\ th \in [Procs -> ThreadType]
  BY TypeFacts, Zenon
<1>3. /\ cpu[c].ncli = 1 /\ lock["ptable"] = c /\ lock["ticks"] # c
      /\ th[p].back = "none"
  BY <1>1, AtPtable, Zenon DEF UnderPtable
<1>4. CpuTo(c, 0, TRUE, FALSE)
  BY <1>2, <1>3, ForkretCpu, Zenon DEF Forkret
<1>5. ThTo(p) /\ th'[p].pc = "user" /\ th'[p].back = "none"
  <2>1. "user" \in Labels
    BY Zenon DEF Labels, Open, UnderPtable, UnderTicks
  <2>2. QED
    BY <1>2, <1>3, <2>1, GotoFacts, Zenon DEF Forkret
<1>6. LockTo(c) /\ lock'["ptable"] # c /\ lock'["ticks"] # c
  BY <1>2, <1>3, ReleaseFacts, Zenon DEF Forkret
<1>7. Stays(p)
  BY <1>2, Zenon DEF Forkret, table, Stays, Types
<1>8. Fits(c, th'[p].pc, 0, TRUE, FALSE)
  BY <1>3, <1>5, <1>6, Zenon DEF Fits, Open
<1>9. QED
  BY <1>1, <1>4, <1>5, <1>6, <1>7, <1>8, PlainStep, Zenon

\* sys_sleep() decides to sleep.
LEMMA NapWaitsStep ==
  ASSUME IInv, NEW c \in Cpus, NEW p \in Procs, NapWaits(c, p)
  PROVE  IInv'
<1>1. Runs(c, p, "nap")
  BY Zenon DEF NapWaits
<1>2. /\ Types
      /\ lock \in [{"ptable", "ticks"} -> Cpus \cup {0}]
      /\ cpu \in [Cpus -> CpuType] /\ th \in [Procs -> ThreadType]
  BY TypeFacts, Zenon
<1>3. /\ cpu[c].ncli = 1 /\ ~ cpu[c].ie /\ cpu[c].intena
      /\ lock["ptable"] # c /\ lock["ticks"] = c /\ th[p].back = "none"
  BY <1>1, AtTicks, Zenon DEF UnderTicks
<1>4. CpuTo(c, 1, FALSE, TRUE)
  <2>1. CpuTo(c, 1, cpu[c].ie, cpu[c].intena)
    BY <1>2, <1>3, CpuSame, Zenon DEF NapWaits
  <2>2. QED
    BY <1>3, <2>1, Zenon DEF CpuTo
<1>5. /\ ThTo(p) /\ th'[p].pc = "doze" /\ th'[p].back = "none"
      /\ th'[p].arg = th[p].arg /\ th'[p].t0 = th[p].t0
  <2>1. "doze" \in Labels
    BY Zenon DEF Labels, UnderTicks
  <2>2. QED
    BY <1>2, <1>3, <2>1, GotoFacts, Zenon DEF NapWaits
<1>6. LockTo(c) /\ lock' = lock
  BY <1>2, LockSame, Zenon DEF NapWaits
<1>7. Stays(p)
  BY <1>2, Zenon DEF NapWaits, table, Stays, Types
<1>8. Fits(c, th'[p].pc, 1, FALSE, TRUE)
  BY <1>3, <1>5, <1>6, Zenon DEF Fits, UnderTicks
<1>9. ~ Elapsed(p)'
  BY <1>5, Zenon DEF NapWaits, Elapsed
<1>10. ~ Forking(p)'
  BY <1>5, Zenon DEF Forking, Place
<1>11. th'[p].back # "none" <=> th'[p].pc \in {"yield", "yielded", "iret"}
  BY <1>5, Zenon
<1>12. QED
  BY <1>1, <1>4, <1>5, <1>6, <1>7, <1>8, <1>9, <1>10, <1>11, KeepsRunning,
     Zenon

\* yield() releases ptable.lock.
LEMMA YieldedStep ==
  ASSUME IInv, NEW c \in Cpus, NEW p \in Procs, Yielded(c, p)
  PROVE  IInv'
<1>1. Runs(c, p, "yielded")
  BY Zenon DEF Yielded
<1>2. /\ Types
      /\ lock \in [{"ptable", "ticks"} -> Cpus \cup {0}]
      /\ cpu \in [Cpus -> CpuType] /\ th \in [Procs -> ThreadType]
  BY TypeFacts, Zenon
<1>3. /\ cpu[c].ncli = 1 /\ ~ cpu[c].ie /\ ~ cpu[c].intena
      /\ lock["ptable"] = c /\ lock["ticks"] # c
  BY <1>1, AtPtable, Zenon DEF UnderPtable
<1>4. CpuTo(c, 0, FALSE, FALSE)
  BY <1>2, <1>3, CpuPop, CpuFlags, Zenon DEF Yielded
<1>5. th[p].back # "none"
  BY <1>1, RunsFacts DEF SlotOf
<1>6. /\ ThTo(p) /\ th'[p].pc = "iret" /\ th'[p].back = th[p].back
      /\ th'[p].np = th[p].np
  <2>1. "iret" \in Labels
    BY Zenon DEF Labels
  <2>2. QED
    BY <1>2, <2>1, GotoFacts, Zenon DEF Yielded
<1>7. LockTo(c) /\ lock'["ptable"] # c /\ lock'["ticks"] # c
  BY <1>2, <1>3, ReleaseFacts, Zenon DEF Yielded
<1>8. Stays(p)
  BY <1>2, Zenon DEF Yielded, table, Stays, Types
<1>9. Fits(c, th'[p].pc, 0, FALSE, FALSE)
  BY <1>6, <1>7, Zenon DEF Fits, Open
<1>10. Place(p)' = Place(p)
  BY <1>5, <1>6, Zenon DEF Place
<1>11. Forking(p)' => Forking(p)
  BY <1>10, Zenon DEF Forking
<1>12. /\ th'[p].back # "none" <=> th'[p].pc \in {"yield", "yielded", "iret"}
       /\ th'[p].pc = "doze" => ~ Elapsed(p)'
  BY <1>5, <1>6, Zenon
<1>13. QED
  BY <1>1, <1>4, <1>6, <1>7, <1>8, <1>9, <1>10, <1>11, <1>12, KeepsRunning,
     Zenon

\* swtch() returns to sched().
LEMMA SchedInStep ==
  ASSUME IInv, NEW c \in Cpus, NEW p \in Procs, SchedIn(c, p)
  PROVE  IInv'
<1>1. Runs(c, p, "resume")
  BY Zenon DEF SchedIn
<1>2. /\ Types
      /\ lock \in [{"ptable", "ticks"} -> Cpus \cup {0}]
      /\ cpu \in [Cpus -> CpuType] /\ th \in [Procs -> ThreadType]
  BY TypeFacts, Zenon
<1>3. /\ cpu[c].ncli = 1 /\ ~ cpu[c].ie
      /\ lock["ptable"] = c /\ lock["ticks"] # c
  BY <1>1, AtPtable, Zenon DEF UnderPtable
<1>4. SlotOf(p) /\ th[p].pc = "resume" /\ state[p] = "RUNNING"
  BY <1>1, RunsFacts
<1>5. /\ th[p].ret \in {"woken", "rise", "yielded"}
      /\ th[p].intena <=> th[p].ret # "yielded"
      /\ th[p].back # "none" <=> th[p].ret = "yielded"
  <2>1. th[p].ret \in {"none", "woken", "rise", "yielded", "zombie"}
    BY <1>2, Zenon DEF ThreadType
  <2>2. QED
    BY <1>4, <2>1, Zenon DEF SlotOf
<1>6. CpuTo(c, 1, FALSE, th[p].intena)
  <2>1. CpuTo(c, 1, cpu[c].ie, th[p].intena)
    BY <1>2, <1>3, SchedInCpu, Zenon DEF SchedIn
  <2>2. QED
    BY <1>3, <2>1, Zenon DEF CpuTo
<1>7. /\ ThTo(p) /\ th'[p].pc = th[p].ret
      /\ th'[p].back = th[p].back /\ th'[p].np = th[p].np
  BY <1>2, <1>4, SchedInThread, Zenon DEF SchedIn
<1>8. LockTo(c) /\ lock' = lock
  BY <1>2, LockSame, Zenon DEF SchedIn
<1>9. Stays(p)
  BY <1>2, Zenon DEF SchedIn, table, Stays, Types
<1>10. Fits(c, th'[p].pc, 1, FALSE, th[p].intena)
  BY <1>3, <1>5, <1>7, <1>8, Zenon DEF Fits
<1>11. Forking(p)' => Forking(p) /\ Place(p)' = Place(p)
  BY <1>5, <1>7, Zenon DEF Forking, Place
<1>12. /\ th'[p].back # "none" <=> th'[p].pc \in {"yield", "yielded", "iret"}
       /\ th'[p].pc = "doze" => ~ Elapsed(p)'
  BY <1>5, <1>7, Zenon
<1>13. QED
  BY <1>1, <1>6, <1>7, <1>8, <1>9, <1>10, <1>11, <1>12, KeepsRunning, Zenon

\* The end of the clock interrupt.
LEMMA IretStep ==
  ASSUME IInv, NEW c \in Cpus, NEW p \in Procs, Iret(c, p)
  PROVE  IInv'
<1>1. Runs(c, p, "iret")
  BY Zenon DEF Iret
<1>2. /\ Types
      /\ lock \in [{"ptable", "ticks"} -> Cpus \cup {0}]
      /\ cpu \in [Cpus -> CpuType] /\ th \in [Procs -> ThreadType]
  BY TypeFacts, Zenon
<1>3. /\ cpu[c].ncli = 0 /\ ~ cpu[c].ie
      /\ lock["ptable"] # c /\ lock["ticks"] # c /\ th[p].back # "none"
  BY <1>1, AtTrap, Zenon
<1>4. LockTo(c) /\ lock' = lock
  BY <1>2, LockSame, Zenon DEF Iret
<1>5. Stays(p)
  BY <1>2, Zenon DEF Iret, table, Stays, Types
<1>6. CASE killed[p] /\ th[p].back = "user"
  <2>1. cpu' = cpu /\ th' = [th EXCEPT ![p] = Thread("exit")]
    BY <1>6, Zenon DEF Iret
  <2>2. /\ Thread("exit") \in ThreadType
        /\ Thread("exit").pc = "exit" /\ Thread("exit").back = "none"
    BY ThreadFacts, Zenon DEF Labels, Open
  <2>3. ThTo(p) /\ th'[p].pc = "exit" /\ th'[p].back = "none"
    BY <1>2, <2>1, <2>2, ThSet, Zenon
  <2>4. CpuTo(c, 0, cpu[c].ie, cpu[c].intena)
    BY <1>2, <1>3, <2>1, CpuSame, Zenon
  <2>5. Fits(c, th'[p].pc, 0, cpu[c].ie, cpu[c].intena)
    BY <1>3, <1>4, <2>3, Zenon DEF Fits, Open
  <2>6. QED
    BY <1>1, <1>4, <1>5, <2>3, <2>4, <2>5, PlainStep, Zenon
<1>7. CASE ~ (killed[p] /\ th[p].back = "user")
  <2> DEFINE t == [th[p] EXCEPT !.pc = th[p].back, !.back = "none"]
             k == [cpu[c] EXCEPT !.ie = TRUE]
  <2>1. th' = [th EXCEPT ![p] = t] /\ cpu' = [cpu EXCEPT ![c] = k]
    BY <1>2, <1>7, Zenon DEF Iret
  <2>2. th[p] \in ThreadType /\ th[p].back \in Open
    BY <1>2, <1>3, Zenon DEF ThreadType
  <2>3. /\ t \in ThreadType /\ t.pc = th[p].back /\ t.back = "none"
        /\ t.np = th[p].np
    <3>1. th[p].back \in Labels
      BY <2>2, Zenon DEF Labels
    <3>2. t \in ThreadType
      BY <2>2, <3>1, Zenon DEF ThreadType
    <3>3. QED
      BY <2>2, <3>2, Zenon DEF ThreadType
  <2>4. cpu[c] \in CpuType
    BY <1>2, Zenon
  <2>5. k \in CpuType
    BY <2>4, Zenon DEF CpuType
  <2>6. /\ k.thr = cpu[c].thr /\ k.cr3 = cpu[c].cr3
        /\ k.irq = cpu[c].irq /\ k.spc = cpu[c].spc
        /\ k.ncli = cpu[c].ncli /\ k.ie /\ k.intena = cpu[c].intena
    BY <2>4, Zenon DEF CpuType
  <2> HIDE DEF t, k
  <2>7. /\ ThTo(p) /\ th'[p].pc = th[p].back /\ th'[p].back = "none"
        /\ th'[p].np = th[p].np
    BY <1>2, <2>1, <2>3, ThSet, Zenon
  <2>8. CpuTo(c, 0, TRUE, cpu[c].intena)
    BY <1>2, <1>3, <2>1, <2>5, <2>6, Zenon DEF CpuTo
  <2>9. Fits(c, th'[p].pc, 0, TRUE, cpu[c].intena)
    BY <1>3, <1>4, <2>2, <2>7, Zenon DEF Fits, Open
  <2>10. Forking(p)' => Forking(p) /\ Place(p)' = Place(p)
    BY <1>3, <2>7, Zenon DEF Forking, Place
  <2>11. /\ th'[p].back # "none" <=> th'[p].pc \in {"yield", "yielded", "iret"}
         /\ th'[p].pc = "doze" => ~ Elapsed(p)'
    BY <2>2, <2>7, Zenon DEF Open
  <2>12. QED
    BY <1>1, <1>4, <1>5, <2>7, <2>8, <2>9, <2>10, <2>11, KeepsRunning, Zenon
<1>8. QED
  BY <1>6, <1>7, Zenon

\* allocproc() finds no slot.
LEMMA ForkAllocFailsStep ==
  ASSUME IInv, NEW c \in Cpus, NEW p \in Procs, ForkAlloc(c, p),
         {q \in Procs : state[q] = "UNUSED"} = {}
  PROVE  IInv'
<1>1. Runs(c, p, "fork")
  BY Zenon DEF ForkAlloc
<1>2. /\ Types
      /\ lock \in [{"ptable", "ticks"} -> Cpus \cup {0}]
      /\ cpu \in [Cpus -> CpuType] /\ th \in [Procs -> ThreadType]
  BY TypeFacts, Zenon
<1>3. /\ cpu[c].ncli = 0 /\ cpu[c].ie
      /\ lock["ptable"] # c /\ lock["ticks"] # c
  BY <1>1, AtOpen, Zenon DEF Open
<1>4. CpuTo(c, 0, cpu[c].ie, cpu'[c].intena)
  BY <1>2, <1>3, CpuHeld, Zenon DEF ForkAlloc
<1>5. ThTo(p) /\ th'[p].pc = "sysret" /\ th'[p].back = "none"
  BY <1>2, ReturnFacts, Zenon DEF ForkAlloc
<1>6. LockTo(c) /\ lock' = lock
  BY <1>2, LockSame, Zenon DEF ForkAlloc
<1>7. Stays(p)
  BY <1>2, Zenon DEF ForkAlloc, Stays, Types
<1>8. Fits(c, th'[p].pc, 0, cpu[c].ie, cpu'[c].intena)
  BY <1>3, <1>5, <1>6, Zenon DEF Fits, Open
<1>9. QED
  BY <1>1, <1>4, <1>5, <1>6, <1>7, <1>8, PlainStep, Zenon

\* A step that changes at most halt and what kill() leaves in the table.
LEMMA IdleStep ==
  ASSUME IInv, Types', UNCHANGED <<lock, cpu, state, parent, chan, kstack,
                                   pgdir, th, ticks>>
  PROVE  IInv'
<1>1. ASSUME NEW d \in Cpus
      PROVE  LocksOf(d)' /\ FlagsOf(d)' /\ ThreadOf(d)'
  BY DEF IInv, LocksOf, FlagsOf, ThreadOf
<1>2. ASSUME NEW q \in Procs
      PROVE  SlotOf(q)' /\ Executed(q)' /\ ForkOf(q)'
  BY DEF IInv, SlotOf, Executed, ForkOf, ChildOf, Forking, Place
<1>3. OneThread' /\ InitLives' /\ ParentLives' /\ Dozing' /\ NoLostWakeup'
  BY Zenon DEF IInv, OneThread, InitLives, ParentLives, Dozing, NoLostWakeup,
         Elapsed, ZombieKids, Kids
<1>4. QED
  BY <1>1, <1>2, <1>3, Zenon DEF IInv

\* init panics.
LEMMA InitExitsStep ==
  ASSUME IInv, NEW c \in Cpus, NEW p \in Procs, InitExits(c, p)
  PROVE  IInv'
<1>1. UNCHANGED <<lock, cpu, state, pid, parent, chan, killed, kstack, pgdir,
                  nextpid, th, ticks>> /\ halt' = "init_exiting"
  BY Zenon DEF InitExits, table
<1>2. Types'
  BY <1>1, Zenon DEF IInv, Types
<1>3. QED
  BY <1>1, <1>2, IdleStep, Zenon

(***************************************************************************)
(* Steps of the scheduler and of the clock interrupt.                      *)
(***************************************************************************)
\* Only cpu[c] changes, and it goes on executing the same thread.
OnlyCpu(c) ==
  /\ cpu' \in [Cpus -> CpuType]
  /\ \A d \in Cpus \ {c} : cpu'[d] = cpu[d]
  /\ cpu'[c].thr = cpu[c].thr

\* Only cpu[c] changes.
LEMMA CpuSet ==
  ASSUME cpu \in [Cpus -> CpuType], NEW c \in Cpus, NEW k \in CpuType,
         cpu' = [cpu EXCEPT ![c] = k], k.thr = cpu[c].thr
  PROVE  OnlyCpu(c) /\ cpu'[c] = k
BY Zenon DEF OnlyCpu

\* Others may be woken, nothing else happens to the table.
LEMMA CpuStep ==
  ASSUME IInv, NEW c \in Cpus, OnlyCpu(c), LockTo(c), Clock(c),
         LocksOf(c)', FlagsOf(c)', ThreadOf(c)',
         UNCHANGED <<halt, pid, parent, chan, killed, kstack, pgdir, nextpid,
                     th>>,
         ticks' \in Nat, state' \in [Procs -> States],
         \A q \in Procs : \/ state'[q] = state[q]
                          \/ state[q] = "SLEEPING" /\ state'[q] = "RUNNABLE"
  PROVE  IInv'
<1>1. Types'
  BY Zenon DEF IInv, Types, OnlyCpu, LockTo
<1>2. Quiet(c, {})
  <2>1. \A q \in Procs : Kept(q) /\ chan'[q] = chan[q]
    BY Zenon DEF Kept
  <2>2. \A q \in Procs : \/ state'[q] = state[q]
                         \/ state[q] \in Live /\ state'[q] \in Live
    BY Zenon DEF Live
  <2>3. QED
    BY <2>1, <2>2, Zenon DEF Quiet, OnlyCpu, LockTo
<1>3. QED
  BY <1>1, <1>2, QuietStep

\* A CPU in scheduler().
LEMMA SchedulesFacts ==
  ASSUME IInv, NEW c \in Cpus, NEW l, Schedules(c, l)
  PROVE  /\ cpu[c].thr = 0 /\ cpu[c].irq = "none" /\ cpu[c].spc = l
         /\ cpu[c].cr3 # 0 =>
              l = "back" /\ state[cpu[c].cr3] \notin {"UNUSED", "EMBRYO"}
         /\ lock["ptable"] = c <=> l \in {"scan", "back"}
         /\ lock["ticks"] # c
         /\ cpu[c].ncli = IF l \in {"scan", "back"} THEN 1 ELSE 0
         /\ l \in {"scan", "back"} => ~ cpu[c].ie
<1>1. cpu[c].thr = 0 /\ cpu[c].irq = "none" /\ cpu[c].spc = l
  BY Zenon DEF Schedules
<1>2. LocksOf(c) /\ FlagsOf(c) /\ ThreadOf(c)
  BY Zenon DEF IInv
<1>3. (lock["ptable"] = c <=> l \in {"scan", "back"}) /\ lock["ticks"] # c
  BY <1>1, <1>2, Zenon DEF LocksOf
<1>4. cpu[c].ncli = IF l \in {"scan", "back"} THEN 1 ELSE 0
  BY <1>2, <1>3, Zenon DEF LocksOf
<1>5. l \in {"scan", "back"} => ~ cpu[c].ie
  BY <1>2, <1>4 DEF FlagsOf
<1>6. QED
  BY <1>1, <1>2, <1>3, <1>4, <1>5, Zenon DEF ThreadOf

\* The scheduler of c goes on at label s.
LEMMA SchedulingCpu ==
  ASSUME NEW c \in Cpus, NEW s, cpu'[c].thr = 0, cpu'[c].irq = "none",
         cpu'[c].spc = s,
         cpu'[c].cr3 # 0 =>
           s = "back" /\ state'[cpu'[c].cr3] \notin {"UNUSED", "EMBRYO"},
         lock'["ptable"] = c <=> s \in {"scan", "back"}, lock'["ticks"] # c,
         cpu'[c].ncli = IF s \in {"scan", "back"} THEN 1 ELSE 0,
         s \in {"scan", "back"} => ~ cpu'[c].ie
  PROVE  LocksOf(c)' /\ FlagsOf(c)' /\ ThreadOf(c)'
<1>1. LocksOf(c)'
  BY Zenon DEF LocksOf
<1>2. FlagsOf(c)'
  BY Zenon DEF FlagsOf
<1>3. ThreadOf(c)'
  BY Zenon DEF ThreadOf
<1>4. QED
  BY <1>1, <1>2, <1>3, Zenon

\* sti().
LEMMA StiStep ==
  ASSUME IInv, NEW c \in Cpus, Sti(c)
  PROVE  IInv'
<1> DEFINE k == [cpu[c] EXCEPT !.ie = TRUE, !.spc = "top"]
<1>1. Types /\ lock \in [{"ptable", "ticks"} -> Cpus \cup {0}]
      /\ cpu \in [Cpus -> CpuType]
  BY TypeFacts, Zenon
<1>2. /\ cpu[c].thr = 0 /\ cpu[c].irq = "none" /\ cpu[c].cr3 = 0
      /\ cpu[c].ncli = 0 /\ lock["ptable"] # c /\ lock["ticks"] # c
  BY SchedulesFacts DEF Sti
<1>3. cpu[c] \in CpuType /\ cpu' = [cpu EXCEPT ![c] = k]
  BY <1>1, Zenon DEF Sti
<1>4. k \in CpuType
  BY <1>3, Zenon DEF CpuType
<1>5. /\ k.thr = cpu[c].thr /\ k.cr3 = cpu[c].cr3 /\ k.irq = cpu[c].irq
      /\ k.ncli = cpu[c].ncli /\ k.spc = "top"
  BY <1>3, Zenon DEF CpuType
<1> HIDE DEF k
<1>6. OnlyCpu(c) /\ cpu'[c] = k
  BY <1>1, <1>3, <1>4, <1>5, CpuSet, Zenon
<1>7. lock' = lock /\ LockTo(c)
  BY <1>1, LockSame, Zenon DEF Sti
<1>8. LocksOf(c)' /\ FlagsOf(c)' /\ ThreadOf(c)'
  BY <1>2, <1>5, <1>6, <1>7, SchedulingCpu, Zenon
<1>9. Clock(c)
  BY <1>2, Zenon DEF Clock, Sti
<1>10. QED
  BY <1>1, <1>6, <1>7, <1>8, <1>9, CpuStep, Zenon DEF Sti, table, Types

\* scheduler() takes ptable.lock.
LEMMA SchedAcquireStep ==
  ASSUME IInv, NEW c \in Cpus, SchedAcquire(c)
  PROVE  IInv'
<1> DEFINE k == [pushcli(cpu[c]) EXCEPT !.spc = "scan", !.cur = 1]
<1>1. Types /\ lock \in [{"ptable", "ticks"} -> Cpus \cup {0}]
      /\ cpu \in [Cpus -> CpuType]
  BY TypeFacts, Zenon
<1>2. /\ cpu[c].thr = 0 /\ cpu[c].irq = "none" /\ cpu[c].cr3 = 0
      /\ cpu[c].ncli = 0 /\ lock["ptable"] # c /\ lock["ticks"] # c
  BY SchedulesFacts DEF SchedAcquire
<1>3. cpu[c] \in CpuType /\ cpu' = [cpu EXCEPT ![c] = k]
  BY <1>1, Zenon DEF SchedAcquire
<1>4. /\ pushcli(cpu[c]) \in CpuType
      /\ pushcli(cpu[c]).thr = cpu[c].thr /\ pushcli(cpu[c]).cr3 = cpu[c].cr3
      /\ pushcli(cpu[c]).irq = cpu[c].irq
      /\ pushcli(cpu[c]).ncli = cpu[c].ncli + 1
      /\ ~ pushcli(cpu[c]).ie
  BY <1>3, PushFacts, Zenon
<1>5. k \in CpuType
  BY <1>4, Zenon DEF CpuType
<1>6. /\ k.thr = pushcli(cpu[c]).thr /\ k.cr3 = pushcli(cpu[c]).cr3
      /\ k.irq = pushcli(cpu[c]).irq /\ k.ncli = pushcli(cpu[c]).ncli
      /\ k.spc = "scan" /\ k.ie = pushcli(cpu[c]).ie
  BY <1>4, Zenon DEF CpuType
<1> HIDE DEF k
<1>7. /\ k.thr = cpu[c].thr /\ k.cr3 = 0 /\ k.irq = "none" /\ k.ncli = 1
      /\ k.spc = "scan" /\ ~ k.ie
  BY <1>2, <1>4, <1>6
<1>8. OnlyCpu(c) /\ cpu'[c] = k
  BY <1>1, <1>3, <1>5, <1>7, CpuSet, Zenon
<1>9. LockTo(c) /\ lock'["ptable"] = c /\ lock'["ticks"] # c
  BY <1>1, <1>2, AcquireFacts, Zenon DEF SchedAcquire
<1>10. LocksOf(c)' /\ FlagsOf(c)' /\ ThreadOf(c)'
  BY <1>2, <1>7, <1>8, <1>9, SchedulingCpu, Zenon
<1>11. Clock(c)
  BY <1>2, Zenon DEF Clock, SchedAcquire
<1>12. QED
  BY <1>1, <1>8, <1>9, <1>10, <1>11, CpuStep, Zenon DEF SchedAcquire, table,
     Types

\* switchkvm(), and on with the loop.
LEMMA SchedBackStep ==
  ASSUME IInv, NEW c \in Cpus, SchedBack(c)
  PROVE  IInv'
<1> DEFINE k == [cpu[c] EXCEPT !.proc = 0, !.cr3 = 0, !.cur = @ + 1,
                               !.spc = "scan"]
<1>1. Types /\ lock \in [{"ptable", "ticks"} -> Cpus \cup {0}]
      /\ cpu \in [Cpus -> CpuType]
  BY TypeFacts, Zenon
<1>2. /\ cpu[c].thr = 0 /\ cpu[c].irq = "none" /\ ~ cpu[c].ie
      /\ cpu[c].ncli = 1 /\ lock["ptable"] = c /\ lock["ticks"] # c
  BY SchedulesFacts, Zenon DEF SchedBack
<1>3. cpu[c] \in CpuType /\ cpu' = [cpu EXCEPT ![c] = k]
  BY <1>1, Zenon DEF SchedBack
<1>4. k \in CpuType
  <2>1. cpu[c].cur + 1 \in Nat
    BY <1>3 DEF CpuType
  <2>2. QED
    BY <1>3, <2>1, Zenon DEF CpuType
<1>5. /\ k.thr = cpu[c].thr /\ k.cr3 = 0 /\ k.irq = cpu[c].irq
      /\ k.ncli = cpu[c].ncli /\ k.spc = "scan" /\ k.ie = cpu[c].ie
  BY <1>3, Zenon DEF CpuType
<1> HIDE DEF k
<1>6. OnlyCpu(c) /\ cpu'[c] = k
  BY <1>1, <1>3, <1>4, <1>5, CpuSet, Zenon
<1>7. lock' = lock /\ LockTo(c)
  BY <1>1, LockSame, Zenon DEF SchedBack
<1>8. LocksOf(c)' /\ FlagsOf(c)' /\ ThreadOf(c)'
  BY <1>2, <1>5, <1>6, <1>7, SchedulingCpu, Zenon
<1>9. Clock(c)
  BY <1>2, Zenon DEF Clock, SchedBack
<1>10. QED
  BY <1>1, <1>6, <1>7, <1>8, <1>9, CpuStep, Zenon DEF SchedBack, table, Types

\* scheduler() releases ptable.lock.
LEMMA SchedReleaseStep ==
  ASSUME IInv, NEW c \in Cpus, SchedRelease(c)
  PROVE  IInv'
<1> DEFINE k == [popcli(cpu[c]) EXCEPT !.spc = "sti", !.cur = 0]
<1>1. Types /\ lock \in [{"ptable", "ticks"} -> Cpus \cup {0}]
      /\ cpu \in [Cpus -> CpuType]
  BY TypeFacts, Zenon
<1>2. /\ cpu[c].thr = 0 /\ cpu[c].irq = "none" /\ cpu[c].cr3 = 0
      /\ cpu[c].ncli = 1 /\ lock["ptable"] = c /\ lock["ticks"] # c
  BY SchedulesFacts DEF SchedRelease
<1>3. cpu[c] \in CpuType /\ cpu' = [cpu EXCEPT ![c] = k]
  BY <1>1, Zenon DEF SchedRelease
<1>4. /\ popcli(cpu[c]) \in CpuType
      /\ popcli(cpu[c]).thr = cpu[c].thr /\ popcli(cpu[c]).cr3 = cpu[c].cr3
      /\ popcli(cpu[c]).irq = cpu[c].irq
      /\ popcli(cpu[c]).ncli = cpu[c].ncli - 1
  BY <1>2, <1>3, PopFacts
<1>5. k \in CpuType
  BY <1>4, Zenon DEF CpuType
<1>6. /\ k.thr = popcli(cpu[c]).thr /\ k.cr3 = popcli(cpu[c]).cr3
      /\ k.irq = popcli(cpu[c]).irq /\ k.ncli = popcli(cpu[c]).ncli
      /\ k.spc = "sti"
  BY <1>4, Zenon DEF CpuType
<1> HIDE DEF k
<1>7. /\ k.thr = cpu[c].thr /\ k.cr3 = 0 /\ k.irq = "none" /\ k.ncli = 0
      /\ k.spc = "sti"
  BY <1>2, <1>4, <1>6
<1>8. OnlyCpu(c) /\ cpu'[c] = k
  BY <1>1, <1>3, <1>5, <1>7, CpuSet, Zenon
<1>9. LockTo(c) /\ lock'["ptable"] # c /\ lock'["ticks"] # c
  BY <1>1, <1>2, ReleaseFacts, Zenon DEF SchedRelease
<1>10. LocksOf(c)' /\ FlagsOf(c)' /\ ThreadOf(c)'
  BY <1>2, <1>7, <1>8, <1>9, SchedulingCpu, Zenon
<1>11. Clock(c)
  BY <1>2, Zenon DEF Clock, SchedRelease
<1>12. QED
  BY <1>1, <1>8, <1>9, <1>10, <1>11, CpuStep, Zenon DEF SchedRelease, table,
     Types

\* The handler of the clock interrupt has interrupted code without locks.
LEMMA InterruptingCpu ==
  ASSUME NEW c \in Cpus, ThreadOf(c), NEW i \in {"count", "wake", "tail"},
         cpu'[c].thr = cpu[c].thr, cpu'[c].cr3 = cpu[c].cr3,
         cpu'[c].spc = cpu[c].spc, cpu'[c].irq = i, ~ cpu'[c].ie,
         i = "wake" => ~ cpu'[c].intena,
         cpu'[c].ncli = IF i = "wake" THEN 1 ELSE 0,
         lock'["ptable"] # c, lock'["ticks"] = c <=> i = "wake",
         cpu[c].thr = 0 => cpu[c].spc \notin {"scan", "back"},
         cpu[c].thr # 0 => /\ th[cpu[c].thr].pc \in Open
                           /\ th'[cpu[c].thr] = th[cpu[c].thr]
                           /\ state'[cpu[c].thr] = state[cpu[c].thr],
         cpu[c].cr3 # 0 => state'[cpu[c].cr3] \notin {"UNUSED", "EMBRYO"}
  PROVE  LocksOf(c)' /\ FlagsOf(c)' /\ ThreadOf(c)'
<1>1. LocksOf(c)'
  BY Zenon DEF LocksOf, Open, UnderPtable, UnderTicks
<1>2. FlagsOf(c)'
  BY Zenon DEF FlagsOf
<1>3. ThreadOf(c)'
  BY Zenon DEF ThreadOf
<1>4. QED
  BY <1>1, <1>2, <1>3, Zenon

\* A CPU that handles the clock interrupt holds no lock but tickslock.
LEMMA InterruptFacts ==
  ASSUME IInv, NEW c \in Cpus, cpu[c].irq # "none" \/ cpu[c].ie
  PROVE  /\ ThreadOf(c) /\ lock["ptable"] # c
         /\ lock["ticks"] = c <=> cpu[c].irq = "wake"
         /\ cpu[c].ncli = IF cpu[c].irq = "wake" THEN 1 ELSE 0
         /\ cpu[c].irq # "none" => ~ cpu[c].ie
         /\ cpu[c].irq = "wake" => ~ cpu[c].intena
         /\ cpu[c].thr = 0 => cpu[c].spc \notin {"scan", "back"}
         /\ cpu[c].thr # 0 => /\ cpu[c].thr \in Procs
                              /\ th[cpu[c].thr].pc \in Open
         /\ cpu[c].cr3 # 0 => /\ cpu[c].cr3 \in Procs
                              /\ state[cpu[c].cr3] \notin {"UNUSED", "EMBRYO"}
<1>1. LocksOf(c) /\ FlagsOf(c) /\ ThreadOf(c) /\ cpu[c] \in CpuType
      /\ th \in [Procs -> ThreadType]
  BY Zenon DEF IInv, Types
<1>2. /\ cpu[c].thr # 0 => cpu[c].thr \in Procs
      /\ cpu[c].cr3 # 0 => cpu[c].cr3 \in Procs
      /\ cpu[c].thr # 0 => th[cpu[c].thr].pc \in Labels
  BY <1>1, Zenon DEF CpuType, ThreadType
<1>3. lock["ptable"] # c
  BY <1>1 DEF LocksOf, FlagsOf
<1>4. cpu[c].thr # 0 => th[cpu[c].thr].pc \in Open
  <2>1. CASE cpu[c].irq # "none"
    BY <1>1, <2>1, Zenon DEF FlagsOf
  <2>2. CASE cpu[c].irq = "none" /\ cpu[c].ie
    <3>1. SUFFICES ASSUME cpu[c].thr # 0
                   PROVE  th[cpu[c].thr].pc \in Open
      BY Zenon
    <3>2. cpu[c].ncli = 0 /\ th[cpu[c].thr].pc \notin {"yield", "iret"}
      BY <1>1, <2>2, <3>1, Zenon DEF FlagsOf
    <3>3. lock["ptable"] # c /\ lock["ticks"] # c
      BY <1>1, <3>2 DEF LocksOf
    <3>4. th[cpu[c].thr].pc \notin UnderPtable \cup UnderTicks \cup {"none"}
      BY <1>1, <3>1, <3>3, Zenon DEF LocksOf, ThreadOf
    <3>5. QED
      BY <1>2, <3>1, <3>2, <3>4, Zenon DEF Labels
  <2>3. QED
    BY <2>1, <2>2, Zenon
<1>5. lock["ticks"] = c <=> cpu[c].irq = "wake"
  BY <1>1, <1>4, Zenon DEF LocksOf, Open, UnderTicks
<1>6. cpu[c].ncli = IF cpu[c].irq = "wake" THEN 1 ELSE 0
  BY <1>1, <1>3, <1>5, Zenon DEF LocksOf
<1>7. /\ cpu[c].irq # "none" => ~ cpu[c].ie
      /\ cpu[c].irq = "wake" => ~ cpu[c].intena
  BY <1>1, Zenon DEF FlagsOf
<1>8. cpu[c].thr = 0 => cpu[c].spc \notin {"scan", "back"}
  BY <1>1, <1>3, Zenon DEF LocksOf
<1>9. cpu[c].cr3 # 0 => state[cpu[c].cr3] \notin {"UNUSED", "EMBRYO"}
  BY <1>1, Zenon DEF ThreadOf
<1>10. QED
  BY <1>1, <1>2, <1>3, <1>4, <1>5, <1>6, <1>7, <1>8, <1>9, Zenon

\* The interrupt is taken.
LEMMA TimerIrqStep ==
  ASSUME IInv, NEW c \in Cpus, TimerIrq(c)
  PROVE  IInv'
<1> DEFINE i == IF c = 1 THEN "count" ELSE "tail"
           k == [cpu[c] EXCEPT !.ie = FALSE, !.irq = i]
<1>1. Types /\ lock \in [{"ptable", "ticks"} -> Cpus \cup {0}]
      /\ cpu \in [Cpus -> CpuType]
  BY TypeFacts, Zenon
<1>2. cpu[c].ie /\ cpu[c] \in CpuType /\ cpu' = [cpu EXCEPT ![c] = k]
  BY <1>1, Zenon DEF TimerIrq
<1>3. /\ ThreadOf(c) /\ lock["ptable"] # c
      /\ cpu[c].irq = "none"
      /\ lock["ticks"] # c /\ cpu[c].ncli = 0
      /\ cpu[c].thr = 0 => cpu[c].spc \notin {"scan", "back"}
      /\ cpu[c].thr # 0 => th[cpu[c].thr].pc \in Open
      /\ cpu[c].cr3 # 0 => state[cpu[c].cr3] \notin {"UNUSED", "EMBRYO"}
  BY <1>2, InterruptFacts, Zenon
<1>4. i \in {"count", "wake", "tail"} /\ i # "wake"
  BY Zenon
<1> HIDE DEF i
<1>5. k \in CpuType
  <2>1. i \in {"none", "count", "wake", "tail"}
    BY <1>4, Zenon
  <2>2. QED
    BY <1>2, <2>1, Zenon DEF CpuType
<1>6. /\ k.thr = cpu[c].thr /\ k.cr3 = cpu[c].cr3 /\ k.irq = i
      /\ k.ncli = cpu[c].ncli /\ k.spc = cpu[c].spc /\ ~ k.ie
  BY <1>2, Zenon DEF CpuType
<1> HIDE DEF k
<1>7. OnlyCpu(c) /\ cpu'[c] = k
  BY <1>1, <1>2, <1>5, <1>6, CpuSet, Zenon
<1>8. lock' = lock /\ LockTo(c) /\ th' = th /\ state' = state
  BY <1>1, LockSame, Zenon DEF TimerIrq, table
<1>9. LocksOf(c)' /\ FlagsOf(c)' /\ ThreadOf(c)'
  BY <1>3, <1>4, <1>6, <1>7, <1>8, InterruptingCpu, Zenon
<1>10. Clock(c)
  BY <1>3, Zenon DEF Clock, TimerIrq
<1>11. QED
  BY <1>1, <1>7, <1>8, <1>9, <1>10, CpuStep, Zenon DEF TimerIrq, table, Types

\* The tick is counted under tickslock: nobody is about to sleep on it.
LEMMA TimerCountsStep ==
  ASSUME IInv, NEW c \in Cpus, TimerCounts(c)
  PROVE  IInv'
<1> DEFINE h == pushcli(cpu[c])
           k == [h EXCEPT !.irq = "wake"]
<1>1. Types /\ lock \in [{"ptable", "ticks"} -> Cpus \cup {0}]
      /\ cpu \in [Cpus -> CpuType]
  BY TypeFacts, Zenon
<1>2. /\ cpu[c].irq = "count" /\ cpu[c] \in CpuType
      /\ cpu' = [cpu EXCEPT ![c] = k]
  BY <1>1, Zenon DEF TimerCounts
<1>3. /\ ThreadOf(c) /\ lock["ptable"] # c
      /\ lock["ticks"] # c /\ cpu[c].ncli = 0 /\ ~ cpu[c].ie
      /\ cpu[c].thr = 0 => cpu[c].spc \notin {"scan", "back"}
      /\ cpu[c].thr # 0 => th[cpu[c].thr].pc \in Open
      /\ cpu[c].cr3 # 0 => state[cpu[c].cr3] \notin {"UNUSED", "EMBRYO"}
  BY <1>2, InterruptFacts, Zenon
<1>4. /\ h \in CpuType
      /\ h.thr = cpu[c].thr /\ h.cr3 = cpu[c].cr3 /\ h.spc = cpu[c].spc
      /\ h.ncli = cpu[c].ncli + 1 /\ ~ h.ie
      /\ cpu[c].ncli = 0 => (h.intena <=> cpu[c].ie)
  BY <1>2, PushFacts, Zenon
<1> HIDE DEF h
<1>5. k \in CpuType
  BY <1>4, Zenon DEF CpuType
<1>6. /\ k.thr = h.thr /\ k.cr3 = h.cr3 /\ k.irq = "wake"
      /\ k.ncli = h.ncli /\ k.spc = h.spc /\ k.ie = h.ie
      /\ k.intena = h.intena
  BY <1>4, Zenon DEF CpuType
<1> HIDE DEF k
<1>7. OnlyCpu(c) /\ cpu'[c] = k
  BY <1>1, <1>2, <1>4, <1>5, <1>6, CpuSet, Zenon
<1>8. /\ LockTo(c) /\ lock["ticks"] = 0 /\ lock'["ticks"] = c
      /\ lock'["ptable"] # c
  BY <1>1, <1>3, AcquireFacts, Zenon DEF TimerCounts
<1>9. th' = th /\ state' = state
  BY Zenon DEF TimerCounts, table
<1>10. /\ ~ cpu'[c].ie /\ ~ cpu'[c].intena /\ cpu'[c].ncli = 1
       /\ cpu'[c].thr = cpu[c].thr /\ cpu'[c].cr3 = cpu[c].cr3
       /\ cpu'[c].spc = cpu[c].spc /\ cpu'[c].irq = "wake"
  BY <1>3, <1>4, <1>6, <1>7
<1>11. LocksOf(c)' /\ FlagsOf(c)' /\ ThreadOf(c)'
  BY <1>3, <1>8, <1>9, <1>10, InterruptingCpu, Zenon
<1>12. \A q \in Procs : th[q].pc # "doze"
  <2> SUFFICES ASSUME NEW q \in Procs, th[q].pc = "doze"
               PROVE  FALSE
    BY Zenon
  <2>1. PICK d \in Cpus : cpu[d].thr = q
    BY Zenon DEF IInv, Executed
  <2>2. LocksOf(d)
    BY Zenon DEF IInv
  <2>3. lock["ticks"] = d
    BY <2>1, <2>2, Constants, Zenon DEF LocksOf, UnderTicks
  <2>4. QED
    BY <1>8, <2>3, Constants, Zenon
<1>13. Clock(c)
  BY <1>10, <1>12, Zenon DEF Clock
<1>14. ticks' \in Nat
  BY <1>1, ProcAssumption DEF TimerCounts, Types
<1>15. QED
  BY <1>1, <1>7, <1>8, <1>9, <1>11, <1>13, <1>14, CpuStep, Zenon
     DEF TimerCounts, table, Types

\* wakeup(&ticks).
LEMMA TimerWakesStep ==
  ASSUME IInv, NEW c \in Cpus, TimerWakes(c)
  PROVE  IInv'
<1> DEFINE g == Held(cpu[c])
           h == popcli(g)
           k == [h EXCEPT !.irq = "tail"]
<1>1. Types /\ lock \in [{"ptable", "ticks"} -> Cpus \cup {0}]
      /\ cpu \in [Cpus -> CpuType] /\ state \in [Procs -> States]
  BY TypeFacts, Zenon DEF Types
<1>2. /\ cpu[c].irq = "wake" /\ cpu[c] \in CpuType
      /\ cpu' = [cpu EXCEPT ![c] = k]
  BY <1>1, Zenon DEF TimerWakes
<1>3. /\ ThreadOf(c) /\ lock["ptable"] # c
      /\ lock["ticks"] = c /\ cpu[c].ncli = 1 /\ ~ cpu[c].ie /\ ~ cpu[c].intena
      /\ cpu[c].thr = 0 => cpu[c].spc \notin {"scan", "back"}
      /\ cpu[c].thr # 0 => cpu[c].thr \in Procs /\ th[cpu[c].thr].pc \in Open
      /\ cpu[c].cr3 # 0 => /\ cpu[c].cr3 \in Procs
                           /\ state[cpu[c].cr3] \notin {"UNUSED", "EMBRYO"}
  BY <1>2, InterruptFacts, Zenon
<1>4. /\ g \in CpuType
      /\ g.thr = cpu[c].thr /\ g.cr3 = cpu[c].cr3 /\ g.spc = cpu[c].spc
      /\ g.ncli = cpu[c].ncli
      /\ cpu[c].ncli # 0 => ~ g.ie /\ (g.intena <=> cpu[c].intena)
  BY <1>2, HeldFacts, Zenon
<1> HIDE DEF g
<1>5. /\ h \in CpuType
      /\ h.thr = g.thr /\ h.cr3 = g.cr3 /\ h.spc = g.spc
      /\ h.ncli = 0 /\ ~ h.ie
  BY <1>3, <1>4, PopFacts
<1> HIDE DEF h
<1>6. k \in CpuType
  BY <1>5, Zenon DEF CpuType
<1>7. /\ k.thr = h.thr /\ k.cr3 = h.cr3 /\ k.irq = "tail"
      /\ k.ncli = h.ncli /\ k.spc = h.spc /\ k.ie = h.ie
  BY <1>5, Zenon DEF CpuType
<1> HIDE DEF k
<1>8. OnlyCpu(c) /\ cpu'[c] = k
  BY <1>1, <1>2, <1>4, <1>5, <1>6, <1>7, CpuSet, Zenon
<1>9. LockTo(c) /\ lock'["ticks"] # c /\ lock'["ptable"] # c
  BY <1>1, <1>3, ReleaseFacts, Zenon DEF TimerWakes
<1>10. /\ state' \in [Procs -> States]
       /\ \A q \in Procs : \/ state'[q] = state[q]
                           \/ state[q] = "SLEEPING" /\ state'[q] = "RUNNABLE"
       /\ \A q \in Procs : state'[q] = "SLEEPING" => chan[q] # TICKS
  BY <1>1, Zenon DEF TimerWakes, Woken, States
<1>11. th' = th /\ chan' = chan
  BY Zenon DEF TimerWakes
<1>12. /\ ~ cpu'[c].ie /\ cpu'[c].ncli = 0
       /\ cpu'[c].thr = cpu[c].thr /\ cpu'[c].cr3 = cpu[c].cr3
       /\ cpu'[c].spc = cpu[c].spc /\ cpu'[c].irq = "tail"
  BY <1>4, <1>5, <1>7, <1>8, Zenon
<1>13. LocksOf(c)' /\ FlagsOf(c)' /\ ThreadOf(c)'
  <2>1. cpu[c].thr # 0 => state'[cpu[c].thr] = state[cpu[c].thr]
    <3>1. SUFFICES ASSUME cpu[c].thr # 0
                   PROVE  state[cpu[c].thr] = "RUNNING"
      BY <1>3, <1>10, Zenon
    <3>2. QED
      BY <1>3, <3>1, Zenon DEF ThreadOf, Open
  <2>2. cpu[c].cr3 # 0 => state'[cpu[c].cr3] \notin {"UNUSED", "EMBRYO"}
    BY <1>3, <1>10, Zenon
  <2>3. QED
    BY <1>3, <1>9, <1>11, <1>12, <2>1, <2>2, InterruptingCpu, Zenon
<1>14. Clock(c)
  BY <1>10, <1>11, Zenon DEF Clock, TimerWakes
<1>15. QED
  BY <1>1, <1>8, <1>9, <1>10, <1>13, <1>14, CpuStep, Zenon DEF TimerWakes,
     Types

\* trap() ends in the scheduler.
LEMMA TimerTailIdleStep ==
  ASSUME IInv, NEW c \in Cpus, TimerTail(c), cpu[c].thr = 0
  PROVE  IInv'
<1> DEFINE k == [cpu[c] EXCEPT !.irq = "none", !.ie = TRUE]
<1>1. Types /\ lock \in [{"ptable", "ticks"} -> Cpus \cup {0}]
      /\ cpu \in [Cpus -> CpuType]
  BY TypeFacts, Zenon
<1>2. /\ cpu[c].irq = "tail" /\ cpu[c] \in CpuType
      /\ cpu' = [cpu EXCEPT ![c] = k] /\ th' = th
  BY <1>1, Zenon DEF TimerTail
<1>3. /\ ThreadOf(c) /\ lock["ptable"] # c /\ lock["ticks"] # c
      /\ cpu[c].ncli = 0 /\ cpu[c].spc \notin {"scan", "back"}
  BY <1>2, InterruptFacts, Zenon
<1>4. cpu[c].cr3 = 0
  BY <1>3, Zenon DEF ThreadOf
<1>5. k \in CpuType
  BY <1>2, Zenon DEF CpuType
<1>6. /\ k.thr = cpu[c].thr /\ k.cr3 = cpu[c].cr3 /\ k.irq = "none"
      /\ k.ncli = cpu[c].ncli /\ k.spc = cpu[c].spc
  BY <1>2, Zenon DEF CpuType
<1> HIDE DEF k
<1>7. OnlyCpu(c) /\ cpu'[c] = k
  BY <1>1, <1>2, <1>5, <1>6, CpuSet, Zenon
<1>8. lock' = lock /\ LockTo(c)
  BY <1>1, LockSame, Zenon DEF TimerTail
<1>9. LocksOf(c)' /\ FlagsOf(c)' /\ ThreadOf(c)'
  BY <1>3, <1>4, <1>6, <1>7, <1>8, SchedulingCpu, Zenon
<1>10. Clock(c)
  BY <1>2, Zenon DEF Clock, TimerTail
<1>11. QED
  BY <1>1, <1>2, <1>7, <1>8, <1>9, <1>10, CpuStep, Zenon DEF TimerTail, table,
     Types

\* trap() ends in the process it interrupted.
LEMMA TimerTailStep ==
  ASSUME IInv, NEW c \in Cpus, NEW p \in Procs, TimerTail(c),
         cpu[c].thr = p
  PROVE  IInv'
<1> DEFINE k == [cpu[c] EXCEPT !.irq = "none"]
           u == IF killed[p] /\ th[p].pc = "user" THEN Thread("exit")
                ELSE [th[p] EXCEPT !.pc = "yield", !.back = th[p].pc]
<1>1. Types /\ lock \in [{"ptable", "ticks"} -> Cpus \cup {0}]
      /\ cpu \in [Cpus -> CpuType] /\ th \in [Procs -> ThreadType]
  BY TypeFacts, Zenon
<1>2. /\ cpu[c].irq = "tail" /\ cpu[c] \in CpuType
      /\ cpu' = [cpu EXCEPT ![c] = k]
      /\ th' = [th EXCEPT ![p] = u]
  BY <1>1, Constants, Zenon DEF TimerTail
<1>3. /\ ThreadOf(c) /\ lock["ptable"] # c /\ lock["ticks"] # c
      /\ cpu[c].ncli = 0 /\ ~ cpu[c].ie
      /\ p # 0 /\ th[p].pc \in Open
  BY <1>2, InterruptFacts, Constants, Zenon
<1>4. /\ cpu[c].spc = "back" /\ cpu[c].cr3 = p /\ state[p] = "RUNNING"
  BY <1>3, Zenon DEF ThreadOf, Open
<1>5. SlotOf(p) /\ th[p] \in ThreadType
  BY <1>1, <1>3, Zenon DEF IInv
<1>6. th[p].back = "none" /\ kstack[p] /\ pgdir[p]
  BY <1>3, <1>4, <1>5, Zenon DEF SlotOf, Open
<1>6a. u = IF killed[p] /\ th[p].pc = "user" THEN Thread("exit")
          ELSE [th[p] EXCEPT !.pc = "yield", !.back = th[p].pc]
  BY Zenon
<1> HIDE DEF u
<1>7. /\ u \in ThreadType
      /\ \/ u.pc = "exit" /\ u.back = "none"
         \/ u.pc = "yield" /\ u.back = th[p].pc /\ u.np = th[p].np
  <2>1. CASE killed[p] /\ th[p].pc = "user"
    BY <1>6a, <2>1, ThreadFacts, Zenon DEF Labels, Open
  <2>2. CASE ~ (killed[p] /\ th[p].pc = "user")
    <3>1. u = [th[p] EXCEPT !.pc = "yield", !.back = th[p].pc]
      BY <1>6a, <2>2, Zenon
    <3>2. "yield" \in Labels /\ th[p].pc \in Open \cup {"none"}
      BY <1>3, Zenon DEF Labels
    <3>3. u \in ThreadType
      BY <1>5, <3>1, <3>2, Zenon DEF ThreadType
    <3>4. u.pc = "yield" /\ u.back = th[p].pc /\ u.np = th[p].np
      BY <1>5, <3>1, Zenon DEF ThreadType
    <3>5. QED
      BY <3>3, <3>4, Zenon
  <2>3. QED
    BY <2>1, <2>2, Zenon
<1>8. ThTo(p) /\ th'[p] = u
  BY <1>1, <1>2, <1>3, <1>7, ThSet, Zenon
<1>9. k \in CpuType
  BY <1>2, Zenon DEF CpuType
<1>10. /\ k.thr = p /\ k.cr3 = cpu[c].cr3 /\ k.irq = "none"
       /\ k.ncli = cpu[c].ncli /\ k.spc = cpu[c].spc /\ k.ie = cpu[c].ie
  BY <1>2, Zenon DEF CpuType
<1> HIDE DEF k
<1>11. OnlyCpu(c) /\ cpu'[c] = k
  BY <1>1, <1>2, <1>9, <1>10, CpuSet, Zenon
<1>12. lock' = lock /\ LockTo(c)
  BY <1>1, LockSame, Zenon DEF TimerTail
<1>13. state' = state /\ kstack' = kstack /\ pgdir' = pgdir
  BY Zenon DEF TimerTail, table
<1>14. Fits(c, th'[p].pc, 0, cpu'[c].ie, cpu'[c].intena)
  BY <1>3, <1>7, <1>8, <1>10, <1>11, <1>12, Zenon DEF Fits, Open
<1>15. LocksOf(c)' /\ FlagsOf(c)' /\ ThreadOf(c)'
  <2>1. /\ cpu'[c].thr = p /\ cpu'[c].cr3 = p /\ cpu'[c].irq = "none"
        /\ cpu'[c].spc = "back" /\ cpu'[c].ncli = 0
    BY <1>3, <1>4, <1>10, <1>11, Zenon
  <2>2. state'[p] = "RUNNING"
    BY <1>4, <1>13, Zenon
  <2>3. QED
    BY <1>3, <1>14, <2>1, <2>2, FitsCpu, Zenon
<1>16. GoesOn(p)
  <2>1. SlotOf(p)'
    <3>1. th'[p].back # "none" <=> th'[p].pc \in {"yield", "yielded", "iret"}
      BY <1>3, <1>7, <1>8, Zenon DEF Open
    <3>2. state'[p] = "RUNNING" /\ kstack'[p] /\ pgdir'[p]
      BY <1>4, <1>6, <1>13, Zenon
    <3>3. QED
      BY <1>3, <1>14, <3>1, <3>2, FittingSlot, Zenon
  <2>2. Executed(p)'
    BY <1>10, <1>11, Zenon DEF Executed
  <2>3. Forking(p)' => /\ Forking(p) /\ Place(p)' = Place(p)
                       /\ th'[p].np = th[p].np
    BY <1>3, <1>6, <1>7, <1>8, Zenon DEF Forking, Place, Open
  <2>4. th'[p].pc = "doze" => ~ Elapsed(p)'
    BY <1>7, <1>8, Zenon
  <2>5. NoLost(p)'
    BY <1>4, <1>13, Zenon DEF NoLost
  <2>6. QED
    BY <2>1, <2>2, <2>3, <2>4, <2>5, Zenon DEF GoesOn
<1>17. Quiet(c, {p})
  <2>1. \A q \in Procs \ {p} : Kept(q)
    BY <1>8, <1>13, Zenon DEF Kept, ThTo
  <2>2. UNCHANGED <<parent, chan, kstack, pgdir>>
    BY Zenon DEF TimerTail, table
  <2>3. QED
    BY <1>11, <1>12, <1>13, <2>1, <2>2, Zenon DEF Quiet, OnlyCpu
<1>18. Clock(c)
  BY <1>2, Zenon DEF Clock, TimerTail
<1>19. Types'
  BY <1>1, <1>8, <1>11, <1>12, Zenon DEF Types, TimerTail, table, ThTo, OnlyCpu
<1>20. QED
  BY <1>15, <1>16, <1>17, <1>18, <1>19, QuietStep

\* swtch() to the scheduler.
LEMMA SchedOutStep ==
  ASSUME IInv, NEW c \in Cpus, NEW p \in Procs, SchedOut(c, p)
  PROVE  IInv'
<1> DEFINE k == [cpu[c] EXCEPT !.thr = 0]
           t == [th[p] EXCEPT !.pc = "resume", !.intena = cpu[c].intena]
<1>1. Runs(c, p, "sched")
  BY Zenon DEF SchedOut
<1>2. Types /\ lock \in [{"ptable", "ticks"} -> Cpus \cup {0}]
      /\ cpu \in [Cpus -> CpuType] /\ th \in [Procs -> ThreadType]
  BY TypeFacts, Zenon
<1>3. /\ SlotOf(p) /\ FlagsOf(c) /\ p # 0 /\ cpu[c].thr = p
      /\ cpu[c].irq = "none" /\ th[p].pc = "sched" /\ cpu[c].spc = "back"
      /\ cpu[c].cr3 = p
  BY <1>1, RunsFacts, Zenon
<1>4. /\ cpu[c].ncli = 1 /\ ~ cpu[c].ie
      /\ lock["ptable"] = c /\ lock["ticks"] # c
  BY <1>1, AtPtable, Zenon DEF UnderPtable
<1>5. /\ cpu[c] \in CpuType /\ cpu' = [cpu EXCEPT ![c] = k]
      /\ th[p] \in ThreadType /\ th' = [th EXCEPT ![p] = t]
  BY <1>2, Zenon DEF SchedOut
<1>6. k \in CpuType
  BY <1>5, Zenon DEF CpuType
<1>7. /\ k.thr = 0 /\ k.cr3 = cpu[c].cr3 /\ k.irq = cpu[c].irq
      /\ k.ncli = cpu[c].ncli /\ k.spc = cpu[c].spc /\ k.ie = cpu[c].ie
  BY <1>5, Zenon DEF CpuType
<1>8. t \in ThreadType
  <2>1. "resume" \in Labels /\ cpu[c].intena \in BOOLEAN
    BY <1>5, Zenon DEF Labels, UnderPtable, CpuType
  <2>2. QED
    BY <1>5, <2>1, Zenon DEF ThreadType
<1>9. /\ t.pc = "resume" /\ t.ret = th[p].ret /\ t.intena = cpu[c].intena
      /\ t.back = th[p].back /\ t.np = th[p].np /\ t.arg = th[p].arg
      /\ t.t0 = th[p].t0
  BY <1>5, Zenon DEF ThreadType
<1> HIDE DEF k, t
<1>10. ThTo(p) /\ th'[p] = t
  BY <1>2, <1>5, <1>8, ThSet, Zenon
<1>11. /\ cpu' \in [Cpus -> CpuType] /\ cpu'[c] = k
       /\ \A d \in Cpus \ {c} : cpu'[d] = cpu[d]
  BY <1>2, <1>5, <1>6, Zenon
<1>12. lock' = lock /\ LockTo(c)
  BY <1>2, LockSame, Zenon DEF SchedOut
<1>13. state' = state /\ kstack' = kstack /\ pgdir' = pgdir /\ chan' = chan
       /\ parent' = parent /\ ticks' = ticks
  BY Zenon DEF SchedOut, table
<1>14. state[p] \in {"RUNNABLE", "SLEEPING", "ZOMBIE"}
  BY <1>3, Zenon DEF SlotOf
<1>15. LocksOf(c)' /\ FlagsOf(c)' /\ ThreadOf(c)'
  BY <1>3, <1>4, <1>7, <1>11, <1>12, <1>13, <1>14, SchedulingCpu
<1>16. GoesOn(p)
  <2>1. SlotOf(p)'
    <3>1. /\ th[p].ret \in {"woken", "rise"} => cpu[c].intena
          /\ th[p].ret = "yielded" => ~ cpu[c].intena
      BY <1>3, Zenon DEF FlagsOf
    <3>2. QED
      BY <1>3, <1>9, <1>10, <1>13, <1>14, <3>1, Zenon DEF SlotOf
  <2>2. Executed(p)'
    BY <1>9, <1>10, <1>13, <1>14, Zenon DEF Executed
  <2>3. Forking(p)' => /\ Forking(p) /\ Place(p)' = Place(p)
                       /\ th'[p].np = th[p].np
    BY <1>9, <1>10, Zenon DEF Forking, Place
  <2>4. th'[p].pc = "doze" => ~ Elapsed(p)'
    BY <1>9, <1>10, Zenon
  <2>5. NoLost(p)'
    <3>1. NoLost(p)
      BY Zenon DEF IInv, NoLostWakeup, NoLost
    <3>2. Elapsed(p)' <=> Elapsed(p)
      BY <1>9, <1>10, <1>13, Zenon DEF Elapsed
    <3>3. ZombieKids(p)' = ZombieKids(p)
      BY <1>13, Zenon DEF ZombieKids, Kids
    <3>4. \A d \in Cpus : cpu'[d].irq = cpu[d].irq
      BY <1>7, <1>11, Zenon
    <3>5. QED
      BY <1>13, <3>1, <3>2, <3>3, <3>4, Zenon DEF NoLost
  <2>6. QED
    BY <2>1, <2>2, <2>3, <2>4, <2>5, Zenon DEF GoesOn
<1>17. Quiet(c, {p})
  <2>1. \A q \in Procs \ {p} : Kept(q)
    BY <1>10, <1>13, Zenon DEF Kept, ThTo
  <2>2. QED
    BY <1>3, <1>7, <1>11, <1>12, <1>13, <2>1, Zenon DEF Quiet
<1>18. Clock(c)
  BY <1>3, <1>13, Zenon DEF Clock
<1>19. Types'
  BY <1>2, <1>10, <1>11, <1>12, Zenon DEF Types, SchedOut, table, ThTo
<1>20. QED
  BY <1>3, <1>15, <1>16, <1>17, <1>18, <1>19, QuietStep

(***************************************************************************)
(* Steps to sched().                                                       *)
(***************************************************************************)
\* A process that has left the state RUNNING calls sched(), to go on at r.
LEMMA SchedCpu ==
  ASSUME NEW c \in Cpus, NEW p \in Procs, NEW i,
         cpu'[c].thr = p, cpu'[c].cr3 = p, cpu'[c].irq = "none",
         cpu'[c].spc = "back", cpu'[c].ncli = 1, ~ cpu'[c].ie,
         cpu'[c].intena <=> i,
         lock'["ptable"] = c, lock'["ticks"] # c,
         th'[p].pc = "sched", state'[p] \in {"RUNNABLE", "SLEEPING", "ZOMBIE"},
         th'[p].ret \in {"woken", "rise"} => i,
         th'[p].ret = "yielded" => ~ i
  PROVE  LocksOf(c)' /\ FlagsOf(c)' /\ ThreadOf(c)'
<1>1. p # 0
  BY Constants, Zenon
<1>2. LocksOf(c)'
  BY <1>1, Zenon DEF LocksOf, UnderPtable, UnderTicks
<1>3. FlagsOf(c)'
  BY <1>1, Zenon DEF FlagsOf, Open
<1>4. ThreadOf(c)'
  BY <1>1, Zenon DEF ThreadOf
<1>5. QED
  BY <1>2, <1>3, <1>4, Zenon

\* p leaves the state RUNNING, and its channel may change.
Leaves(p) ==
  /\ UNCHANGED <<halt, pid, parent, killed, kstack, pgdir, nextpid, ticks>>
  /\ chan' \in [Procs -> Procs \cup {0, TICKS}]
  /\ state' \in [Procs -> States] /\ state'[p] \in {"RUNNABLE", "SLEEPING"}
  /\ \A q \in Procs \ {p} : chan'[q] = chan[q] /\ state'[q] = state[q]

\* Such a step preserves the invariant if no wakeup of p is lost.
LEMMA StopsRunning ==
  ASSUME IInv, NEW c \in Cpus, NEW p \in Procs, NEW l, NEW i,
         Runs(c, p, l), l # "sched",
         CpuTo(c, 1, FALSE, i), ThTo(p), LockTo(c), Leaves(p),
         lock'["ptable"] = c, lock'["ticks"] # c,
         th'[p].pc = "sched", th'[p].ret \in {"woken", "rise", "yielded"},
         state'[p] = "SLEEPING" => th'[p].ret # "yielded",
         i <=> th'[p].ret # "yielded",
         th'[p].back = th[p].back, th'[p].np = th[p].np,
         th'[p].back # "none" <=> th'[p].ret = "yielded",
         NoLost(p)'
  PROVE  IInv'
<1>1. /\ SlotOf(p) /\ cpu[c].thr = p /\ cpu[c].irq = "none"
      /\ cpu[c].spc = "back" /\ cpu[c].cr3 = p /\ state[p] = "RUNNING"
  BY RunsFacts
<1>2. Types'
  BY Zenon DEF IInv, Types, CpuTo, ThTo, LockTo, Leaves
<1>3. /\ cpu'[c].thr = p /\ cpu'[c].cr3 = p /\ cpu'[c].irq = "none"
      /\ cpu'[c].spc = "back" /\ cpu'[c].ncli = 1 /\ ~ cpu'[c].ie
      /\ cpu'[c].intena <=> i
  BY <1>1, Zenon DEF CpuTo
<1>4. state'[p] \in {"RUNNABLE", "SLEEPING"}
  BY Zenon DEF Leaves
<1>5. LocksOf(c)' /\ FlagsOf(c)' /\ ThreadOf(c)'
  BY <1>3, <1>4, SchedCpu, Zenon
<1>6. SlotOf(p)'
  <2>1. kstack'[p] /\ pgdir'[p]
    BY <1>1, Zenon DEF SlotOf, Leaves
  <2>2. QED
    BY <1>4, <2>1, Zenon DEF SlotOf
<1>7. Executed(p)'
  BY <1>3, Zenon DEF Executed
<1>8. Forking(p)' => Forking(p) /\ Place(p)' = Place(p)
  BY Zenon DEF Forking, Place
<1>9. GoesOn(p)
  BY <1>6, <1>7, <1>8, Zenon DEF GoesOn
<1>10. Quiet(c, {p})
  <2>1. \A q \in Procs \ {p} : Kept(q) /\ chan'[q] = chan[q]
    BY Zenon DEF Kept, ThTo, Leaves
  <2>2. \A q \in Procs : \/ state'[q] = state[q]
                         \/ state[q] \in Live /\ state'[q] \in Live
    BY <1>1, Zenon DEF Leaves, Live
  <2>3. \A d \in Cpus \ {c} : /\ cpu'[d] = cpu[d]
                              /\ lock'["ptable"] = d <=> lock["ptable"] = d
                              /\ lock'["ticks"] = d <=> lock["ticks"] = d
    BY Zenon DEF CpuTo, LockTo
  <2>4. UNCHANGED <<parent, kstack, pgdir>>
    BY Zenon DEF Leaves
  <2>5. QED
    BY <1>1, <1>3, <2>1, <2>2, <2>3, <2>4, Zenon DEF Quiet
<1>11. Clock(c)
  BY <1>1, Zenon DEF Clock, Leaves
<1>12. QED
  BY <1>1, <1>2, <1>5, <1>9, <1>10, <1>11, QuietStep

\* yield() up to sched().
LEMMA YieldStep ==
  ASSUME IInv, NEW c \in Cpus, NEW p \in Procs, Yield(c, p)
  PROVE  IInv'
<1>1. Runs(c, p, "yield")
  BY Zenon DEF Yield
<1>2. /\ Types
      /\ lock \in [{"ptable", "ticks"} -> Cpus \cup {0}]
      /\ cpu \in [Cpus -> CpuType] /\ th \in [Procs -> ThreadType]
  BY TypeFacts, Zenon
<1>3. /\ cpu[c].ncli = 0 /\ ~ cpu[c].ie
      /\ lock["ptable"] # c /\ lock["ticks"] # c /\ th[p].back # "none"
  BY <1>1, AtTrap, Zenon
<1>4. CpuTo(c, 1, FALSE, cpu[c].ie)
  BY <1>2, <1>3, CpuPush, Zenon DEF Yield
<1>5. /\ ThTo(p) /\ th'[p].pc = "sched" /\ th'[p].ret = "yielded"
      /\ th'[p].back = th[p].back /\ th'[p].np = th[p].np
  BY <1>2, SchedFacts, Zenon DEF Yield
<1>6. LockTo(c) /\ lock'["ptable"] = c /\ lock'["ticks"] # c
  BY <1>2, <1>3, AcquireFacts, Zenon DEF Yield
<1>7. Leaves(p) /\ state'[p] = "RUNNABLE"
  BY <1>2, Zenon DEF Yield, Leaves, Types, States
<1>8. NoLost(p)'
  BY <1>7, Zenon DEF NoLost
<1>9. QED
  BY <1>1, <1>3, <1>4, <1>5, <1>6, <1>7, <1>8, StopsRunning, Zenon

\* wait() goes to sleep: under ptable.lock there is no zombie child.
LEMMA WaitSleepsStep ==
  ASSUME IInv, NEW c \in Cpus, NEW p \in Procs, WaitSleeps(c, p)
  PROVE  IInv'
<1>1. Runs(c, p, "scan")
  BY Zenon DEF WaitSleeps
<1>2. /\ Types
      /\ lock \in [{"ptable", "ticks"} -> Cpus \cup {0}]
      /\ cpu \in [Cpus -> CpuType] /\ th \in [Procs -> ThreadType]
  BY TypeFacts, Zenon
<1>3. /\ cpu[c].ncli = 1 /\ ~ cpu[c].ie /\ cpu[c].intena
      /\ lock["ptable"] = c /\ lock["ticks"] # c /\ th[p].back = "none"
  BY <1>1, AtPtable, Zenon DEF UnderPtable
<1>4. CpuTo(c, 1, FALSE, cpu[c].intena)
  <2>1. CpuTo(c, 1, cpu[c].ie, cpu[c].intena)
    BY <1>2, <1>3, CpuSame, Zenon DEF WaitSleeps
  <2>2. QED
    BY <1>3, <2>1, Zenon DEF CpuTo
<1>5. /\ ThTo(p) /\ th'[p].pc = "sched" /\ th'[p].ret = "woken"
      /\ th'[p].back = th[p].back /\ th'[p].np = th[p].np
  BY <1>2, SchedFacts, Zenon DEF WaitSleeps
<1>6. LockTo(c) /\ lock' = lock
  BY <1>2, LockSame, Zenon DEF WaitSleeps
<1>7. Leaves(p) /\ chan'[p] = p /\ state'[p] = "SLEEPING"
  BY <1>2, Zenon DEF WaitSleeps, Leaves, Types, States
<1>8. NoLost(p)'
  <2>1. state[p] = "RUNNING"
    BY <1>1, RunsFacts
  <2>2. ZombieKids(p)' = {}
    BY <2>1, <1>7, Zenon DEF WaitSleeps, ZombieKids, Kids, Leaves
  <2>3. QED
    BY <1>7, <2>2, Constants, Zenon DEF NoLost
<1>9. QED
  BY <1>1, <1>3, <1>4, <1>5, <1>6, <1>7, <1>8, StopsRunning, Zenon

\* sys_sleep() goes to sleep: its time has not come.
LEMMA NapSleepsStep ==
  ASSUME IInv, NEW c \in Cpus, NEW p \in Procs, NapSleeps(c, p)
  PROVE  IInv'
<1>1. Runs(c, p, "doze")
  BY Zenon DEF NapSleeps
<1>2. /\ Types
      /\ lock \in [{"ptable", "ticks"} -> Cpus \cup {0}]
      /\ cpu \in [Cpus -> CpuType] /\ th \in [Procs -> ThreadType]
  BY TypeFacts, Zenon
<1>3. /\ cpu[c].ncli = 1 /\ ~ cpu[c].ie /\ cpu[c].intena
      /\ lock["ptable"] # c /\ lock["ticks"] = c /\ th[p].back = "none"
  BY <1>1, AtTicks, Zenon DEF UnderTicks
<1>4. CpuTo(c, 1, FALSE, TRUE)
  <2>1. /\ cpu[c] \in CpuType /\ cpu'[c] = Held(cpu[c])
        /\ \A d \in Cpus \ {c} : cpu'[d] = cpu[d]
    BY <1>2, Zenon DEF NapSleeps, Held
  <2>2. cpu' = [cpu EXCEPT ![c] = Held(cpu[c])]
    BY <1>2, Zenon DEF NapSleeps, Held
  <2>3. /\ Held(cpu[c]) \in CpuType
        /\ Held(cpu[c]).thr = cpu[c].thr /\ Held(cpu[c]).cr3 = cpu[c].cr3
        /\ Held(cpu[c]).irq = cpu[c].irq /\ Held(cpu[c]).spc = cpu[c].spc
        /\ Held(cpu[c]).ncli = cpu[c].ncli
        /\ cpu[c].ncli # 0 => /\ ~ Held(cpu[c]).ie
                              /\ Held(cpu[c]).intena <=> cpu[c].intena
    BY <2>1, HeldFacts, Zenon
  <2>4. cpu' \in [Cpus -> CpuType]
    BY <1>2, <2>2, <2>3, Zenon
  <2>5. QED
    BY <1>3, <2>1, <2>3, <2>4 DEF CpuTo
<1>5. /\ ThTo(p) /\ th'[p].pc = "sched" /\ th'[p].ret = "rise"
      /\ th'[p].back = th[p].back /\ th'[p].np = th[p].np
      /\ th'[p].arg = th[p].arg /\ th'[p].t0 = th[p].t0
  BY <1>2, SchedFacts, Zenon DEF NapSleeps
<1>6. LockTo(c) /\ lock'["ptable"] = c /\ lock'["ticks"] # c
  BY <1>2, <1>3, Constants, Zenon DEF NapSleeps, Free, LockTo
<1>7. Leaves(p) /\ chan'[p] = TICKS /\ state'[p] = "SLEEPING"
  BY <1>2, Zenon DEF NapSleeps, Leaves, Types, States
<1>8. NoLost(p)'
  <2>1. ~ Elapsed(p) /\ ticks' = ticks
    BY <1>1, Zenon DEF IInv, Dozing, Runs, NapSleeps
  <2>2. ~ Elapsed(p)'
    BY <1>5, <2>1, Zenon DEF Elapsed
  <2>3. QED
    BY <1>7, <2>2, Constants, Zenon DEF NoLost
<1>9. QED
  BY <1>1, <1>3, <1>4, <1>5, <1>6, <1>7, <1>8, StopsRunning, Zenon

\* q is the process kill() finds.
LEMMA KillStep ==
  ASSUME IInv, NEW c \in Cpus, NEW p \in Procs, Kill(c, p),
         {q \in Procs : pid[q] = th[p].arg} # {} =>
           First({q \in Procs : pid[q] = th[p].arg}) \in Procs
  PROVE  IInv'
<1>1. Runs(c, p, "kill")
  BY Zenon DEF Kill
<1>2. /\ Types
      /\ lock \in [{"ptable", "ticks"} -> Cpus \cup {0}]
      /\ cpu \in [Cpus -> CpuType] /\ th \in [Procs -> ThreadType]
  BY TypeFacts, Zenon
<1>3. /\ cpu[c].ncli = 0 /\ cpu[c].ie
      /\ lock["ptable"] # c /\ lock["ticks"] # c
  BY <1>1, AtOpen, Zenon DEF Open
<1>4. CpuTo(c, 0, cpu[c].ie, cpu'[c].intena)
  BY <1>2, <1>3, CpuHeld, Zenon DEF Kill
<1>5. ThTo(p) /\ th'[p].pc = "sysret" /\ th'[p].back = "none"
  BY <1>2, ReturnFacts, Zenon DEF Kill
<1>6. LockTo(c) /\ lock' = lock
  BY <1>2, LockSame, Zenon DEF Kill
<1>7. Stays(p)
  <2>1. /\ UNCHANGED <<halt, pid, parent, kstack, pgdir, nextpid, ticks>>
        /\ chan' = chan /\ chan \in [Procs -> Procs \cup {0, TICKS}]
        /\ state \in [Procs -> States] /\ killed \in [Procs -> BOOLEAN]
        /\ state[p] = "RUNNING"
    BY <1>1, <1>2, RunsFacts DEF Kill, Types
  <2>2. CASE {q \in Procs : pid[q] = th[p].arg} = {}
    BY <2>1, <2>2, Zenon DEF Kill, Stays
  <2>3. CASE {q \in Procs : pid[q] = th[p].arg} # {}
    <3>1. PICK r \in Procs :
            /\ killed' = [killed EXCEPT ![r] = TRUE]
            /\ state' = [state EXCEPT ![r] = IF @ = "SLEEPING"
                                             THEN "RUNNABLE" ELSE @]
      BY <2>3, Zenon DEF Kill
    <3>2. killed' \in [Procs -> BOOLEAN] /\ state' \in [Procs -> States]
      BY <2>1, <3>1, Zenon DEF States
    <3>3. QED
      BY <2>1, <3>1, <3>2, Zenon DEF Stays
  <2>4. QED
    BY <2>2, <2>3, Zenon
<1>8. Fits(c, th'[p].pc, 0, cpu[c].ie, cpu'[c].intena)
  BY <1>3, <1>5, <1>6, Zenon DEF Fits, Open
<1>9. QED
  BY <1>1, <1>4, <1>5, <1>6, <1>7, <1>8, PlainStep, Zenon

(***************************************************************************)
(* fork().                                                                 *)
(***************************************************************************)
\* No CPU is on the stack or the page table of a slot that is not in use.
LEMMA NotExecuted ==
  ASSUME IInv, NEW r \in Procs, state[r] \in {"UNUSED", "EMBRYO"}
  PROVE  \A d \in Cpus : cpu[d].thr # r /\ cpu[d].cr3 # r
<1> SUFFICES ASSUME NEW d \in Cpus
             PROVE  cpu[d].thr # r /\ cpu[d].cr3 # r
  BY Zenon
<1>1. ThreadOf(d)
  BY Zenon DEF IInv
<1>2. cpu[d].cr3 # r
  BY <1>1, Constants, Zenon DEF ThreadOf
<1>3. QED
  BY <1>1, <1>2, Constants, Zenon DEF ThreadOf

\* fork() of p has taken the slot np.
LEMMA ForkFacts ==
  ASSUME IInv, NEW c \in Cpus, NEW p \in Procs, NEW np,
         NEW l \in {"kstack", "copyuvm", "runnable"}, Runs(c, p, l),
         th[p].np = np
  PROVE  /\ np \in Procs /\ state[np] = "EMBRYO"
         /\ kstack[np] <=> l # "kstack"
         /\ pgdir[np] <=> l = "runnable"
         /\ th[np].pc = IF l = "runnable" THEN "forkret" ELSE "none"
         /\ th[np].back = "none"
         /\ l = "runnable" => parent[np] = p
         /\ \A q \in Procs \ {p} : Forking(q) => th[q].np # np
<1>1. th[p].pc = l /\ th[p].back = "none"
  BY RunsFacts, AtOpen DEF Open
<1>2. Place(p) = l /\ Forking(p)
  BY <1>1, Zenon DEF Place, Forking
<1>3. /\ ChildOf(p)
      /\ \A q \in Procs \ {p} : Forking(q) => th[q].np # np
  BY <1>2, Zenon DEF IInv, ForkOf
<1>4. /\ np \in Procs /\ state[np] = "EMBRYO"
      /\ kstack[np] <=> l # "kstack"
      /\ pgdir[np] <=> l = "runnable"
      /\ th[np].pc = IF l = "runnable" THEN "forkret" ELSE "none"
      /\ l = "runnable" => parent[np] = p
  BY <1>2, <1>3, Zenon DEF ChildOf
<1>5. SlotOf(np)
  BY <1>4, Zenon DEF IInv
<1>6. th[np].back = "none"
  BY <1>4, <1>5, Zenon DEF SlotOf
<1>7. QED
  BY <1>3, <1>4, <1>6, Zenon

\* p goes on in fork() and changes the slot np, which nobody executes.
Forks(p, np) ==
  /\ UNCHANGED <<chan, ticks>>
  /\ state'[p] = state[p] /\ kstack'[p] = kstack[p] /\ pgdir'[p] = pgdir[p]
  /\ \A q \in Procs \ {p, np} : /\ th'[q] = th[q] /\ state'[q] = state[q]
                                /\ kstack'[q] = kstack[q] /\ pgdir'[q] = pgdir[q]
  /\ \A q \in Procs \ {np} : parent'[q] = parent[q]
  /\ parent'[np] = parent[np] \/ parent'[np] = p
  /\ th'[np].pc \in {"none", "forkret"}
  /\ state'[np] \in {"UNUSED", "EMBRYO", "RUNNABLE"}
  /\ state'[np] = "RUNNABLE" => parent'[np] = p

\* Such a step preserves the invariant if it is right about np.
LEMMA ForkStep ==
  ASSUME IInv, Types', NEW c \in Cpus, NEW p \in Procs, NEW np \in Procs,
         NEW l \in {"fork", "kstack", "copyuvm", "runnable"}, Runs(c, p, l),
         NEW e, NEW i, CpuTo(c, 0, e, i), e, lock' = lock, Forks(p, np),
         state[np] \in {"UNUSED", "EMBRYO"},
         \A q \in Procs \ {p} : Forking(q) => th[q].np # np,
         th'[p].pc \in {"sysret", "kstack", "copyuvm", "runnable"},
         th'[p].back = "none", SlotOf(np)',
         Forking(p)' => ChildOf(p)' /\ th'[p].np = np
  PROVE  IInv'
<1>1. /\ SlotOf(p) /\ p # 0 /\ cpu[c].thr = p /\ cpu[c].irq = "none"
      /\ cpu[c].spc = "back" /\ cpu[c].cr3 = p /\ state[p] = "RUNNING"
  BY RunsFacts, ZenonT(30)
<1>2. /\ cpu[c].ncli = 0 /\ cpu[c].ie /\ lock["ptable"] # c
      /\ lock["ticks"] # c
  BY AtOpen DEF Open
<1>3. p # np /\ state'[p] = "RUNNING" /\ kstack'[p] /\ pgdir'[p]
  <2>1. kstack[p] /\ pgdir[p]
    BY <1>1, Zenon DEF SlotOf
  <2>2. QED
    BY <1>1, <2>1, Zenon DEF Forks
<1>4. Fits(c, th'[p].pc, 0, cpu'[c].ie, cpu'[c].intena)
  <2>1. cpu'[c].ie
    BY Zenon DEF CpuTo
  <2>2. QED
    BY <1>2, <2>1, Zenon DEF Fits, Open
<1>5. LocksOf(c)' /\ FlagsOf(c)' /\ ThreadOf(c)'
  <2>1. /\ cpu'[c].thr = p /\ cpu'[c].cr3 = p /\ cpu'[c].irq = "none"
        /\ cpu'[c].spc = "back" /\ cpu'[c].ncli = 0
    BY <1>1, Zenon DEF CpuTo
  <2>2. QED
    BY <1>3, <1>4, <2>1, FitsCpu, Zenon
<1>6. \A d \in Cpus : cpu[d].thr # np /\ cpu[d].cr3 # np
  BY NotExecuted, Zenon
<1>7. \A q \in Procs \ {p, np} : Kept(q)
  BY Zenon DEF Forks, Kept
<1>8. Local(c, {p, np})
  <2>1. \A d \in Cpus \ {c} : cpu[d].thr # 0 => cpu[d].thr # p
    BY <1>1, Zenon DEF IInv, OneThread
  <2>2. \A d \in Cpus \ {c} : cpu[d].cr3 \in {p, np} =>
          state'[cpu[d].cr3] \notin {"UNUSED", "EMBRYO"}
    BY <1>3, <1>6, Zenon
  <2>3. QED
    BY <1>6, <1>7, <2>1, <2>2, Zenon DEF Local, CpuTo
<1>9. \A d \in Cpus : LocksOf(d)' /\ FlagsOf(d)' /\ ThreadOf(d)'
  BY <1>5, <1>8, AllCpus, Zenon
<1>10. \A d \in Cpus : cpu'[d].thr = cpu[d].thr /\ cpu'[d].irq = cpu[d].irq
  BY Zenon DEF CpuTo
<1>11. OneThread'
  BY <1>10 DEF IInv, OneThread
<1>12. \A q \in Procs : SlotOf(q)' /\ Executed(q)'
  <2>1. SlotOf(p)'
    BY <1>3, <1>4, FittingSlot, Zenon
  <2>2. Executed(p)'
    BY <1>1, <1>10, Zenon DEF Executed
  <2>3. Executed(np)'
    BY Zenon DEF Executed, Forks
  <2>4. QED
    BY <1>8, <1>10, <2>1, <2>2, <2>3, AllSlots, Zenon
<1>13. \A q \in Procs : ForkOf(q)'
  <2>1. ~ Forking(np)'
    <3>1. th'[np].back = "none"
      BY Zenon DEF SlotOf, Forks
    <3>2. QED
      BY <3>1, Zenon DEF Forking, Place, Forks
  <2>2. ASSUME NEW q \in Procs \ {p}, Forking(q)'
        PROVE  /\ Forking(q) /\ Place(q)' = Place(q) /\ th'[q].np = th[q].np
               /\ th[q].np \notin {p, np}
               /\ parent'[th[q].np] = parent[th[q].np]
    <3>1. th'[q] = th[q]
      BY <2>1, <2>2, Zenon DEF Forks
    <3>2. Forking(q) /\ Place(q)' = Place(q) /\ th'[q].np = th[q].np
      BY <2>2, <3>1, Zenon DEF Forking, Place
    <3>3. th[q].np \in Procs /\ state[th[q].np] = "EMBRYO"
      BY <3>2, Zenon DEF IInv, ForkOf, ChildOf
    <3>4. th[q].np # np /\ th[q].np # p
      BY <1>1, <3>2, <3>3, Zenon
    <3>5. QED
      BY <3>2, <3>3, <3>4, Zenon DEF Forks
  <2>3. QED
    BY <1>8, <2>2, AllForks
<1>14. InitLives'
  <2>1. InitLives /\ initproc \in Procs
    BY Constants, Zenon DEF IInv
  <2>2. initproc # np
    BY <2>1, Zenon DEF InitLives, Live
  <2>3. state'[initproc] = state[initproc] /\ parent'[initproc] = parent[initproc]
    BY <2>1, <2>2, Zenon DEF Forks
  <2>4. \A q \in Procs : parent'[q] # q
    BY <1>3, <2>1 DEF InitLives, Forks
  <2>5. QED
    BY <2>1, <2>3, <2>4, Zenon DEF InitLives
<1>15. ParentLives'
  <2> SUFFICES ASSUME NEW q \in Procs \ {initproc},
                      state'[q] \notin {"UNUSED", "EMBRYO"}
               PROVE  parent'[q] # 0 /\ state'[parent'[q]] \in Live
    BY Zenon DEF ParentLives, Live
  <2>1. CASE q = np
    BY <1>1, <1>3, <2>1, Zenon DEF Forks, Live
  <2>2. CASE q # np
    <3>1. state[q] \notin {"UNUSED", "EMBRYO"} /\ parent'[q] = parent[q]
      BY <1>1, <2>2, Zenon DEF Forks
    <3>2. parent[q] # 0 /\ state[parent[q]] \in Live /\ parent[q] \in Procs
      BY <3>1, Zenon DEF IInv, ParentLives, Live, Types
    <3>3. parent[q] # np /\ state'[parent[q]] = state[parent[q]]
      BY <3>2, Zenon DEF Forks, Live
    <3>4. QED
      BY <3>1, <3>2, <3>3, Zenon
  <2>3. QED
    BY <2>1, <2>2, Zenon
<1>16. Dozing'
  <2> SUFFICES ASSUME NEW q \in Procs, th'[q].pc = "doze"
               PROVE  ~ Elapsed(q)'
    BY Zenon DEF Dozing
  <2>1. th'[q] = th[q] /\ ticks' = ticks
    BY Zenon DEF Forks
  <2>2. ~ Elapsed(q)
    BY <2>1, Zenon DEF IInv, Dozing
  <2>3. QED
    BY <2>1, <2>2, Zenon DEF Elapsed
<1>17. NoLostWakeup'
  <2> SUFFICES ASSUME NEW q \in Procs, state'[q] = "SLEEPING"
               PROVE  NoLost(q)'
    BY Zenon DEF NoLostWakeup, NoLost
  <2>1. th'[q] = th[q] /\ state[q] = "SLEEPING" /\ chan' = chan /\ ticks' = ticks
    BY <1>3, Zenon DEF Forks
  <2>2. NoLost(q)
    BY Zenon DEF IInv, NoLostWakeup, NoLost
  <2>3. Elapsed(q)' <=> Elapsed(q)
    BY <2>1, Zenon DEF Elapsed
  <2>4. ZombieKids(q)' \subseteq ZombieKids(q)
    BY <1>3, Zenon DEF Forks, ZombieKids, Kids
  <2>5. QED
    BY <1>10, <2>1, <2>2, <2>3, <2>4, Zenon DEF NoLost
<1>18. QED
  BY <1>9, <1>11, <1>12, <1>13, <1>14, <1>15, <1>16, <1>17, Zenon DEF IInv

\* allocproc() finds the slot np.
LEMMA ForkAllocStep ==
  ASSUME IInv, NEW c \in Cpus, NEW p \in Procs, ForkAlloc(c, p),
         NEW np \in Procs, state[np] = "UNUSED",
         np = First({q \in Procs : state[q] = "UNUSED"})
  PROVE  IInv'
<1> DEFINE t == [th[p] EXCEPT !.pc = "kstack", !.np = np]
<1>1. Runs(c, p, "fork")
  BY Zenon DEF ForkAlloc
<1>2. /\ Types /\ cpu \in [Cpus -> CpuType] /\ th \in [Procs -> ThreadType]
  BY TypeFacts, Zenon
<1>3. /\ cpu[c].ncli = 0 /\ cpu[c].ie /\ th[p].back = "none"
      /\ state[p] = "RUNNING"
  BY <1>1, AtOpen, RunsFacts DEF Open
<1>4. CpuTo(c, 0, cpu[c].ie, cpu'[c].intena)
  BY <1>2, <1>3, CpuHeld, Zenon DEF ForkAlloc
<1>5. /\ state' = [state EXCEPT ![np] = "EMBRYO"]
      /\ pid' = [pid EXCEPT ![np] = nextpid]
      /\ nextpid' = nextpid + 1
      /\ th' = [th EXCEPT ![p] = t]
      /\ UNCHANGED <<halt, lock, parent, chan, killed, kstack, pgdir, ticks>>
  <2>1. np \in {q \in Procs : state[q] = "UNUSED"}
    BY Zenon
  <2>2. {q \in Procs : state[q] = "UNUSED"} # {}
    BY <2>1, Zenon
  <2>3. th' = [th EXCEPT ![p].pc = "kstack", ![p].np = np]
    BY <2>2, Zenon DEF ForkAlloc
  <2>4. th' = [th EXCEPT ![p] = t]
    BY <1>2, <2>3, Zenon
  <2>5. QED
    BY <2>2, <2>4, Zenon DEF ForkAlloc
<1>6. th[p] \in ThreadType
  BY <1>2, Zenon
<1>7. t \in ThreadType
  <2>1. "kstack" \in Labels
    BY Zenon DEF Labels, Open
  <2>2. QED
    BY <1>6, <2>1, Zenon DEF ThreadType
<1>8. t.pc = "kstack" /\ t.np = np /\ t.back = th[p].back
  BY <1>6, Zenon DEF ThreadType
<1> HIDE DEF t
<1>9. ThTo(p) /\ th'[p] = t
  BY <1>2, <1>5, <1>7, ThSet, Zenon
<1>10. p # np /\ th'[np] = th[np]
  BY <1>3, <1>9, Zenon DEF ThTo
<1>11. SlotOf(np)
  BY Zenon DEF IInv
<1>12. th[np].pc = "none" /\ ~ kstack[np] /\ ~ pgdir[np]
  BY <1>11, Zenon DEF SlotOf
<1>13. state'[np] = "EMBRYO" /\ kstack' = kstack /\ pgdir' = pgdir
  BY <1>2, <1>5, Zenon DEF Types
<1>14. SlotOf(np)'
  BY <1>10, <1>11, <1>12, <1>13, Zenon DEF SlotOf
<1>15. ChildOf(p)'
  BY <1>3, <1>8, <1>9, <1>10, <1>12, <1>13, Zenon DEF ChildOf, Place
<1>16. \A q \in Procs \ {p} : Forking(q) => th[q].np # np
  BY Zenon DEF IInv, ForkOf, ChildOf
<1>17. Forks(p, np)
  BY <1>2, <1>5, <1>9, <1>10, <1>12, <1>13, Zenon DEF Forks, ThTo, Types
<1>18. Types'
  <2>1. state' \in [Procs -> States] /\ pid' \in [Procs -> Nat] /\ nextpid' \in Nat
    BY <1>2, <1>5 DEF Types, States
  <2>2. QED
    BY <1>2, <1>4, <1>5, <1>9, <2>1, Zenon DEF Types, CpuTo, ThTo
<1>19. QED
  BY <1>1, <1>3, <1>4, <1>5, <1>8, <1>9, <1>14, <1>15, <1>16, <1>17, <1>18,
     ForkStep, Zenon

\* fork() gives its slot back.
LEMMA ForkFailsStep ==
  ASSUME IInv, NEW c \in Cpus, NEW p \in Procs, NEW np,
         NEW l \in {"kstack", "copyuvm"}, Runs(c, p, l), th[p].np = np,
         state' = [state EXCEPT ![np] = "UNUSED"], Return(p),
         \/ l = "kstack" /\ kstack' = kstack
         \/ kstack' = [kstack EXCEPT ![np] = FALSE],
         UNCHANGED <<halt, lock, cpu, pid, parent, chan, killed, pgdir,
                     nextpid, ticks>>
  PROVE  IInv'
<1>1. /\ Types /\ cpu \in [Cpus -> CpuType] /\ th \in [Procs -> ThreadType]
  BY TypeFacts, Zenon
<1>2. /\ cpu[c].ncli = 0 /\ cpu[c].ie /\ state[p] = "RUNNING"
  BY AtOpen, RunsFacts DEF Open
<1>3. CpuTo(c, 0, cpu[c].ie, cpu[c].intena)
  BY <1>1, <1>2, CpuSame, Zenon
<1>4. /\ np \in Procs /\ state[np] = "EMBRYO" /\ ~ pgdir[np]
      /\ l = "kstack" => ~ kstack[np]
      /\ th[np].pc = "none" /\ th[np].back = "none"
      /\ \A q \in Procs \ {p} : Forking(q) => th[q].np # np
  BY ForkFacts
<1>5. ThTo(p) /\ th'[p].pc = "sysret" /\ th'[p].back = "none"
  BY <1>1, ReturnFacts, Zenon
<1>6. p # np /\ th'[np] = th[np]
  BY <1>2, <1>4, <1>5, Zenon DEF ThTo
<1>7. /\ state' \in [Procs -> States] /\ kstack' \in [Procs -> BOOLEAN]
      /\ state'[np] = "UNUSED" /\ ~ kstack'[np] /\ ~ pgdir'[np]
      /\ \A q \in Procs \ {np} : state'[q] = state[q] /\ kstack'[q] = kstack[q]
  BY <1>1, <1>4, Zenon DEF Types, States
<1>8. SlotOf(np)'
  BY <1>4, <1>6, <1>7, Zenon DEF SlotOf
<1>9. ~ Forking(p)'
  BY <1>5, Zenon DEF Forking, Place
<1>10. Forks(p, np)
  BY <1>4, <1>5, <1>6, <1>7, Zenon DEF Forks, ThTo
<1>11. Types'
  BY <1>1, <1>5, <1>7, Zenon DEF Types, ThTo
<1>12. QED
  BY <1>2, <1>3, <1>4, <1>5, <1>8, <1>9, <1>10, <1>11, ForkStep, Zenon

\* allocproc() allocates the kernel stack, or gives the slot back.
LEMMA ForkKstackStep ==
  ASSUME IInv, NEW c \in Cpus, NEW p \in Procs, ForkKstack(c, p)
  PROVE  IInv'
<1> SUFFICES ASSUME NEW np, th[p].np = np
             PROVE  IInv'
  BY Zenon
<1>1. /\ Runs(c, p, "kstack")
      /\ UNCHANGED <<halt, lock, cpu, pid, parent, chan, killed, pgdir,
                     nextpid, ticks>>
  BY Zenon DEF ForkKstack
<1>2. CASE ForkFails(p) /\ UNCHANGED kstack
  BY <1>1, <1>2, ForkFailsStep, Zenon DEF ForkFails
<1>3. CASE /\ kstack' = [kstack EXCEPT ![np] = TRUE]
           /\ Goto(p, "copyuvm")
           /\ UNCHANGED state
  <2>1. /\ Types /\ cpu \in [Cpus -> CpuType] /\ th \in [Procs -> ThreadType]
    BY TypeFacts, Zenon
  <2>2. /\ cpu[c].ncli = 0 /\ cpu[c].ie /\ th[p].back = "none"
        /\ state[p] = "RUNNING"
    BY <1>1, AtOpen, RunsFacts DEF Open
  <2>3. CpuTo(c, 0, cpu[c].ie, cpu[c].intena)
    BY <1>1, <2>1, <2>2, CpuSame, Zenon
  <2>4. /\ np \in Procs /\ state[np] = "EMBRYO" /\ ~ pgdir[np]
        /\ th[np].pc = "none" /\ th[np].back = "none"
        /\ \A q \in Procs \ {p} : Forking(q) => th[q].np # np
    BY <1>1, ForkFacts
  <2>5. ThTo(p) /\ th'[p].pc = "copyuvm" /\ th'[p].back = "none"
        /\ th'[p].np = np
    <3>1. "copyuvm" \in Labels
      BY Zenon DEF Labels, Open
    <3>2. QED
      BY <1>3, <2>1, <2>2, <3>1, GotoFacts, Zenon
  <2>6. p # np /\ th'[np] = th[np]
    BY <2>2, <2>4, <2>5, Zenon DEF ThTo
  <2>7. /\ kstack' \in [Procs -> BOOLEAN] /\ kstack'[np]
        /\ state' = state /\ pgdir' = pgdir
        /\ \A q \in Procs \ {np} : kstack'[q] = kstack[q]
    BY <1>1, <1>3, <2>1, <2>4, Zenon DEF Types
  <2>8. SlotOf(np)'
    BY <2>4, <2>6, <2>7, Zenon DEF SlotOf
  <2>9. ChildOf(p)'
    BY <2>4, <2>5, <2>6, <2>7, Zenon DEF ChildOf, Place
  <2>10. Forks(p, np)
    BY <1>1, <2>4, <2>5, <2>6, <2>7, Zenon DEF Forks, ThTo
  <2>11. Types'
    BY <1>1, <2>1, <2>5, <2>7, Zenon DEF Types, ThTo
  <2>12. QED
    BY <1>1, <2>2, <2>3, <2>4, <2>5, <2>8, <2>9, <2>10, <2>11, ForkStep, Zenon
<1>4. QED
  BY <1>2, <1>3, Zenon DEF ForkKstack

\* copyuvm() and the parent of np, or back with stack and slot.
LEMMA ForkCopyStep ==
  ASSUME IInv, NEW c \in Cpus, NEW p \in Procs, ForkCopy(c, p)
  PROVE  IInv'
<1> SUFFICES ASSUME NEW np, th[p].np = np
             PROVE  IInv'
  BY Zenon
<1>1. /\ Runs(c, p, "copyuvm")
      /\ UNCHANGED <<halt, lock, cpu, pid, chan, killed, nextpid, ticks>>
  BY Zenon DEF ForkCopy
<1>2. CASE /\ kstack' = [kstack EXCEPT ![np] = FALSE]
           /\ ForkFails(p)
           /\ UNCHANGED <<parent, pgdir>>
  BY <1>1, <1>2, ForkFailsStep, Zenon DEF ForkFails
<1>3. CASE /\ pgdir' = [pgdir EXCEPT ![np] = TRUE]
           /\ parent' = [parent EXCEPT ![np] = p]
           /\ th' = [th EXCEPT ![p].pc = "runnable", ![np] = Thread("forkret")]
           /\ UNCHANGED <<state, kstack>>
  <2> DEFINE t == [th[p] EXCEPT !.pc = "runnable"]
  <2>1. /\ Types /\ cpu \in [Cpus -> CpuType] /\ th \in [Procs -> ThreadType]
    BY TypeFacts, Zenon
  <2>2. /\ cpu[c].ncli = 0 /\ cpu[c].ie /\ th[p].back = "none"
        /\ state[p] = "RUNNING"
    BY <1>1, AtOpen, RunsFacts DEF Open
  <2>3. CpuTo(c, 0, cpu[c].ie, cpu[c].intena)
    BY <1>1, <2>1, <2>2, CpuSame, Zenon
  <2>4. /\ np \in Procs /\ state[np] = "EMBRYO" /\ kstack[np]
        /\ \A q \in Procs \ {p} : Forking(q) => th[q].np # np
    BY <1>1, ForkFacts
  <2>5. p # np
    BY <2>2, <2>4, Zenon
  <2>6. th[p] \in ThreadType
    BY <2>1, Zenon
  <2>7. t \in ThreadType /\ t.pc = "runnable" /\ t.back = "none" /\ t.np = np
    <3>1. "runnable" \in Labels
      BY Zenon DEF Labels, Open
    <3>2. t \in ThreadType
      BY <2>6, <3>1, Zenon DEF ThreadType
    <3>3. QED
      BY <2>2, <2>6, <3>2, Zenon DEF ThreadType
  <2>8. /\ Thread("forkret") \in ThreadType /\ Thread("forkret").pc = "forkret"
        /\ Thread("forkret").back = "none"
    BY ThreadFacts, Zenon DEF Labels, UnderPtable
  <2>9. th' = [th EXCEPT ![p] = t, ![np] = Thread("forkret")]
    BY <1>3, <2>1, <2>5, Zenon
  <2> HIDE DEF t
  <2>10. /\ th' \in [Procs -> ThreadType] /\ th'[p] = t
         /\ th'[np] = Thread("forkret")
         /\ \A q \in Procs \ {p, np} : th'[q] = th[q]
    BY <2>1, <2>4, <2>5, <2>7, <2>8, <2>9, Zenon
  <2>11. /\ pgdir' \in [Procs -> BOOLEAN] /\ pgdir'[np]
         /\ \A q \in Procs \ {np} : pgdir'[q] = pgdir[q]
         /\ parent' \in [Procs -> Procs \cup {0}] /\ parent'[np] = p
         /\ \A q \in Procs \ {np} : parent'[q] = parent[q]
         /\ state' = state /\ kstack' = kstack
    BY <1>3, <2>1, <2>4, Zenon DEF Types
  <2>12. SlotOf(np)'
    BY <2>4, <2>8, <2>10, <2>11, Zenon DEF SlotOf
  <2>13. ChildOf(p)'
    BY <2>4, <2>7, <2>8, <2>10, <2>11 DEF ChildOf, Place
  <2>14. Forks(p, np)
    BY <1>1, <2>4, <2>5, <2>8, <2>10, <2>11, Zenon DEF Forks
  <2>15. Types'
    BY <1>1, <2>1, <2>10, <2>11, Zenon DEF Types
  <2>16. QED
    BY <1>1, <2>2, <2>3, <2>4, <2>7, <2>10, <2>12, <2>13, <2>14, <2>15,
       ForkStep, Zenon
<1>4. QED
  BY <1>2, <1>3, Zenon DEF ForkCopy

\* np becomes RUNNABLE.
LEMMA ForkRunStep ==
  ASSUME IInv, NEW c \in Cpus, NEW p \in Procs, ForkRun(c, p)
  PROVE  IInv'
<1> SUFFICES ASSUME NEW np, th[p].np = np
             PROVE  IInv'
  BY Zenon
<1>1. /\ Runs(c, p, "runnable") /\ Return(p)
      /\ UNCHANGED <<halt, lock, pid, parent, chan, killed, kstack, pgdir,
                     nextpid, ticks>>
      /\ state' = [state EXCEPT ![np] = "RUNNABLE"]
  BY Zenon DEF ForkRun
<1>2. /\ Types /\ cpu \in [Cpus -> CpuType] /\ th \in [Procs -> ThreadType]
  BY TypeFacts, Zenon
<1>3. /\ cpu[c].ncli = 0 /\ cpu[c].ie /\ state[p] = "RUNNING"
  BY <1>1, AtOpen, RunsFacts DEF Open
<1>4. CpuTo(c, 0, cpu[c].ie, cpu'[c].intena)
  BY <1>2, <1>3, CpuHeld, Zenon DEF ForkRun
<1>5. /\ np \in Procs /\ state[np] = "EMBRYO" /\ kstack[np] /\ pgdir[np]
      /\ th[np].pc = "forkret" /\ th[np].back = "none" /\ parent[np] = p
      /\ \A q \in Procs \ {p} : Forking(q) => th[q].np # np
  BY <1>1, ForkFacts
<1>6. ThTo(p) /\ th'[p].pc = "sysret" /\ th'[p].back = "none"
  BY <1>1, <1>2, ReturnFacts, Zenon
<1>7. p # np /\ th'[np] = th[np]
  BY <1>3, <1>5, <1>6, Zenon DEF ThTo
<1>8. /\ state' \in [Procs -> States] /\ state'[np] = "RUNNABLE"
      /\ \A q \in Procs \ {np} : state'[q] = state[q]
  BY <1>1, <1>2, <1>5, Zenon DEF Types, States
<1>9. SlotOf(np)'
  BY <1>1, <1>5, <1>7, <1>8, Zenon DEF SlotOf
<1>10. ~ Forking(p)'
  BY <1>6, Zenon DEF Forking, Place
<1>11. Forks(p, np)
  BY <1>1, <1>5, <1>6, <1>7, <1>8, Zenon DEF Forks, ThTo
<1>12. Types'
  BY <1>1, <1>2, <1>4, <1>6, <1>8, Zenon DEF Types, ThTo, CpuTo
<1>13. QED
  BY <1>1, <1>3, <1>4, <1>5, <1>6, <1>9, <1>10, <1>11, <1>12, ForkStep, Zenon
============================================================================
