------------------------------- MODULE Tasks -------------------------------
(***************************************************************************)
(* Processes as the I/O modules see them: where each one is, the bytes its *)
(* current system call works on, and whether it was killed.                *)
(***************************************************************************)
EXTENDS Integers, Sequences, FiniteSets, SequencesExt

CONSTANT Procs

VARIABLES
  pc,       \* the next step of every process
  io,       \* the bytes read so far, or still to be written
  killed    \* p->killed

taskVars == <<pc, io, killed>>

\* Labels at which a process sleeps, and where it goes on when woken.
Resume == [consoleread |-> "cons", pipewrite |-> "more", piperead |-> "read",
           waiting |-> "wait"]

Asleep(p) == pc[p] \in DOMAIN Resume

\* sleep() on the channel of l; what else the step does to pc is in q.
Goto(p, l) == [pc EXCEPT ![p] = l]

\* wakeup() of the processes asleep at l, in q.
Wakeup(q, l) == [p \in Procs |-> IF q[p] = l THEN Resume[l] ELSE q[p]]

\* Labels at which a process is in the kernel, or is not running.
InKernel ==
  DOMAIN Resume \cup {"cons", "more", "read", "exit", "zombie", "gone", "none"}

\* A process that was killed does not get to its next system call: trap() tests
\* p->killed before it dispatches the call, and on every interrupt.
KilledExit(p) ==
  /\ pc[p] \notin InKernel /\ killed[p]
  /\ pc' = Goto(p, "exit")
  /\ UNCHANGED <<io, killed>>

\* The end of a system call: a process that was killed meanwhile exits.
Return(p, l) == [pc EXCEPT ![p] = IF killed[p] THEN "exit" ELSE l]

\* kill(); a process that has exited or does not exist is not found.
Kill(p) ==
  /\ pc[p] \notin {"none", "zombie", "gone"}
  /\ ~ killed[p]
  /\ killed' = [killed EXCEPT ![p] = TRUE]
  /\ pc' = IF Asleep(p) THEN Goto(p, Resume[pc[p]]) ELSE pc
  /\ UNCHANGED io
============================================================================
