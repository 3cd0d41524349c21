---------------------------- MODULE AtomicDisk ----------------------------
(***************************************************************************)
(* What begin_op(), log_write() and end_op() promise: a disk whose blocks  *)
(* change only when no file-system call is active, by all the writes of    *)
(* the calls that ended since, and that a crash takes back to the last     *)
(* such moment.                                                            *)
(***************************************************************************)
CONSTANTS Procs, Blocks, Vals

VARIABLES
  durable,   \* what the disk holds after a crash and its recovery
  view,      \* what the running system reads
  active     \* the processes inside a file-system call

avars == <<durable, view, active>>

Init ==
  /\ durable \in [Blocks -> Vals]
  /\ view = durable
  /\ active = {}

Begin(p) ==
  /\ p \notin active
  /\ active' = active \cup {p}
  /\ UNCHANGED <<durable, view>>

End(p) ==
  /\ p \in active
  /\ active' = active \ {p}
  /\ UNCHANGED <<durable, view>>

Write(p, b, v) ==
  /\ p \in active
  /\ view' = [view EXCEPT ![b] = v]
  /\ UNCHANGED <<durable, active>>

Commit ==
  /\ active = {}
  /\ durable' = view
  /\ UNCHANGED <<view, active>>

Crash ==
  /\ view' = durable
  /\ active' = {}
  /\ UNCHANGED durable

Next ==
  \/ \E p \in Procs : Begin(p) \/ End(p)
  \/ \E p \in Procs, b \in Blocks, v \in Vals : Write(p, b, v)
  \/ Commit
  \/ Crash

Spec == Init /\ [][Next]_avars
===========================================================================
