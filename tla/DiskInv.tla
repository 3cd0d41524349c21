------------------------------ MODULE DiskInv ------------------------------
(***************************************************************************)
(* The inductive invariant of module Disk: who uses a buffer, who has its  *)
(* lock, where its request is in the queue of the driver, and which of the *)
(* buffer and the platter holds what was last written to a block.          *)
(***************************************************************************)
EXTENDS Disk

Labels ==
  {"idle", "acquiresleep", "sleep_lk", "bread", "sleep_b", "woken", "have",
   "brelse", "refcnt"}

BufType ==
  [blockno: Blocks \cup {None}, refcnt: Nat, pid: Procs \cup {None},
   valid: BOOLEAN, dirty: BOOLEAN, data: Vals]

Types ==
  /\ buf \in [Bufs -> BufType]
  /\ idequeue \in Seq(Bufs)
  /\ platter \in [Blocks -> Vals] /\ latest \in [Blocks -> Vals]
  /\ pc \in [Procs -> Labels] /\ bp \in [Procs -> Bufs \cup {None}]
  /\ panicked \in BOOLEAN
  /\ junk \subseteq Bufs

\* Every buffer is in the list of bget() once.
LruInv ==
  /\ lru \in Seq(Bufs) /\ Len(lru) = Cardinality(Bufs)
  /\ \A i, j \in 1..Len(lru) : lru[i] = lru[j] => i = j

\* b->refcnt counts the processes between bget() and the end of brelse().
Users(b) == {p \in Procs : bp[p] = b}
RefInv == \A b \in Bufs : buf[b].refcnt = Cardinality(Users(b))

\* A buffer in use holds a block, and no block is in two buffers.
BlockInv ==
  /\ \A p \in Procs : bp[p] = None <=> pc[p] = "idle"
  /\ \A p \in Procs : bp[p] # None => buf[bp[p]].blockno # None
  /\ \A b, c \in Bufs : buf[b].blockno # None /\ buf[b].blockno = buf[c].blockno
                        => b = c

\* The lock of a buffer is held by the process that is between acquiresleep()
\* and releasesleep() on it, and who sleeps for it sleeps for somebody.
LockInv ==
  /\ \A p \in Procs : Owner(p) => buf[bp[p]].pid = p
  /\ \A p \in Procs, b \in Bufs : buf[b].pid = p => Owner(p) /\ bp[p] = b
  /\ \A p \in Procs : pc[p] = "sleep_lk" => buf[bp[p]].pid # None

\* The flags of a buffer, also by the place of its owner.
FlagInv ==
  /\ \A b \in Bufs : buf[b].valid => buf[b].blockno # None
  /\ \A b \in Bufs : buf[b].dirty => buf[b].valid
  /\ \A b \in junk : buf[b].valid /\ ~ buf[b].dirty
  /\ \A p \in Procs : pc[p] \in {"woken", "have", "brelse"} => buf[bp[p]].valid
  /\ \A p \in Procs : pc[p] = "woken" => ~ buf[bp[p]].dirty

\* idequeue has every buffer that a process sleeps for in iderw(), once, and
\* the controller works on the first.
QueueInv ==
  /\ \A i, j \in 1..Len(idequeue) : idequeue[i] = idequeue[j] => i = j
  /\ \A p \in Procs : pc[p] = "sleep_b" => Queued(bp[p])
  /\ \A b \in Bufs : Queued(b) => \E p \in Procs : pc[p] = "sleep_b" /\ bp[p] = b
  /\ \A b \in Bufs : Queued(b) => ~ buf[b].valid \/ buf[b].dirty
  /\ cmd = Start(idequeue, buf)

\* A valid buffer has what was last written to its block, and so has the
\* platter unless a dirty buffer has it.
DataInv ==
  /\ \A b \in Bufs : buf[b].valid /\ b \notin junk =>
       buf[b].data = latest[buf[b].blockno]
  /\ \A n \in Blocks : (\A b \in Bufs : buf[b].blockno = n => ~ buf[b].dirty) =>
       platter[n] = latest[n]

\* The log pins no more than it has room for.
PinInv == Cardinality(Pinned) <= MaxPins

\* Every step preserves this.
IInv ==
  /\ Types /\ LruInv /\ RefInv /\ BlockInv /\ LockInv /\ FlagInv /\ QueueInv
  /\ DataInv /\ PinInv
============================================================================
