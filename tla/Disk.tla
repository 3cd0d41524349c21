-------------------------------- MODULE Disk --------------------------------
(***************************************************************************)
(* The buffer cache of bio.c with its sleep locks, over the IDE driver of  *)
(* ide.c and one disk.                                                     *)
(*                                                                         *)
(* A step is what one process or the interrupt handler does under one spin *)
(* lock (bcache.lock, the lock of a sleep lock, idelock).                  *)
(*                                                                         *)
(* A member of Procs is a thread of control with one buffer, from bread()  *)
(* to brelse().  A process that holds two buffers at once (bmap() around   *)
(* balloc(), itrunc() around bfree(), write_log(), install_trans()) is two *)
(* of them: they hold buffers of different blocks, and nothing the cache   *)
(* or the driver does depends on the two being one process.                *)
(***************************************************************************)
EXTENDS Integers, Sequences, FiniteSets, Functions

CONSTANTS
  Procs,      \* users of one buffer at a time
  Bufs,       \* bcache.buf
  Blocks,
  Written,    \* bound: the blocks that are written to
  Vals,       \* contents of a block
  None,       \* no process, block, buffer or command
  MaxPins     \* bound: buffers log.c keeps dirty

ASSUME DiskAssumption ==
  /\ IsFiniteSet(Procs) /\ IsFiniteSet(Bufs)
  /\ None \notin Procs \cup Bufs \cup Blocks
  /\ None \notin [op: {"read", "write"}, block: Blocks, data: Vals]
  /\ Written \subseteq Blocks
  /\ MaxPins \in Nat

VARIABLES
  buf,        \* struct buf: block, references, holder of its lock, flags, data
  lru,        \* the buffers, most recently used first
  idequeue,
  cmd,        \* what the controller is doing
  platter,    \* contents of the disk
  pc, bp,     \* of every process: the next step, its buffer
  panicked,
  latest,     \* what was last written to each block
  junk        \* buffers whose last read failed

vars == <<buf, lru, idequeue, cmd, platter, pc, bp, panicked, latest, junk>>

\* binit(), in some order of the buffers.  No buffer holds a block: dev is 0
\* and the root device is 1.
Init ==
  /\ \E v \in Vals :
       /\ platter = [n \in Blocks |-> v]
       /\ buf = [b \in Bufs |->
                   [blockno |-> None, refcnt |-> 0, pid |-> None,
                    valid |-> FALSE, dirty |-> FALSE, data |-> v]]
  /\ lru \in Injection(1..Cardinality(Bufs), Bufs)
  /\ idequeue = <<>>
  /\ cmd = None
  /\ pc = [p \in Procs |-> "idle"]
  /\ bp = [p \in Procs |-> None]
  /\ panicked = FALSE
  /\ latest = platter
  /\ junk = {}

At(p, l) == ~ panicked /\ pc[p] = l
Goto(p, l) == pc' = [pc EXCEPT ![p] = l]
Panic == panicked' = TRUE /\ UNCHANGED <<buf, lru, idequeue, cmd, platter, pc,
                                         bp, latest, junk>>

\* wakeup(): who sleeps at l on buffer b goes on at m.
Wakeup(b, l, m) ==
  [p \in Procs |-> IF pc[p] = l /\ bp[p] = b THEN m ELSE pc[p]]

\* holdingsleep().
Holding(p) == buf[bp[p]].pid = p

(***************************************************************************)
(* bget() and the sleep lock.                                              *)
(***************************************************************************)
Holds(n) == {b \in Bufs : buf[b].blockno = n}

\* Mutant: B_DIRTY does not keep a buffer.
UnusedDirty == {b \in Bufs : buf[b].refcnt = 0}

Unused == {b \in Bufs : buf[b].refcnt = 0 /\ ~ buf[b].dirty}

\* The first buffer from the tail of the list that nobody uses.
Victim ==
  lru[CHOOSE i \in 1..Len(lru) :
        lru[i] \in Unused /\ \A j \in (i + 1)..Len(lru) : lru[j] \notin Unused]

BgetHit(p, n) ==
  /\ At(p, "idle")
  /\ \E b \in Holds(n) :
       /\ buf' = [buf EXCEPT ![b].refcnt = @ + 1]
       /\ bp' = [bp EXCEPT ![p] = b]
  /\ Goto(p, "acquiresleep")
  /\ UNCHANGED <<lru, idequeue, cmd, platter, panicked, latest, junk>>

\* Another buffer is recycled; without one to take, bget() panics.
BgetRecycle(p, n) ==
  /\ At(p, "idle")
  /\ Holds(n) = {}
  /\ IF Unused = {} THEN Panic
     ELSE /\ buf' = [buf EXCEPT ![Victim] =
                      [@ EXCEPT !.blockno = n, !.refcnt = 1,
                                !.valid = FALSE, !.dirty = FALSE]]
          /\ bp' = [bp EXCEPT ![p] = Victim]
          /\ junk' = junk \ {Victim}
          /\ Goto(p, "acquiresleep")
          /\ UNCHANGED <<lru, idequeue, cmd, platter, panicked, latest>>

AcquireSleep(p) ==
  /\ At(p, "acquiresleep")
  /\ IF buf[bp[p]].pid # None
     THEN Goto(p, "sleep_lk") /\ UNCHANGED buf
     ELSE Goto(p, "bread") /\ buf' = [buf EXCEPT ![bp[p]].pid = p]
  /\ UNCHANGED <<lru, idequeue, cmd, platter, bp, panicked, latest, junk>>

(***************************************************************************)
(* iderw() and ideintr().                                                  *)
(***************************************************************************)
\* The command for the buffer at the head of the queue, if any; the data of a
\* write is copied to the controller.
Start(q, bs) ==
  IF q = <<>> THEN None
  ELSE [op    |-> IF bs[Head(q)].dirty THEN "write" ELSE "read",
        block |-> bs[Head(q)].blockno,
        data  |-> bs[Head(q)].data]

\* iderw() up to its sleep; bs is buf as the caller has changed it.
IderwWith(p, bs) ==
  LET q == Append(idequeue, bp[p])
  IN  /\ idequeue' = q
      /\ cmd' = IF idequeue = <<>> THEN Start(q, bs) ELSE cmd
      /\ Goto(p, "sleep_b")
      /\ UNCHANGED <<lru, platter, bp, panicked>>

\* The panics of iderw().
Refused(p, b) == ~ Holding(p) \/ (b.valid /\ ~ b.dirty)

BreadHit(p) ==
  /\ At(p, "bread")
  /\ buf[bp[p]].valid
  /\ Goto(p, "have")
  /\ UNCHANGED <<buf, lru, idequeue, cmd, platter, bp, panicked, latest, junk>>

BreadMiss(p) ==
  /\ At(p, "bread")
  /\ ~ buf[bp[p]].valid
  /\ IF Refused(p, buf[bp[p]])
     THEN Panic
     ELSE IderwWith(p, buf) /\ UNCHANGED <<buf, latest, junk>>

\* A block is filled with v and written through, as the log does with its own
\* blocks and install_trans() with home blocks.
Bwrite(p, v) ==
  LET b  == [buf[bp[p]] EXCEPT !.data = v, !.dirty = TRUE]
      bs == [buf EXCEPT ![bp[p]] = b]
  IN  /\ At(p, "have")
      /\ IF Refused(p, b)
         THEN Panic
         ELSE /\ IderwWith(p, bs)
              /\ buf' = bs
              /\ latest' = [latest EXCEPT ![b.blockno] = v]
              /\ junk' = junk \ {bp[p]}

\* A block is filled with v and left to the log: log_write() sets B_DIRTY.
Pins == {b \in Bufs : buf[b].dirty}

LogWrite(p, v) ==
  LET b == buf[bp[p]]
  IN  /\ At(p, "have")
      /\ Cardinality(Pins \cup {bp[p]}) <= MaxPins
      /\ buf' = [buf EXCEPT ![bp[p]].data = v, ![bp[p]].dirty = TRUE]
      /\ latest' = [latest EXCEPT ![b.blockno] = v]
      /\ junk' = junk \ {bp[p]}
      /\ Goto(p, "brelse")
      /\ UNCHANGED <<lru, idequeue, cmd, platter, bp, panicked>>

\* The disk has finished and interrupts.  A read that failed (idewait(1) < 0)
\* leaves the data alone; a write is not checked.
Ideintr(ok) ==
  LET b  == Head(idequeue)
      bs == [buf EXCEPT ![b].valid = TRUE, ![b].dirty = FALSE]
      rd == ~ buf[b].dirty
  IN  /\ ~ panicked /\ cmd # None
      /\ ok \/ rd
      /\ buf' = IF rd /\ ok
                THEN [bs EXCEPT ![b].data = platter[cmd.block]] ELSE bs
      /\ platter' = IF cmd.op = "write"
                    THEN [platter EXCEPT ![cmd.block] = cmd.data] ELSE platter
      /\ junk' = IF ok THEN junk ELSE junk \cup {b}
      /\ idequeue' = Tail(idequeue)
      /\ cmd' = Start(Tail(idequeue), bs)
      /\ pc' = Wakeup(b, "sleep_b", "woken")
      /\ UNCHANGED <<lru, bp, panicked, latest>>

\* The loop around sleep() in iderw().
IderwWoken(p) ==
  LET b == buf[bp[p]]
  IN  /\ At(p, "woken")
      /\ Goto(p, IF b.valid /\ ~ b.dirty THEN "have" ELSE "sleep_b")
      /\ UNCHANGED <<buf, lru, idequeue, cmd, platter, bp, panicked, latest,
                     junk>>

(***************************************************************************)
(* brelse().                                                               *)
(***************************************************************************)
\* Mutant: the waiters are not woken.
ReleaseSleepQuiet(p) ==
  /\ pc[p] \in {"have", "brelse"} /\ ~ panicked
  /\ buf' = [buf EXCEPT ![bp[p]].pid = None]
  /\ Goto(p, "refcnt")
  /\ UNCHANGED <<lru, idequeue, cmd, platter, bp, panicked, latest, junk>>

ReleaseSleep(p) ==
  /\ pc[p] \in {"have", "brelse"} /\ ~ panicked
  /\ IF ~ Holding(p)
     THEN Panic
     ELSE /\ buf' = [buf EXCEPT ![bp[p]].pid = None]
          /\ pc' = [Wakeup(bp[p], "sleep_lk", "acquiresleep")
                      EXCEPT ![p] = "refcnt"]
          /\ UNCHANGED <<lru, idequeue, cmd, platter, bp, panicked, latest,
                         junk>>

\* Mutant: the reference is kept while the log pins a buffer.
BrelseKeepsRef(p) ==
  /\ At(p, "refcnt")
  /\ buf' = [buf EXCEPT ![bp[p]].refcnt = IF Pins = {} THEN @ - 1 ELSE @]
  /\ bp' = [bp EXCEPT ![p] = None]
  /\ Goto(p, "idle")
  /\ UNCHANGED <<lru, idequeue, cmd, platter, panicked, latest, junk>>

\* b moves to the head of the list.
ToFront(b) ==
  LET i == CHOOSE j \in 1..Len(lru) : lru[j] = b
  IN  <<b>> \o (SubSeq(lru, 1, i - 1) \o SubSeq(lru, i + 1, Len(lru)))

Brelse(p) ==
  LET b == bp[p]
  IN  /\ At(p, "refcnt")
      /\ buf' = [buf EXCEPT ![b].refcnt = @ - 1]
      /\ lru' = IF buf[b].refcnt = 1 THEN ToFront(b) ELSE lru
      /\ bp' = [bp EXCEPT ![p] = None]
      /\ Goto(p, "idle")
      /\ UNCHANGED <<idequeue, cmd, platter, panicked, latest, junk>>

(***************************************************************************)
(* The specification.                                                      *)
(***************************************************************************)
Bget(p) == \E n \in Blocks : BgetHit(p, n) \/ BgetRecycle(p, n)

Step(p) ==
  \/ AcquireSleep(p) \/ BreadHit(p) \/ BreadMiss(p) \/ IderwWoken(p)
  \/ ReleaseSleep(p) \/ Brelse(p)

Write(p) ==
  /\ pc[p] = "have" /\ buf[bp[p]].blockno \in Written
  /\ \E v \in Vals : Bwrite(p, v) \/ LogWrite(p, v)

\* panic() disables interrupts and loops for ever.
Halted == panicked /\ UNCHANGED vars

Next ==
  \/ \E p \in Procs : Bget(p) \/ Step(p) \/ Write(p)
  \/ \E ok \in BOOLEAN : Ideintr(ok)
  \/ Halted

Spec == Init /\ [][Next]_vars

(***************************************************************************)
(* Properties.                                                             *)
(***************************************************************************)

Owner(p) == pc[p] \in {"bread", "sleep_b", "woken", "have", "brelse"}

\* A block is cached at most once, is used by one process at a time, and its
\* user sees what was last written to it, whether that is on disk, in a dirty
\* buffer or was evicted and read back (unless the disk reported an error).
\* The list of bget() has every buffer once.
Coherent ==
  /\ Len(lru) = Cardinality(Bufs) /\ Range(lru) = Bufs
  /\ \A b, c \in Bufs : buf[b].blockno # None /\ buf[b].blockno = buf[c].blockno
                        => b = c
  /\ \A p, q \in Procs : Owner(p) /\ Owner(q) /\ bp[p] = bp[q] => p = q
  /\ \A p \in Procs : pc[p] = "have" /\ bp[p] \notin junk =>
       buf[bp[p]].data = latest[buf[bp[p]].blockno]

\* Who has taken a buffer and not given it back, and the buffers that stay
\* dirty although nobody writes them: the log's.
InUse == {p \in Procs : pc[p] # "idle"}
Queued(b) == \E i \in 1..Len(idequeue) : idequeue[i] = b
Pinned == {b \in Bufs : buf[b].dirty /\ ~ Queued(b)}

\* The kernel panics here only when bget() is called while the uses in
\* progress and the blocks the log pins take up the whole cache: brelse()
\* leaks no reference, an eviction is never refused while a buffer is left,
\* and no caller of iderw() or brelse() has lost the lock it believes to hold.
PanicMeansFull ==
  panicked => Cardinality(InUse) + Cardinality(Pinned) >= Cardinality(Bufs)

\* Nobody sleeps without a reason: a process asleep for a buffer's lock has
\* somebody to wake it, and one asleep in iderw() is in the queue the
\* controller works on, in the order of the requests.
SleepersHaveWakers ==
  /\ \A p \in Procs : pc[p] = "sleep_lk" => buf[bp[p]].pid # None
  /\ \A p \in Procs : pc[p] = "sleep_b" =>
       \E i \in 1..Len(idequeue) : idequeue[i] = bp[p]
  /\ idequeue # <<>> =>
       cmd # None /\ cmd.block = buf[Head(idequeue)].blockno
===========================================================================
