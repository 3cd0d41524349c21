-------------------------------- MODULE Log --------------------------------
(***************************************************************************)
(* The redo log of log.c over the buffer cache: group commit of the        *)
(* file-system calls, the order of the disk writes of a commit, crashes    *)
(* between any two of them, and the recovery at the next boot.             *)
(*                                                                         *)
(* A disk write of one block is atomic.  A step is what one process does   *)
(* under log.lock or with one buffer locked.  The log blocks and the       *)
(* header are written through, so their copies in the cache are the disk's.*)
(***************************************************************************)
EXTENDS Integers, Sequences, FiniteSets

CONSTANTS
  Procs,        \* processes that make file-system calls
  Blocks,       \* home blocks of the file system
  Vals, Zero,   \* contents of a block; what mkfs fills the log with
  NoVal,        \* not in the cache
  NoBlock,      \* no buffer locked
  MAXOPBLOCKS,  \* blocks a call reserves
  OpBlocks,     \* blocks a call writes at most
  LOGSIZE,      \* entries of struct logheader
  NLOG          \* sb.nlog, the blocks of the on-disk log with its header

ASSUME LogAssumption ==
  /\ IsFiniteSet(Procs)
  /\ MAXOPBLOCKS \in Nat \ {0}
  /\ OpBlocks \in 0..MAXOPBLOCKS
  /\ LOGSIZE \in Nat \ {0}
  /\ NLOG \in Nat \ {0}
  /\ Zero \in Vals /\ NoVal \notin Vals
  /\ NoBlock \notin Blocks

VARIABLES
  disk,         \* home blocks on disk
  logd,         \* log blocks on disk
  head,         \* block numbers in the header on disk
  cache,        \* what the buffer cache holds of the home blocks
  dirty,        \* blocks whose buffer has B_DIRTY, which pins it
  lh,           \* log.lh, the header in memory
  outstanding,
  committing,
  at,           \* where commit() or recover_from_log() is
  tail,         \* their loop variable
  pc, blk,      \* of every process: the next step, the buffer it has locked
  wrote,        \* blocks the current call of a process has written
  panicked

durableVars == <<disk, logd, head>>
opVars == <<pc, blk, wrote>>
vars == <<disk, logd, head, cache, dirty, lh, outstanding, committing, at,
          tail, pc, blk, wrote, panicked>>

\* mkfs wrote an empty log.
Init ==
  /\ disk \in [Blocks -> Vals]
  /\ logd = [i \in 1..LOGSIZE |-> Zero]
  /\ head = <<>>
  /\ cache = [b \in Blocks |-> NoVal]
  /\ dirty = {}
  /\ lh = <<>>
  /\ outstanding = 0
  /\ committing = FALSE
  /\ at = "read_head"
  /\ tail = 1
  /\ pc = [p \in Procs |-> "idle"]
  /\ blk = [p \in Procs |-> NoBlock]
  /\ wrote = [p \in Procs |-> {}]
  /\ panicked = FALSE

Running == ~ panicked
Up == Running /\ at \notin {"read_head", "reinstall", "reclear"}

Locked(b) == \E p \in Procs : blk[p] = b

\* bread(): the cached copy, or the disk's.
Cached(b) == IF cache[b] = NoVal THEN disk[b] ELSE cache[b]

\* wakeup(&log).
Wakeup(q) == [p \in Procs |-> IF q[p] = "asleep" THEN "begin" ELSE q[p]]

(***************************************************************************)
(* begin_op() and end_op().                                                *)
(***************************************************************************)
\* Mutant: the call that is beginning is not counted.
MustWaitLess == committing \/ Len(lh) + outstanding * MAXOPBLOCKS > LOGSIZE

MustWait ==
  committing \/ Len(lh) + (outstanding + 1) * MAXOPBLOCKS > LOGSIZE

BeginOp(p) ==
  /\ Up
  /\ pc[p] \in {"idle", "begin"}
  /\ IF MustWait
     THEN /\ pc' = [pc EXCEPT ![p] = "asleep"]
          /\ UNCHANGED outstanding
     ELSE /\ pc' = [pc EXCEPT ![p] = "op"]
          /\ outstanding' = outstanding + 1
  /\ UNCHANGED <<durableVars, cache, dirty, lh, committing, at, tail, blk,
                 wrote, panicked>>

\* Mutant: a call that ends without committing wakes nobody.
EndOpQuiet(p) ==
  /\ Up
  /\ pc[p] = "op"
  /\ ~ committing
  /\ outstanding' = outstanding - 1
  /\ IF outstanding = 1
     THEN /\ committing' = TRUE
          /\ at' = IF lh = <<>> THEN "done" ELSE "write_log"
          /\ tail' = 1
          /\ pc' = [pc EXCEPT ![p] = "commit"]
     ELSE /\ pc' = [pc EXCEPT ![p] = "idle"]
          /\ UNCHANGED <<committing, at, tail>>
  /\ wrote' = [wrote EXCEPT ![p] = {}]
  /\ UNCHANGED <<durableVars, cache, dirty, lh, blk, panicked>>

\* The last call of the group commits.
EndOp(p) ==
  /\ Up
  /\ pc[p] = "op"
  /\ IF committing
     THEN /\ panicked' = TRUE
          /\ UNCHANGED <<committing, at, tail, pc>>
     ELSE /\ IF outstanding = 1
             THEN /\ committing' = TRUE
                  /\ at' = IF lh = <<>> THEN "done" ELSE "write_log"
                  /\ tail' = 1
                  /\ pc' = [pc EXCEPT ![p] = "commit"]
             ELSE /\ pc' = [Wakeup(pc) EXCEPT ![p] = "idle"]
                  /\ UNCHANGED <<committing, at, tail>>
          /\ UNCHANGED panicked
  /\ outstanding' = outstanding - 1
  /\ wrote' = [wrote EXCEPT ![p] = {}]
  /\ UNCHANGED <<durableVars, cache, dirty, lh, blk>>

\* The end of end_op() after commit().
EndCommit(p) ==
  /\ Up
  /\ pc[p] = "commit"
  /\ at = "done"
  /\ committing' = FALSE
  /\ at' = "none"
  /\ pc' = [Wakeup(pc) EXCEPT ![p] = "idle"]
  /\ UNCHANGED <<durableVars, cache, dirty, lh, outstanding, tail, blk,
                 wrote, panicked>>

(***************************************************************************)
(* Block accesses: bread(), a change of the data, log_write(), brelse().   *)
(* read() of a file reads blocks outside any file-system call.             *)
(***************************************************************************)
Bread(p, b) ==
  /\ Up
  /\ pc[p] \in {"idle", "op"}
  /\ ~ Locked(b)
  /\ cache' = [cache EXCEPT ![b] = Cached(b)]
  /\ blk' = [blk EXCEPT ![p] = b]
  /\ pc' = [pc EXCEPT ![p] = IF @ = "op" THEN "buf" ELSE "look"]
  /\ UNCHANGED <<durableVars, dirty, lh, outstanding, committing, at, tail,
                 wrote, panicked>>

Brelse(p) ==
  /\ Up
  /\ pc[p] \in {"buf", "look"}
  /\ blk' = [blk EXCEPT ![p] = NoBlock]
  /\ pc' = [pc EXCEPT ![p] = IF @ = "buf" THEN "op" ELSE "idle"]
  /\ UNCHANGED <<durableVars, cache, dirty, lh, outstanding, committing, at,
                 tail, wrote, panicked>>

Modify(p, v) ==
  /\ Up
  /\ pc[p] = "buf"
  /\ Cardinality(wrote[p] \cup {blk[p]}) <= OpBlocks
  /\ cache' = [cache EXCEPT ![blk[p]] = v]
  /\ wrote' = [wrote EXCEPT ![p] = @ \cup {blk[p]}]
  /\ pc' = [pc EXCEPT ![p] = "log_write"]
  /\ UNCHANGED <<durableVars, dirty, lh, outstanding, committing, at, tail,
                 blk, panicked>>

\* The tests of log_write(), made before log.lock is acquired.
LogCheck(p) ==
  /\ Up
  /\ pc[p] = "log_write"
  /\ IF Len(lh) >= LOGSIZE \/ Len(lh) >= NLOG - 1 \/ outstanding < 1
     THEN panicked' = TRUE /\ UNCHANGED pc
     ELSE pc' = [pc EXCEPT ![p] = "append"] /\ UNCHANGED panicked
  /\ UNCHANGED <<durableVars, cache, dirty, lh, outstanding, committing, at,
                 tail, blk, wrote>>

\* Mutant: B_DIRTY is not set, the buffer can be evicted.
LogAppendUnpinned(p) ==
  LET b == blk[p]
  IN  /\ Up
      /\ pc[p] = "append"
      /\ lh' = IF \E i \in 1..Len(lh) : lh[i] = b THEN lh ELSE Append(lh, b)
      /\ blk' = [blk EXCEPT ![p] = NoBlock]
      /\ pc' = [pc EXCEPT ![p] = "op"]
      /\ UNCHANGED <<durableVars, cache, dirty, outstanding, committing, at,
                     tail, wrote, panicked>>

\* Log absorption, B_DIRTY, and the caller's brelse().
LogAppend(p) ==
  LET b == blk[p]
  IN  /\ Up
      /\ pc[p] = "append"
      /\ lh' = IF \E i \in 1..Len(lh) : lh[i] = b THEN lh ELSE Append(lh, b)
      /\ dirty' = dirty \cup {b}
      /\ blk' = [blk EXCEPT ![p] = NoBlock]
      /\ pc' = [pc EXCEPT ![p] = "op"]
      /\ UNCHANGED <<durableVars, cache, outstanding, committing, at, tail,
                     wrote, panicked>>

\* bget() recycles a buffer nobody uses and that is not dirty.
Evict(b) ==
  /\ Running
  /\ cache[b] # NoVal
  /\ ~ Locked(b)
  /\ b \notin dirty
  /\ cache' = [cache EXCEPT ![b] = NoVal]
  /\ UNCHANGED <<durableVars, dirty, lh, outstanding, committing, at, tail,
                 opVars, panicked>>

(***************************************************************************)
(* commit() and recover_from_log().                                        *)
(***************************************************************************)
\* One round of write_log().
WriteLog ==
  LET b == lh[tail]
  IN  /\ Running
      /\ at = "write_log"
      /\ tail <= Len(lh)
      /\ ~ Locked(b)
      /\ cache' = [cache EXCEPT ![b] = Cached(b)]
      /\ logd' = [logd EXCEPT ![tail] = Cached(b)]
      /\ tail' = tail + 1
      /\ UNCHANGED <<disk, head, dirty, lh, outstanding, committing, at,
                     opVars, panicked>>

\* Mutant: the header is written before the log blocks.
WriteHeadFirst ==
  /\ Running
  /\ at = "write_log"
  /\ head' = lh
  /\ at' = "install"
  /\ tail' = 1
  /\ UNCHANGED <<disk, logd, cache, dirty, lh, outstanding, committing,
                 opVars, panicked>>

\* write_head(): the commit.
WriteHead ==
  /\ Running
  /\ at = "write_log"
  /\ tail > Len(lh)
  /\ head' = lh
  /\ at' = "install"
  /\ tail' = 1
  /\ UNCHANGED <<disk, logd, cache, dirty, lh, outstanding, committing,
                 opVars, panicked>>

\* One round of install_trans(); bwrite() clears B_DIRTY.
Install ==
  LET b == lh[tail]
  IN  /\ Running
      /\ at \in {"install", "reinstall"}
      /\ tail <= Len(lh)
      /\ ~ Locked(b)
      /\ cache' = [cache EXCEPT ![b] = logd[tail]]
      /\ disk' = [disk EXCEPT ![b] = logd[tail]]
      /\ dirty' = dirty \ {b}
      /\ tail' = tail + 1
      /\ UNCHANGED <<logd, head, lh, outstanding, committing, at, opVars,
                     panicked>>

\* log.lh.n = 0, then write_head().
ClearMem ==
  /\ Running
  /\ at \in {"install", "reinstall"}
  /\ tail > Len(lh)
  /\ lh' = <<>>
  /\ tail' = 1
  /\ at' = IF at = "install" THEN "clear" ELSE "reclear"
  /\ UNCHANGED <<durableVars, cache, dirty, outstanding, committing,
                 opVars, panicked>>

ClearHead ==
  /\ Running
  /\ at \in {"clear", "reclear"}
  /\ head' = lh
  /\ at' = IF at = "clear" THEN "done" ELSE "none"
  /\ UNCHANGED <<disk, logd, cache, dirty, lh, outstanding, committing, tail,
                 opVars, panicked>>

ReadHead ==
  /\ Running
  /\ at = "read_head"
  /\ lh' = head
  /\ at' = "reinstall"
  /\ tail' = 1
  /\ UNCHANGED <<durableVars, cache, dirty, outstanding, committing, opVars,
                 panicked>>

\* Power fails, or the machine is reset after a panic: what the disk does not
\* hold is lost, and initlog() is about to read the header.
Crash ==
  /\ cache' = [b \in Blocks |-> NoVal]
  /\ dirty' = {}
  /\ lh' = <<>>
  /\ outstanding' = 0
  /\ committing' = FALSE
  /\ at' = "read_head"
  /\ tail' = 1
  /\ pc' = [p \in Procs |-> "idle"]
  /\ blk' = [p \in Procs |-> NoBlock]
  /\ wrote' = [p \in Procs |-> {}]
  /\ panicked' = FALSE
  /\ UNCHANGED durableVars

(***************************************************************************)
(* The specification.                                                      *)
(***************************************************************************)
Committer == WriteLog \/ WriteHead \/ Install \/ ClearMem \/ ClearHead \/ ReadHead

Next ==
  \/ \E p \in Procs :
       \/ BeginOp(p) \/ EndOp(p) \/ EndCommit(p) \/ Brelse(p)
       \/ LogCheck(p) \/ LogAppend(p)
       \/ \E b \in Blocks : Bread(p, b)
       \/ \E v \in Vals : Modify(p, v)
  \/ \E b \in Blocks : Evict(b)
  \/ Committer
  \/ Crash

Spec == Init /\ [][Next]_vars

(***************************************************************************)
(* Properties.                                                             *)
(***************************************************************************)
Labels == {"idle", "begin", "asleep", "op", "buf", "look", "log_write",
           "append", "commit"}

\* Every variable has its type.
TypeOK ==
  /\ disk \in [Blocks -> Vals]
  /\ logd \in [1..LOGSIZE -> Vals]
  /\ head \in Seq(Blocks) /\ Len(head) <= LOGSIZE
  /\ cache \in [Blocks -> Vals \cup {NoVal}]
  /\ dirty \subseteq Blocks
  /\ lh \in Seq(Blocks) /\ Len(lh) <= LOGSIZE
  /\ outstanding \in 0..Cardinality(Procs)
  /\ committing \in BOOLEAN
  /\ at \in {"none", "write_log", "install", "clear", "done", "read_head",
             "reinstall", "reclear"}
  /\ tail \in Nat \ {0}
  /\ pc \in [Procs -> Labels]
  /\ blk \in [Procs -> Blocks \cup {NoBlock}]
  /\ wrote \in [Procs -> SUBSET Blocks]
  /\ panicked \in BOOLEAN

\* What recovery would make of the disk.
Recovered ==
  [b \in Blocks |->
     IF \E i \in 1..Len(head) : head[i] = b
     THEN logd[CHOOSE i \in 1..Len(head) : head[i] = b]
     ELSE disk[b]]

\* What a process that reads a block gets to see.
View ==
  [b \in Blocks |-> IF cache[b] = NoVal THEN Recovered[b] ELSE cache[b]]

Active == {p \in Procs : pc[p] \in {"op", "buf", "log_write", "append"}}

\* Crash atomicity: the log implements a disk that changes by whole groups of
\* file-system calls, whatever commit() was doing when the power failed, and
\* the cache never shows a block other than as last written.
Atomic == INSTANCE AtomicDisk
            WITH durable <- Recovered, view <- View, active <- Active

AtomicSpec == Atomic!Spec

\* The reservation of begin_op() makes the tests of log_write() hold although
\* they are made without the lock; end_op() never finds a commit going on.
NoPanic == ~ panicked

\* Nobody sleeps in begin_op() while there is room: whoever makes room, by
\* ending a call or a commit, wakes the sleepers.
SleepersMustWait == \A p \in Procs : pc[p] = "asleep" => MustWait
===========================================================================
