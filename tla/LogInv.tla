------------------------------- MODULE LogInv -------------------------------
(***************************************************************************)
(* The inductive invariant of Log from which LogProofs derives that the    *)
(* log never overflows and implements AtomicDisk.                          *)
(***************************************************************************)
EXTENDS Log

InOp == {"op", "buf", "log_write", "append"}

\* Types, without the bounds that need counting.
TypeInv ==
  /\ disk \in [Blocks -> Vals]
  /\ logd \in [1..LOGSIZE -> Vals]
  /\ head \in Seq(Blocks)
  /\ cache \in [Blocks -> Vals \cup {NoVal}]
  /\ dirty \subseteq Blocks
  /\ lh \in Seq(Blocks)
  /\ outstanding \in Int
  /\ committing \in BOOLEAN
  /\ at \in {"none", "write_log", "install", "clear", "done", "read_head",
             "reinstall", "reclear"}
  /\ tail \in Nat \ {0}
  /\ pc \in [Procs -> Labels]
  /\ blk \in [Procs -> Blocks \cup {NoBlock}]
  /\ wrote \in [Procs -> SUBSET Blocks]
  /\ panicked \in BOOLEAN

\* A process has a buffer locked exactly between bread() and brelse(); no two
\* have the same one; what it has changed it has counted.
LockInv ==
  /\ \A p \in Procs :
       /\ pc[p] \in {"buf", "look", "log_write", "append"} => blk[p] \in Blocks
       /\ pc[p] \notin {"buf", "look", "log_write", "append"} => blk[p] = NoBlock
       /\ pc[p] \in {"log_write", "append"} => blk[p] \in wrote[p]
       /\ blk[p] \in Blocks => cache[blk[p]] # NoVal
  /\ \A p, q \in Procs : blk[p] = blk[q] /\ blk[p] \in Blocks => p = q

\* What holds in each phase of commit() and of recovery; no call is active.
PhaseInv ==
  /\ committing <=> at \in {"write_log", "install", "clear", "done"}
  /\ at # "none" => \A p \in Procs : pc[p] \notin InOp
  /\ at \in {"none", "write_log", "done"} => head = <<>>
  /\ at \in {"install", "reinstall"} => head = lh
  /\ at \in {"clear", "reclear", "done", "read_head"} => lh = <<>>

\* A block is logged once.
DistinctInv ==
  /\ \A i, j \in 1..Len(lh) : lh[i] = lh[j] => i = j
  /\ \A i, j \in 1..Len(head) : head[i] = head[j] => i = j

\* The pinned buffers are those of the logged blocks not yet installed.
DirtyInv ==
  /\ \A b \in dirty : cache[b] # NoVal
  /\ at \in {"none", "write_log"} =>
       \A b \in Blocks : b \in dirty <=> \E i \in 1..Len(lh) : lh[i] = b
  /\ at = "install" =>
       \A i \in 1..Len(lh) : lh[i] \in dirty <=> tail <= i
  /\ at = "install" =>
       \A b \in dirty : \E i \in 1..Len(lh) : lh[i] = b
  /\ at \notin {"none", "write_log", "install"} => dirty = {}

\* The log blocks written so far, and those installed so far.
LogdInv ==
  /\ at = "write_log" =>
       \A i \in 1..Len(lh) : i < tail => logd[i] = cache[lh[i]]
  /\ at = "install" =>
       \A i \in 1..Len(lh) : cache[lh[i]] \in {NoVal, logd[i]}
  /\ at \in {"install", "reinstall"} =>
       \A i \in 1..Len(lh) : i < tail => disk[lh[i]] = logd[i]
  /\ at \in {"clear", "reclear"} =>
       \A i \in 1..Len(head) : disk[head[i]] = logd[i]

Changing(b) == \E p \in Procs : blk[p] = b /\ pc[p] \in {"log_write", "append"}

\* A cached block that is neither pinned nor being changed is as recovery
\* would make it.
CleanInv ==
  \A b \in Blocks :
    cache[b] # NoVal /\ b \notin dirty /\ ~ Changing(b) =>
      /\ \A i \in 1..Len(head) : head[i] = b => cache[b] = logd[i]
      /\ (\A i \in 1..Len(head) : head[i] # b) => cache[b] = disk[b]

Inv ==
  /\ TypeInv /\ LockInv /\ PhaseInv /\ DistinctInv
  /\ DirtyInv /\ LogdInv /\ CleanInv

\* The blocks in the headers on disk and in memory, and of the latter those
\* that no call in S has written.
HeadEntries == {head[i] : i \in 1..Len(head)}
Entries == {lh[i] : i \in 1..Len(lh)}
Rest(S) == Entries \ UNION {wrote[p] : p \in S}

\* Every active call has its reservation: for any set S of them there is room
\* for MAXOPBLOCKS each besides the blocks that S has not written.
CountInv ==
  /\ outstanding = Cardinality(Active)
  /\ \A p \in Procs : IsFiniteSet(wrote[p]) /\ Cardinality(wrote[p]) <= OpBlocks
  /\ IsFiniteSet(Entries) /\ Cardinality(Entries) = Len(lh)
  /\ \A S \in SUBSET Active :
       Cardinality(Rest(S)) + Cardinality(S) * MAXOPBLOCKS <= LOGSIZE
  /\ Len(head) <= LOGSIZE
  /\ IsFiniteSet(HeadEntries) /\ Cardinality(HeadEntries) = Len(head)

\* Inductive: whatever commit(), recovery, the calls and the cache are doing,
\* the pinned buffers are the logged blocks, the log blocks and home blocks
\* written so far agree with them, clean buffers are as recovery would make
\* them, and every active call has its reservation.
IInv == Inv /\ CountInv
=============================================================================
