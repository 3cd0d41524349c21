----------------------------- MODULE LogProofs -----------------------------
(***************************************************************************)
(* The log of log.c never overflows, and implements AtomicDisk.  First the *)
(* steps that need no counting: what counting gives is assumed there as    *)
(* RoomInv.  Then the cardinalities, the reservations and the theorems.    *)
(***************************************************************************)
EXTENDS LogInv, TLAPS, FiniteSetTheorems

(***************************************************************************)
(* Steps of Log preserve Inv, and are steps of AtomicDisk.                 *)
(***************************************************************************)
\* The log does not overflow, and the last call to end is alone.
RoomInv ==
  /\ Len(lh) <= LOGSIZE /\ Len(head) <= LOGSIZE
  /\ \A p \in Active : outstanding = 1 => Active = {p}

\* The state at boot.
LEMMA InvInit ==
  ASSUME Init
  PROVE  Inv
  <1>1. TypeInv
    <2>1. /\ pc \in [Procs -> Labels] /\ wrote \in [Procs -> SUBSET Blocks]
          /\ blk \in [Procs -> Blocks \cup {NoBlock}]
          /\ cache \in [Blocks -> Vals \cup {NoVal}]
          /\ logd \in [1..LOGSIZE -> Vals]
      BY LogAssumption, Zenon DEF Init, Labels
    <2>2. <<>> \in Seq(Blocks)  OBVIOUS
    <2>3. committing \in BOOLEAN /\ panicked \in BOOLEAN  BY Zenon DEF Init
    <2>4. /\ disk \in [Blocks -> Vals] /\ dirty \subseteq Blocks
          /\ outstanding \in Int /\ tail \in Nat \ {0}
          /\ at = "read_head" /\ head = <<>> /\ lh = <<>>
      BY DEF Init
    <2> QED  BY <2>1, <2>2, <2>3, <2>4, Zenon DEF TypeInv
  <1>2. LockInv /\ PhaseInv  BY LogAssumption, Zenon DEF Init, LockInv,
     PhaseInv, InOp
  <1>3. DistinctInv /\ DirtyInv  BY DEF Init, DistinctInv, DirtyInv
  <1>4. LogdInv /\ CleanInv  BY Zenon DEF Init, LogdInv, CleanInv
  <1> QED  BY <1>1, <1>2, <1>3, <1>4, Zenon DEF Inv

\* What bread() returns is the contents of a block.
LEMMA CachedVal ==
  ASSUME TypeInv, NEW b \in Blocks
  PROVE  Cached(b) \in Vals
  BY Zenon DEF TypeInv, Cached

\* The loops of commit() and of recovery stay inside the log.
LEMMA TailEntry ==
  ASSUME TypeInv, RoomInv, tail <= Len(lh)
  PROVE  /\ tail \in 1..Len(lh) /\ tail \in 1..LOGSIZE
         /\ lh[tail] \in Blocks /\ logd[tail] \in Vals
  <1>1. tail \in 1..Len(lh) /\ tail \in 1..LOGSIZE
    BY LogAssumption DEF TypeInv, RoomInv
  <1> QED  BY <1>1 DEF TypeInv

\* end_op() moves its process on and wakes sleepers.
LEMMA EndOpPc ==
  ASSUME TypeInv, NEW p \in Procs, EndOp(p)
  PROVE  /\ pc[p] = "op" /\ pc'[p] \in {"op", "commit", "idle"}
         /\ UNCHANGED <<blk, cache>>
         /\ \A q \in Procs : q # p =>
              /\ wrote'[q] = wrote[q]
              /\ pc'[q] = pc[q] \/ (pc[q] = "asleep" /\ pc'[q] = "begin")
  <1>1. /\ pc[p] = "op" /\ UNCHANGED <<blk, cache>>
        /\ wrote' = [wrote EXCEPT ![p] = {}]
    BY Zenon DEF EndOp
  <1>2. \/ pc' = pc
        \/ pc' = [pc EXCEPT ![p] = "commit"]
        \/ pc' = [Wakeup(pc) EXCEPT ![p] = "idle"]
    BY Zenon DEF EndOp
  <1>3. /\ pc'[p] \in {"op", "commit", "idle"}
        /\ \A q \in Procs : q # p =>
             pc'[q] = pc[q] \/ (pc[q] = "asleep" /\ pc'[q] = "begin")
    <2>1. CASE pc' = pc  BY <2>1, <1>1, Zenon
    <2>2. CASE pc' = [pc EXCEPT ![p] = "commit"]  BY <2>2, Zenon DEF TypeInv
    <2>3. CASE pc' = [Wakeup(pc) EXCEPT ![p] = "idle"]
      <3>1. \A q \in Procs :
              pc'[q] = IF q = p THEN "idle"
                       ELSE IF pc[q] = "asleep" THEN "begin" ELSE pc[q]
        BY <2>3, Zenon DEF Wakeup
      <3> QED  BY <3>1, Zenon
    <2> QED  BY <1>2, <2>1, <2>2, <2>3, Zenon
  <1>4. \A q \in Procs : q # p => wrote'[q] = wrote[q]  BY <1>1, Zenon DEF
     TypeInv
  <1> QED  BY <1>1, <1>3, <1>4, Zenon

(***************************************************************************)
(* Types.                                                                  *)
(***************************************************************************)
\* Every step preserves the types.
LEMMA TypeNext ==
  ASSUME TypeInv, LockInv, RoomInv, [Next]_vars
  PROVE  TypeInv'
  <1>1. ASSUME NEW p \in Procs, BeginOp(p)  PROVE  TypeInv'
    BY <1>1 DEF TypeInv, BeginOp, durableVars, Labels
  <1>2. ASSUME NEW p \in Procs, EndOp(p)  PROVE  TypeInv'
    <2>1. pc' \in [Procs -> Labels]
      BY <1>2, Zenon DEF TypeInv, EndOp, Wakeup, Labels
    <2>2. wrote' \in [Procs -> SUBSET Blocks] /\ outstanding' \in Int
      BY <1>2 DEF TypeInv, EndOp
    <2>3. committing' \in BOOLEAN /\ panicked' \in BOOLEAN
      BY <1>2, Zenon DEF TypeInv, EndOp
    <2>4. /\ at' \in {at, "done", "write_log"} /\ tail' \in {tail, 1}
          /\ UNCHANGED <<disk, logd, head, cache, dirty, lh, blk>>
      BY <1>2, Zenon DEF EndOp, durableVars
    <2> QED  BY <2>1, <2>2, <2>3, <2>4 DEF TypeInv
  <1>3. ASSUME NEW p \in Procs, EndCommit(p)  PROVE  TypeInv'
    BY <1>3, Zenon DEF TypeInv, EndCommit, Wakeup, durableVars, Labels
  <1>4. ASSUME NEW p \in Procs, Brelse(p)  PROVE  TypeInv'
    BY <1>4, Zenon DEF TypeInv, Brelse, durableVars, Labels
  <1>5. ASSUME NEW p \in Procs, LogCheck(p)  PROVE  TypeInv'
    BY <1>5, Zenon DEF TypeInv, LogCheck, durableVars, Labels
  <1>6. ASSUME NEW p \in Procs, LogAppend(p)  PROVE  TypeInv'
    <2>1. blk[p] \in Blocks  BY <1>6, Zenon DEF LockInv, LogAppend
    <2> QED  BY <1>6, <2>1 DEF TypeInv, LogAppend, durableVars, Labels
  <1>7. ASSUME NEW p \in Procs, NEW b \in Blocks, Bread(p, b)  PROVE  TypeInv'
    BY <1>7, CachedVal, Zenon DEF TypeInv, Bread, durableVars, Labels
  <1>8. ASSUME NEW p \in Procs, NEW v \in Vals, Modify(p, v)  PROVE  TypeInv'
    <2>1. blk[p] \in Blocks  BY <1>8, Zenon DEF LockInv, Modify
    <2> QED  BY <1>8, <2>1, Zenon DEF TypeInv, Modify, durableVars, Labels
  <1>9. ASSUME NEW b \in Blocks, Evict(b)  PROVE  TypeInv'
    BY <1>9, Zenon DEF TypeInv, Evict, durableVars, opVars
  <1>10. CASE WriteLog
    <2>1. lh[tail] \in Blocks /\ Cached(lh[tail]) \in Vals
      BY <1>10, TailEntry, CachedVal, Zenon DEF WriteLog
    <2>2. cache' \in [Blocks -> Vals \cup {NoVal}] /\ tail' \in Nat \ {0}
      BY <1>10, <2>1 DEF TypeInv, WriteLog
    <2>3. logd' \in [1..LOGSIZE -> Vals]
      BY <1>10, <2>1, Zenon DEF TypeInv, WriteLog
    <2> QED  BY <1>10, <2>2, <2>3, Zenon DEF TypeInv, WriteLog, opVars
  <1>11. CASE Install
    <2>1. lh[tail] \in Blocks /\ logd[tail] \in Vals
      BY <1>11, TailEntry, Zenon DEF Install
    <2>2. /\ cache' \in [Blocks -> Vals \cup {NoVal}]
          /\ disk' \in [Blocks -> Vals] /\ tail' \in Nat \ {0}
      BY <1>11, <2>1 DEF TypeInv, Install
    <2> QED  BY <1>11, <2>2, Zenon DEF TypeInv, Install, opVars
  <1>12. CASE WriteHead \/ ReadHead
    BY <1>12 DEF TypeInv, WriteHead, ReadHead, opVars, durableVars
  <1>13. CASE ClearMem \/ ClearHead
    <2>1. <<>> \in Seq(Blocks)  OBVIOUS
    <2>2. /\ lh' \in Seq(Blocks) /\ head' \in Seq(Blocks) /\ tail' \in Nat \ {0}
          /\ at' \in {"clear", "reclear", "done", "none"}
      <3>1. CASE ClearMem  BY <3>1, <2>1 DEF TypeInv, ClearMem, durableVars
      <3>2. CASE ClearHead  BY <3>2, Zenon DEF TypeInv, ClearHead
      <3> QED  BY <1>13, <3>1, <3>2, Zenon
    <2>3. UNCHANGED <<disk, logd, cache, dirty, outstanding, committing, pc, blk,
                      wrote, panicked>>
      BY <1>13, Zenon DEF ClearMem, ClearHead, opVars, durableVars
    <2> QED  BY <2>2, <2>3, Zenon DEF TypeInv
  <1>14. CASE Crash
    <2>1. /\ pc' \in [Procs -> Labels] /\ wrote' \in [Procs -> SUBSET Blocks]
          /\ blk' \in [Procs -> Blocks \cup {NoBlock}]
          /\ cache' \in [Blocks -> Vals \cup {NoVal}] /\ lh' \in Seq(Blocks)
      BY <1>14 DEF Crash, Labels
    <2>2. committing' \in BOOLEAN /\ panicked' \in BOOLEAN
      BY <1>14, Zenon DEF Crash
    <2>3. /\ UNCHANGED <<disk, logd, head>> /\ dirty' \subseteq Blocks
          /\ outstanding' \in Int /\ tail' \in Nat \ {0} /\ at' = "read_head"
      BY <1>14 DEF Crash, durableVars
    <2> QED  BY <2>1, <2>2, <2>3, Zenon DEF TypeInv
  <1>15. CASE UNCHANGED vars  BY <1>15, Zenon DEF TypeInv, vars
  <1> QED
    BY <1>1, <1>2, <1>3, <1>4, <1>5, <1>6, <1>7, <1>8, <1>9, <1>10, <1>11,
       <1>12, <1>13, <1>14, <1>15, Zenon DEF Next, Committer

(***************************************************************************)
(* Buffer locks.                                                           *)
(***************************************************************************)
\* bread(), log_write() and brelse() keep the buffer locks exclusive.
LEMMA LockNext ==
  ASSUME TypeInv, LockInv, RoomInv, [Next]_vars
  PROVE  LockInv'
  <1>1. ASSUME NEW p \in Procs, BeginOp(p)  PROVE  LockInv'
    BY <1>1 DEF TypeInv, LockInv, BeginOp
  <1>2. ASSUME NEW p \in Procs, EndOp(p)  PROVE  LockInv'
    BY <1>2, EndOpPc DEF LockInv
  <1>3. ASSUME NEW p \in Procs, EndCommit(p)  PROVE  LockInv'
    BY <1>3, Zenon DEF TypeInv, LockInv, EndCommit, Wakeup
  <1>4. ASSUME NEW p \in Procs, Brelse(p)  PROVE  LockInv'
    BY <1>4, LogAssumption DEF TypeInv, LockInv, Brelse
  <1>5. ASSUME NEW p \in Procs, LogCheck(p)  PROVE  LockInv'
    BY <1>5 DEF TypeInv, LockInv, LogCheck
  <1>6. ASSUME NEW p \in Procs, LogAppend(p)  PROVE  LockInv'
    BY <1>6, LogAssumption, Zenon DEF TypeInv, LockInv, LogAppend
  <1>7. ASSUME NEW p \in Procs, NEW b \in Blocks, Bread(p, b)  PROVE  LockInv'
    <2>1. Cached(b) # NoVal  BY CachedVal, LogAssumption, Zenon
    <2> QED  BY <1>7, <2>1 DEF TypeInv, LockInv, Bread, Locked
  <1>8. ASSUME NEW p \in Procs, NEW v \in Vals, Modify(p, v)  PROVE  LockInv'
    BY <1>8, LogAssumption DEF TypeInv, LockInv, Modify
  <1>9. ASSUME NEW b \in Blocks, Evict(b)  PROVE  LockInv'
    BY <1>9, Zenon DEF TypeInv, LockInv, Evict, Locked, opVars
  <1>10. CASE WriteLog
    <2>1. Cached(lh[tail]) # NoVal
      BY <1>10, TailEntry, CachedVal, LogAssumption, Zenon DEF WriteLog
    <2> QED  BY <1>10, <2>1, Zenon DEF TypeInv, LockInv, WriteLog, opVars
  <1>11. CASE Install
    <2>1. logd[tail] # NoVal  BY <1>11, TailEntry, LogAssumption, Zenon DEF
       Install
    <2> QED  BY <1>11, <2>1, Zenon DEF TypeInv, LockInv, Install, opVars
  <1>12. CASE WriteHead \/ ClearMem \/ ClearHead \/ ReadHead
    BY <1>12, Zenon DEF LockInv, WriteHead, ClearMem, ClearHead, ReadHead,
       opVars
  <1>13. CASE Crash  BY <1>13, LogAssumption, Zenon DEF LockInv, Crash
  <1>14. CASE UNCHANGED vars  BY <1>14, Zenon DEF LockInv, vars
  <1> QED
    BY <1>1, <1>2, <1>3, <1>4, <1>5, <1>6, <1>7, <1>8, <1>9, <1>10, <1>11,
       <1>12, <1>13, <1>14, Zenon DEF Next, Committer

(***************************************************************************)
(* Phases.                                                                 *)
(***************************************************************************)
\* While a call is active there is no commit and the header on disk is empty.
LEMMA InOpNone ==
  ASSUME PhaseInv, NEW p \in Procs, pc[p] \in InOp
  PROVE  at = "none" /\ head = <<>> /\ ~ committing
  BY Zenon DEF PhaseInv

\* A step of a process that keeps the phase.
LEMMA PhaseSame ==
  ASSUME PhaseInv, UNCHANGED <<committing, at, head>>,
         at # "none" => lh' = lh,
         at # "none" => \A q \in Procs : pc'[q] \in InOp => pc[q] \in InOp
  PROVE  PhaseInv'
  BY Zenon DEF PhaseInv

\* end_op() of the last call begins a commit, with no call active.
LEMMA PhaseEnd ==
  ASSUME TypeInv, PhaseInv, RoomInv, NEW p \in Procs, EndOp(p)
  PROVE  PhaseInv'
  <1>1. pc[p] = "op" /\ pc[p] \in InOp  BY Zenon DEF EndOp, InOp
  <1>2. at = "none" /\ head = <<>> /\ ~ committing  BY <1>1, InOpNone, Zenon
  <1>3. CASE outstanding = 1
    <2>1. /\ committing' = TRUE /\ head' = head /\ lh' = lh
          /\ at' = IF lh = <<>> THEN "done" ELSE "write_log"
      BY <1>2, <1>3, Zenon DEF EndOp, durableVars
    <2>2. pc' = [pc EXCEPT ![p] = "commit"]  BY <1>2, <1>3, Zenon DEF EndOp
    <2>3. Active = {p}  BY <1>1, <1>3, Zenon DEF RoomInv, Active
    <2>4. \A q \in Procs : pc'[q] \notin InOp
      BY <2>2, <2>3, Zenon DEF Active, InOp, TypeInv
    <2>5. committing' <=> at' \in {"write_log", "install", "clear", "done"}
      BY <2>1, Zenon
    <2> QED  BY <1>2, <2>1, <2>4, <2>5, Zenon DEF PhaseInv
  <1>4. CASE outstanding # 1
    <2>1. UNCHANGED <<committing, at, head, lh>>
      BY <1>2, <1>4, Zenon DEF EndOp, durableVars
    <2> QED  BY <1>2, <2>1, PhaseSame, Zenon
  <1> QED  BY <1>3, <1>4, Zenon

\* Every step keeps commit() and recovery in their order.
LEMMA PhaseNext ==
  ASSUME TypeInv, PhaseInv, RoomInv, [Next]_vars
  PROVE  PhaseInv'
  <1>1. ASSUME NEW p \in Procs, BeginOp(p)  PROVE  PhaseInv'
    <2>1. UNCHANGED <<committing, at, head, lh>>
      BY <1>1, Zenon DEF BeginOp, durableVars
    <2>2. at # "none" => MustWait
      BY <1>1, Zenon DEF BeginOp, Up, PhaseInv, MustWait, TypeInv
    <2>3. at # "none" => \A q \in Procs : pc'[q] \in InOp => pc[q] \in InOp
      BY <1>1, <2>2, Zenon DEF BeginOp, InOp, TypeInv
    <2> QED  BY <2>1, <2>3, PhaseSame, Zenon
  <1>2. ASSUME NEW p \in Procs, EndOp(p)  PROVE  PhaseInv'  BY <1>2, PhaseEnd,
     Zenon
  <1>3. ASSUME NEW p \in Procs, EndCommit(p)  PROVE  PhaseInv'
    <2>1. /\ at = "done" /\ at' = "none" /\ committing' = FALSE
          /\ UNCHANGED <<head, lh>>
      BY <1>3, Zenon DEF EndCommit, durableVars
    <2>2. committing' <=> at' \in {"write_log", "install", "clear", "done"}
      BY <2>1, Zenon
    <2> QED  BY <2>1, <2>2, Zenon DEF PhaseInv
  <1>4. ASSUME NEW p \in Procs, Brelse(p) \/ LogCheck(p)  PROVE  PhaseInv'
    <2>1. UNCHANGED <<committing, at, head, lh>>
      BY <1>4, Zenon DEF Brelse, LogCheck, durableVars
    <2>2. \A q \in Procs : pc'[q] \in InOp => pc[q] \in InOp
      BY <1>4, Zenon DEF Brelse, LogCheck, InOp, TypeInv
    <2> QED  BY <2>1, <2>2, PhaseSame, Zenon
  <1>5. ASSUME NEW p \in Procs, LogAppend(p)  PROVE  PhaseInv'
    <2>1. UNCHANGED <<committing, at, head>> /\ pc[p] \in InOp
      BY <1>5, Zenon DEF LogAppend, durableVars, InOp
    <2> QED  BY <2>1, InOpNone, PhaseSame, Zenon
  <1>6. ASSUME NEW p \in Procs, NEW b \in Blocks, Bread(p, b)  PROVE  PhaseInv'
    <2>1. UNCHANGED <<committing, at, head, lh>>
      BY <1>6, Zenon DEF Bread, durableVars
    <2>2. \A q \in Procs : pc'[q] \in InOp => pc[q] \in InOp
      BY <1>6, Zenon DEF Bread, InOp, TypeInv
    <2> QED  BY <2>1, <2>2, PhaseSame, Zenon
  <1>7. ASSUME NEW p \in Procs, NEW v \in Vals, Modify(p, v)  PROVE  PhaseInv'
    <2>1. UNCHANGED <<committing, at, head, lh>>
      BY <1>7, Zenon DEF Modify, durableVars
    <2>2. \A q \in Procs : pc'[q] \in InOp => pc[q] \in InOp
      BY <1>7, Zenon DEF Modify, InOp, TypeInv
    <2> QED  BY <2>1, <2>2, PhaseSame, Zenon
  <1>8. ASSUME (\E b \in Blocks : Evict(b)) \/ WriteLog \/ Install
        PROVE  PhaseInv'
    <2>1. UNCHANGED <<committing, at, head, lh, pc>>
      BY <1>8, Zenon DEF Evict, WriteLog, Install, durableVars, opVars
    <2> QED  BY <2>1, PhaseSame, Zenon
  <1>9. CASE WriteHead  BY <1>9, Zenon DEF PhaseInv, WriteHead, opVars
  <1>10. CASE ClearMem  BY <1>10, Zenon DEF PhaseInv, ClearMem, durableVars,
     opVars
  <1>11. CASE ClearHead  BY <1>11, Zenon DEF PhaseInv, ClearHead, opVars
  <1>12. CASE ReadHead  BY <1>12, Zenon DEF PhaseInv, ReadHead, durableVars,
     opVars
  <1>13. CASE Crash
    <2>1. /\ committing' = FALSE /\ at' = "read_head" /\ lh' = <<>>
          /\ \A p \in Procs : pc'[p] = "idle"
      BY <1>13, Zenon DEF Crash
    <2> QED  BY <2>1, Zenon DEF PhaseInv, InOp
  <1>14. CASE UNCHANGED vars  BY <1>14, PhaseSame, Zenon DEF vars
  <1> QED
    BY <1>1, <1>2, <1>3, <1>4, <1>5, <1>6, <1>7, <1>8, <1>9, <1>10, <1>11,
       <1>12, <1>13, <1>14, Zenon DEF Next, Committer

(***************************************************************************)
(* Log absorption: no block is logged twice.                               *)
(***************************************************************************)
\* log_write() adds no block that the header has.
LEMMA DistinctNext ==
  ASSUME TypeInv, LockInv, DistinctInv, PhaseInv, [Next]_vars
  PROVE  DistinctInv'
  <1>1. ASSUME NEW p \in Procs,
               \/ BeginOp(p) \/ EndOp(p) \/ EndCommit(p) \/ Brelse(p)
               \/ LogCheck(p)
               \/ \E b \in Blocks : Bread(p, b)
               \/ \E v \in Vals : Modify(p, v)
        PROVE  UNCHANGED <<lh, head>>
    BY <1>1, Zenon DEF BeginOp, EndOp, EndCommit, Brelse, LogCheck, Bread,
       Modify,
                durableVars
  <1>2. ASSUME (\E b \in Blocks : Evict(b)) \/ WriteLog \/ Install
        PROVE  UNCHANGED <<lh, head>>
    BY <1>2, Zenon DEF Evict, WriteLog, Install, durableVars
  <1>3. ASSUME UNCHANGED <<lh, head>>  PROVE  DistinctInv'
    BY <1>3, Zenon DEF DistinctInv
  <1>4. ASSUME NEW p \in Procs, LogAppend(p)  PROVE  DistinctInv'
    <2>1. blk[p] \in Blocks /\ head' = head
      BY <1>4, Zenon DEF LogAppend, LockInv, durableVars
    <2>2. CASE \E i \in 1..Len(lh) : lh[i] = blk[p]
      <3>1. lh' = lh  BY <1>4, <2>2, Zenon DEF LogAppend
      <3> QED  BY <3>1, <2>1, <1>3, Zenon
    <2>3. CASE ~ \E i \in 1..Len(lh) : lh[i] = blk[p]
      <3>1. lh' = Append(lh, blk[p])  BY <1>4, <2>3, Zenon DEF LogAppend
      <3>2. /\ Len(lh') = Len(lh) + 1 /\ lh'[Len(lh) + 1] = blk[p]
            /\ \A i \in 1..Len(lh) : lh'[i] = lh[i]
            /\ Len(lh) \in Nat
        BY <3>1, <2>1 DEF TypeInv
      <3>3. \A i \in 1..Len(lh') : i \in 1..Len(lh) \/ i = Len(lh) + 1
        BY <3>2
      <3> QED  BY <3>2, <3>3, <2>1, <2>3 DEF DistinctInv
    <2> QED  BY <2>2, <2>3, Zenon
  <1>5. CASE WriteHead  BY <1>5, Zenon DEF WriteHead, DistinctInv
  <1>6. CASE ReadHead  BY <1>6, Zenon DEF ReadHead, DistinctInv, durableVars
  <1>7. CASE ClearMem  BY <1>7 DEF ClearMem, DistinctInv, durableVars
  <1>8. CASE ClearHead  BY <1>8, Zenon DEF ClearHead, DistinctInv
  <1>9. CASE Crash  BY <1>9 DEF Crash, DistinctInv, durableVars
  <1>10. CASE UNCHANGED vars  BY <1>10, <1>3, Zenon DEF vars
  <1> QED
    BY <1>1, <1>2, <1>3, <1>4, <1>5, <1>6, <1>7, <1>8, <1>9, <1>10, Zenon
    DEF Next, Committer

(***************************************************************************)
(* Pinned buffers.                                                         *)
(***************************************************************************)
\* A step that keeps the pinned buffers and the header.
LEMMA DirtySame ==
  ASSUME DirtyInv, UNCHANGED <<dirty, lh, at>>, at = "install" => tail' = tail,
         \A b \in dirty : cache'[b] # NoVal
  PROVE  DirtyInv'
  BY Zenon DEF DirtyInv

\* The logged blocks that are still to be written are in the cache.
LEMMA LoggedCached ==
  ASSUME TypeInv, DirtyInv, at \in {"none", "write_log"}, NEW i \in 1..Len(lh)
  PROVE  lh[i] \in Blocks /\ lh[i] \in dirty /\ cache[lh[i]] # NoVal
  <1>1. lh[i] \in Blocks  BY DEF TypeInv
  <1> QED  BY <1>1, Zenon DEF DirtyInv

\* A commit begins with exactly the logged blocks pinned.
LEMMA DirtyEnd ==
  ASSUME TypeInv, PhaseInv, DirtyInv, NEW p \in Procs, EndOp(p)
  PROVE  DirtyInv'
  <1>1. at = "none"  BY InOpNone, Zenon DEF EndOp, InOp
  <1>2. UNCHANGED <<dirty, lh, cache>> /\ at' \in {"none", "done", "write_log"}
    BY <1>1, Zenon DEF EndOp
  <1>3. at' = "done" => lh = <<>>  BY <1>1, Zenon DEF EndOp
  <1>4. at' = "done" => dirty = {}
    <2>1. lh = <<>> => Len(lh) = 0  OBVIOUS
    <2> QED  BY <1>1, <1>3, <2>1 DEF DirtyInv, TypeInv
  <1> QED  BY <1>1, <1>2, <1>4, Zenon DEF DirtyInv

\* log_write() pins the block that it logs.
LEMMA DirtyAppend ==
  ASSUME TypeInv, LockInv, PhaseInv, DirtyInv, NEW p \in Procs, LogAppend(p)
  PROVE  DirtyInv'
  <1>1. at = "none"  BY InOpNone, Zenon DEF LogAppend, InOp
  <1>2. blk[p] \in Blocks /\ cache[blk[p]] # NoVal  BY Zenon DEF LockInv,
     LogAppend
  <1>3. UNCHANGED <<cache, at>> /\ dirty' = dirty \cup {blk[p]}
    BY Zenon DEF LogAppend
  <1>4. \A b \in Blocks : (\E i \in 1..Len(lh') : lh'[i] = b)
                           <=> (\E i \in 1..Len(lh) : lh[i] = b) \/ b = blk[p]
    <2>1. CASE \E i \in 1..Len(lh) : lh[i] = blk[p]
      <3>1. lh' = lh  BY <2>1, Zenon DEF LogAppend
      <3> QED  BY <3>1, <2>1, Zenon
    <2>2. CASE ~ \E i \in 1..Len(lh) : lh[i] = blk[p]
      <3>1. lh' = Append(lh, blk[p])  BY <2>2, Zenon DEF LogAppend
      <3>2. /\ Len(lh') = Len(lh) + 1 /\ lh'[Len(lh) + 1] = blk[p]
            /\ \A i \in 1..Len(lh) : lh'[i] = lh[i]
            /\ Len(lh) \in Nat
        BY <3>1, <1>2 DEF TypeInv
      <3>3. 1..Len(lh') = 1..Len(lh) \cup {Len(lh) + 1}  BY <3>2
      <3> QED  BY <3>2, <3>3, Zenon
    <2> QED  BY <2>1, <2>2, Zenon
  <1> QED  BY <1>1, <1>2, <1>3, <1>4, Zenon DEF DirtyInv

\* install_trans() unpins the block it has written.
LEMMA DirtyInstall ==
  ASSUME TypeInv, RoomInv, DistinctInv, DirtyInv, Install
  PROVE  DirtyInv'
  <1> DEFINE b == lh[tail]
  <1>1. /\ tail \in 1..Len(lh) /\ b \in Blocks /\ logd[tail] \in Vals
        /\ tail \in Nat
    BY TailEntry, Zenon DEF Install, TypeInv
  <1>2. /\ cache' = [cache EXCEPT ![b] = logd[tail]] /\ dirty' = dirty \ {b}
        /\ tail' = tail + 1 /\ UNCHANGED <<lh, at>>
        /\ at \in {"install", "reinstall"}
    BY Zenon DEF Install
  <1>3. \A c \in dirty' : cache'[c] # NoVal  BY <1>2, Zenon DEF DirtyInv,
     TypeInv
  <1>4. CASE at = "install"
    <2>1. ASSUME NEW i \in 1..Len(lh)  PROVE  lh[i] \in dirty' <=> tail' <= i
      <3>1. i = tail \/ lh[i] # b  BY <1>1, Zenon DEF DistinctInv
      <3>2. lh[i] \in dirty <=> tail <= i  BY <1>4, Zenon DEF DirtyInv
      <3>3. CASE i = tail
        <4>1. lh[i] \notin dirty' /\ ~ (tail' <= i)  BY <3>3, <1>2, <1>1
        <4> QED  BY <4>1, Zenon
      <3>4. CASE i # tail
        <4>1. lh[i] \in dirty' <=> lh[i] \in dirty  BY <3>1, <3>4, <1>2, Zenon
        <4>2. tail' <= i <=> tail <= i  BY <3>4, <1>1, <1>2
        <4> QED  BY <4>1, <4>2, <3>2, Zenon
      <3> QED  BY <3>3, <3>4, Zenon
    <2>2. \A c \in dirty' : \E i \in 1..Len(lh) : lh[i] = c
      BY <1>2, <1>4, Zenon DEF DirtyInv
    <2> QED  BY <1>2, <1>3, <1>4, <2>1, <2>2, Zenon DEF DirtyInv
  <1>5. CASE at = "reinstall"
    <2>1. dirty' = {}  BY <1>2, <1>5, Zenon DEF DirtyInv
    <2> QED  BY <1>2, <1>5, <2>1, Zenon DEF DirtyInv
  <1> QED  BY <1>2, <1>4, <1>5, Zenon

\* When the header is cleared or read nothing is pinned.
LEMMA DirtyClear ==
  ASSUME TypeInv, PhaseInv, DirtyInv, ClearMem \/ ClearHead \/ ReadHead
  PROVE  DirtyInv'
  <1>1. dirty = {}
    <2>1. CASE ClearMem
      <3>1. tail > Len(lh) /\ at \in {"install", "reinstall"}
        BY <2>1, Zenon DEF ClearMem
      <3>2. CASE at = "install"
        <4>1. \A i \in 1..Len(lh) : ~ (tail <= i)  BY <3>1 DEF TypeInv
        <4> QED  BY <3>2, <4>1, Zenon DEF DirtyInv
      <3> QED  BY <3>1, <3>2, Zenon DEF DirtyInv
    <2>2. CASE ClearHead \/ ReadHead
      BY <2>2, Zenon DEF DirtyInv, ClearHead, ReadHead
    <2> QED  BY <2>1, <2>2, Zenon
  <1>2. dirty' = {}  BY <1>1, Zenon DEF ClearMem, ClearHead, ReadHead
  <1>3. at' \in {"clear", "reclear", "done", "none", "reinstall"}
    BY Zenon DEF ClearMem, ClearHead, ReadHead
  <1>4. at' = "none" => lh' = <<>>
    BY Zenon DEF ClearMem, ClearHead, ReadHead, PhaseInv
  <1>5. at' = "none" => Len(lh') = 0  BY <1>4
  <1> QED  BY <1>2, <1>3, <1>5 DEF DirtyInv

\* Every step keeps the pinned buffers those of the logged blocks.
LEMMA DirtyNext ==
  ASSUME TypeInv, LockInv, PhaseInv, DistinctInv, DirtyInv, RoomInv, [Next]_vars
  PROVE  DirtyInv'
  <1>1. ASSUME NEW p \in Procs, BeginOp(p) \/ Brelse(p) \/ LogCheck(p)
        PROVE  DirtyInv'
    <2>1. UNCHANGED <<dirty, lh, at, tail, cache>>
      BY <1>1, Zenon DEF BeginOp, Brelse, LogCheck
    <2> QED  BY <2>1, DirtySame, Zenon DEF DirtyInv
  <1>2. ASSUME NEW p \in Procs, EndOp(p)  PROVE  DirtyInv'  BY <1>2, DirtyEnd,
     Zenon
  <1>3. ASSUME NEW p \in Procs, EndCommit(p)  PROVE  DirtyInv'
    <2>1. at = "done" /\ at' = "none" /\ UNCHANGED <<dirty, lh, cache>>
      BY <1>3, Zenon DEF EndCommit
    <2>2. lh = <<>> /\ Len(lh) = 0 /\ dirty = {}  BY <2>1, Zenon DEF PhaseInv,
       DirtyInv
    <2> QED  BY <2>1, <2>2 DEF DirtyInv
  <1>4. ASSUME NEW p \in Procs, LogAppend(p)  PROVE  DirtyInv'
    BY <1>4, DirtyAppend, Zenon
  <1>5. ASSUME NEW p \in Procs, NEW b \in Blocks, Bread(p, b)  PROVE  DirtyInv'
    <2>1. UNCHANGED <<dirty, lh, at, tail>>  BY <1>5, Zenon DEF Bread
    <2>2. \A c \in dirty : cache'[c] # NoVal
      <3>1. cache' = [cache EXCEPT ![b] = Cached(b)]  BY <1>5, Zenon DEF Bread
      <3>2. Cached(b) # NoVal  BY CachedVal, LogAssumption, Zenon
      <3>3. \A c \in dirty : c \in Blocks /\ cache[c] # NoVal
        BY Zenon DEF DirtyInv, TypeInv
      <3>4. cache \in [Blocks -> Vals \cup {NoVal}]  BY Zenon DEF TypeInv
      <3> QED  BY <3>1, <3>2, <3>3, <3>4, Zenon
    <2> QED  BY <2>1, <2>2, DirtySame, Zenon
  <1>6. ASSUME NEW p \in Procs, NEW v \in Vals, Modify(p, v)  PROVE  DirtyInv'
    <2>1. UNCHANGED <<dirty, lh, at, tail>>  BY <1>6, Zenon DEF Modify
    <2>2. \A c \in dirty : cache'[c] # NoVal
      BY <1>6, LogAssumption, Zenon DEF Modify, DirtyInv, TypeInv
    <2> QED  BY <2>1, <2>2, DirtySame, Zenon
  <1>7. ASSUME NEW b \in Blocks, Evict(b)  PROVE  DirtyInv'
    <2>1. UNCHANGED <<dirty, lh, at, tail>>  BY <1>7, Zenon DEF Evict
    <2>2. \A c \in dirty : cache'[c] # NoVal  BY <1>7, Zenon DEF Evict,
       DirtyInv, TypeInv
    <2> QED  BY <2>1, <2>2, DirtySame, Zenon
  <1>8. CASE WriteLog
    <2>1. UNCHANGED <<dirty, lh, at>> /\ at = "write_log"  BY <1>8, Zenon DEF
       WriteLog
    <2>2. Cached(lh[tail]) # NoVal
      BY <1>8, TailEntry, CachedVal, LogAssumption, Zenon DEF WriteLog
    <2>3. \A c \in dirty : cache'[c] # NoVal
      BY <1>8, <2>2, Zenon DEF WriteLog, DirtyInv, TypeInv
    <2> QED  BY <2>1, <2>3, DirtySame, Zenon
  <1>9. CASE WriteHead
    <2>1. /\ UNCHANGED <<dirty, lh, cache>> /\ tail' = 1 /\ at' = "install"
          /\ at = "write_log"
      BY <1>9, Zenon DEF WriteHead
    <2>2. \A i \in 1..Len(lh) : lh[i] \in dirty /\ 1 <= i
      BY <2>1, LoggedCached DEF TypeInv
    <2>3. \A b \in dirty : \E i \in 1..Len(lh) : lh[i] = b
      BY <2>1, Zenon DEF DirtyInv, TypeInv
    <2> QED  BY <2>1, <2>2, <2>3, Zenon DEF DirtyInv
  <1>10. CASE Install  BY <1>10, DirtyInstall, Zenon
  <1>11. CASE ClearMem \/ ClearHead \/ ReadHead  BY <1>11, DirtyClear, Zenon
  <1>12. CASE Crash
    <2>1. dirty' = {} /\ at' = "read_head"  BY <1>12, Zenon DEF Crash
    <2> QED  BY <2>1, Zenon DEF DirtyInv
  <1>13. CASE UNCHANGED vars  BY <1>13, DirtySame, Zenon DEF vars, DirtyInv
  <1> QED
    BY <1>1, <1>2, <1>3, <1>4, <1>5, <1>6, <1>7, <1>8, <1>9, <1>10, <1>11,
       <1>12, <1>13, Zenon DEF Next, Committer

(***************************************************************************)
(* Log blocks, and blocks installed from them.                             *)
(***************************************************************************)
\* A step that keeps the disk, the header and the logged buffers.
LEMMA LogdSame ==
  ASSUME LogdInv, UNCHANGED <<logd, disk, head, lh, at>>,
         at # "none" => tail' = tail,
         at = "write_log" => \A i \in 1..Len(lh) : cache'[lh[i]] = cache[lh[i]],
         at = "install" => \A i \in 1..Len(lh) :
                             cache'[lh[i]] \in {NoVal, cache[lh[i]], logd[i]}
  PROVE  LogdInv'
  BY DEF LogdInv

\* Once the system is up, a block that is not in the cache has been installed.
LEMMA Installed ==
  ASSUME TypeInv, PhaseInv, DirtyInv, LogdInv,
         at \notin {"read_head", "reinstall"},
         NEW i \in 1..Len(head), cache[head[i]] = NoVal
  PROVE  disk[head[i]] = logd[i]
  <1>1. i \in Nat /\ tail \in Nat /\ i > 0  BY DEF TypeInv
  <1>2. CASE at = "install"
    <2>1. head = lh  BY <1>2, Zenon DEF PhaseInv
    <2>2. lh[i] \notin dirty  BY <2>1, Zenon DEF DirtyInv
    <2>3. i < tail  BY <1>1, <1>2, <2>1, <2>2 DEF DirtyInv
    <2> QED  BY <1>2, <2>1, <2>3, Zenon DEF LogdInv
  <1>3. CASE at \in {"clear", "reclear"}  BY <1>3, Zenon DEF LogdInv
  <1>4. CASE at \in {"none", "write_log", "done"}
    <2>1. head = <<>> /\ Len(head) = 0  BY <1>4, Zenon DEF PhaseInv
    <2> QED  BY <1>1, <2>1
  <1> QED  BY <1>2, <1>3, <1>4, Zenon DEF TypeInv

\* bread() during a commit finds what is logged or installed.
LEMMA LogdBread ==
  ASSUME TypeInv, PhaseInv, DirtyInv, LogdInv,
         NEW p \in Procs, NEW b \in Blocks, Bread(p, b)
  PROVE  LogdInv'
  <1>1. /\ UNCHANGED <<logd, disk, head, lh, at, tail>>
        /\ cache' = [cache EXCEPT ![b] = Cached(b)]
        /\ at \notin {"read_head", "reinstall"}
    BY Zenon DEF Bread, durableVars, Up
  <1>2. ASSUME at = "write_log", NEW i \in 1..Len(lh)
        PROVE  cache'[lh[i]] = cache[lh[i]]
    BY <1>1, <1>2, LoggedCached, Zenon DEF Cached, TypeInv
  <1>3. ASSUME at = "install", NEW i \in 1..Len(lh)
        PROVE  cache'[lh[i]] \in {NoVal, cache[lh[i]], logd[i]}
    <2>1. head = lh  BY <1>3, Zenon DEF PhaseInv
    <2>2. cache[lh[i]] = NoVal => disk[lh[i]] = logd[i]
      BY <1>1, <2>1, Installed, Zenon
    <2> QED  BY <1>1, <2>2 DEF Cached, TypeInv
  <1> QED  BY <1>1, <1>2, <1>3, LogdSame, Zenon

\* write_log() copies one more buffer to the log.
LEMMA LogdWrite ==
  ASSUME TypeInv, RoomInv, DirtyInv, LogdInv, WriteLog
  PROVE  LogdInv'
  <1> DEFINE b == lh[tail]
  <1>1. tail \in 1..Len(lh) /\ tail \in 1..LOGSIZE /\ tail \in Nat
    BY TailEntry, Zenon DEF WriteLog, TypeInv
  <1>2. /\ logd' = [logd EXCEPT ![tail] = Cached(b)] /\ tail' = tail + 1
        /\ cache' = [cache EXCEPT ![b] = Cached(b)]
        /\ at = "write_log" /\ UNCHANGED <<lh, at>>
    BY Zenon DEF WriteLog
  <1>3. b \in Blocks /\ cache[b] # NoVal  BY <1>1, <1>2, LoggedCached, Zenon
  <1>4. Cached(b) = cache[b]  BY <1>3, Zenon DEF Cached
  <1>5. cache' = cache  BY <1>2, <1>3, <1>4, Zenon DEF TypeInv
  <1>6. ASSUME NEW i \in 1..Len(lh), i < tail'  PROVE  logd'[i] = cache[lh[i]]
    <2>1. CASE i = tail  BY <2>1, <1>1, <1>2, <1>4, Zenon DEF TypeInv
    <2>2. CASE i # tail
      <3>1. i < tail  BY <1>6, <2>2, <1>1, <1>2
      <3>2. logd'[i] = logd[i]
        <4>1. i \in 1..LOGSIZE  BY <3>1, <1>1, LogAssumption DEF TypeInv
        <4> QED  BY <4>1, <2>2, <1>2, Zenon DEF TypeInv
      <3> QED  BY <3>1, <3>2, <1>2, Zenon DEF LogdInv
    <2> QED  BY <2>1, <2>2, Zenon
  <1> QED  BY <1>2, <1>5, <1>6 DEF LogdInv

\* install_trans() copies one more log block home.
LEMMA LogdInstall ==
  ASSUME TypeInv, RoomInv, DistinctInv, LogdInv, Install
  PROVE  LogdInv'
  <1> DEFINE b == lh[tail]
  <1>1. tail \in 1..Len(lh) /\ b \in Blocks /\ tail \in Nat
    BY TailEntry, Zenon DEF Install, TypeInv
  <1>2. /\ disk' = [disk EXCEPT ![b] = logd[tail]] /\ tail' = tail + 1
        /\ cache' = [cache EXCEPT ![b] = logd[tail]]
        /\ at \in {"install", "reinstall"} /\ UNCHANGED <<logd, lh, at, head>>
    BY Zenon DEF Install
  <1>3. ASSUME NEW i \in 1..Len(lh)
        PROVE  /\ at = "install" => cache'[lh[i]] \in {NoVal, logd[i]}
               /\ i < tail' => disk'[lh[i]] = logd[i]
    <2>1. lh[i] \in Blocks  BY DEF TypeInv
    <2>2. CASE i = tail
      <3>1. cache'[lh[i]] = logd[i] /\ disk'[lh[i]] = logd[i]
        BY <2>2, <1>1, <1>2, Zenon DEF TypeInv
      <3> QED  BY <3>1, Zenon
    <2>3. CASE i # tail
      <3>1. lh[i] # b  BY <2>3, <1>1, Zenon DEF DistinctInv
      <3>2. cache'[lh[i]] = cache[lh[i]] /\ disk'[lh[i]] = disk[lh[i]]
        BY <3>1, <2>1, <1>2, Zenon DEF TypeInv
      <3>3. i < tail' => i < tail  BY <2>3, <1>1, <1>2
      <3> QED  BY <3>2, <3>3, <1>2, Zenon DEF LogdInv
    <2> QED  BY <2>2, <2>3, Zenon
  <1> QED  BY <1>2, <1>3 DEF LogdInv

\* Every step keeps log blocks and home blocks in agreement.
LEMMA LogdNext ==
  ASSUME TypeInv, LockInv, PhaseInv, DistinctInv, DirtyInv, LogdInv, RoomInv,
         [Next]_vars
  PROVE  LogdInv'
  <1>1. ASSUME NEW p \in Procs, BeginOp(p) \/ Brelse(p) \/ LogCheck(p)
        PROVE  LogdInv'
    <2>1. UNCHANGED <<logd, disk, head, lh, at, tail, cache>>
      BY <1>1, Zenon DEF BeginOp, Brelse, LogCheck, durableVars
    <2> QED  BY <2>1, LogdSame, Zenon
  <1>2. ASSUME NEW p \in Procs, EndOp(p)  PROVE  LogdInv'
    <2>1. at = "none"  BY <1>2, InOpNone, Zenon DEF EndOp, InOp
    <2>2. /\ at' \in {"none", "done", "write_log"} /\ lh' = lh
          /\ at' # "none" => tail' = 1
      BY <1>2, <2>1, Zenon DEF EndOp
    <2>3. \A i \in 1..Len(lh) : ~ (i < 1)  BY DEF TypeInv
    <2> QED  BY <2>2, <2>3, Zenon DEF LogdInv
  <1>3. ASSUME NEW p \in Procs, EndCommit(p)  PROVE  LogdInv'
    BY <1>3, Zenon DEF EndCommit, LogdInv
  <1>4. ASSUME NEW p \in Procs, LogAppend(p) \/ \E v \in Vals : Modify(p, v)
        PROVE  LogdInv'
    <2>1. pc[p] \in InOp /\ at' = at  BY <1>4, Zenon DEF LogAppend, Modify,
       InOp
    <2>2. at' = "none"  BY <2>1, InOpNone, Zenon
    <2> QED  BY <2>2, Zenon DEF LogdInv
  <1>5. ASSUME NEW p \in Procs, NEW b \in Blocks, Bread(p, b)  PROVE  LogdInv'
    BY <1>5, LogdBread, Zenon
  <1>6. ASSUME NEW b \in Blocks, Evict(b)  PROVE  LogdInv'
    <2>1. /\ UNCHANGED <<logd, disk, head, lh, at, tail>> /\ b \notin dirty
          /\ cache' = [cache EXCEPT ![b] = NoVal]
      BY <1>6, Zenon DEF Evict, durableVars
    <2>2. ASSUME at = "write_log", NEW i \in 1..Len(lh)
          PROVE  cache'[lh[i]] = cache[lh[i]]
      BY <2>1, <2>2, LoggedCached, Zenon DEF TypeInv
    <2>3. ASSUME at = "install", NEW i \in 1..Len(lh)
          PROVE  cache'[lh[i]] \in {NoVal, cache[lh[i]], logd[i]}
      BY <2>1 DEF TypeInv
    <2> QED  BY <2>1, <2>2, <2>3, LogdSame, Zenon
  <1>7. CASE WriteLog  BY <1>7, LogdWrite, Zenon
  <1>8. CASE WriteHead
    <2>1. /\ at = "write_log" /\ tail > Len(lh) /\ at' = "install" /\ tail' = 1
          /\ UNCHANGED <<lh, logd, cache>>
      BY <1>8, Zenon DEF WriteHead
    <2>2. \A i \in 1..Len(lh) : i < tail /\ ~ (i < 1)  BY <2>1 DEF TypeInv
    <2> QED  BY <2>1, <2>2, Zenon DEF LogdInv
  <1>9. CASE Install  BY <1>9, LogdInstall, Zenon
  <1>10. CASE ClearMem
    <2>1. /\ at \in {"install", "reinstall"} /\ tail > Len(lh)
          /\ at' \in {"clear", "reclear"} /\ UNCHANGED <<disk, logd, head>>
      BY <1>10, Zenon DEF ClearMem, durableVars
    <2>2. \A i \in 1..Len(lh) : i < tail  BY <2>1 DEF TypeInv
    <2>3. head = lh  BY <2>1, Zenon DEF PhaseInv
    <2> QED  BY <2>1, <2>2, <2>3, Zenon DEF LogdInv
  <1>11. CASE ClearHead \/ Crash  BY <1>11, Zenon DEF ClearHead, Crash, LogdInv
  <1>12. CASE ReadHead
    <2>1. at' = "reinstall" /\ tail' = 1 /\ lh' = head  BY <1>12, Zenon DEF
       ReadHead
    <2>2. \A i \in 1..Len(head) : ~ (i < 1)  BY DEF TypeInv
    <2> QED  BY <2>1, <2>2, Zenon DEF LogdInv
  <1>13. CASE UNCHANGED vars  BY <1>13, LogdSame, Zenon DEF vars
  <1> QED
    BY <1>1, <1>2, <1>3, <1>4, <1>5, <1>6, <1>7, <1>8, <1>9, <1>10, <1>11,
       <1>12, <1>13, Zenon DEF Next, Committer

(***************************************************************************)
(* Clean buffers.                                                          *)
(***************************************************************************)
\* The steps that neither begin nor end the change of a block.
LEMMA ChangingSame ==
  ASSUME TypeInv, NEW p \in Procs,
         \/ BeginOp(p) \/ EndOp(p) \/ EndCommit(p) \/ Brelse(p) \/ LogCheck(p)
         \/ \E b \in Blocks : Bread(p, b)
  PROVE  \A b : Changing(b)' <=> Changing(b)
  <1> DEFINE W == {"log_write", "append"}
  <1>1. SUFFICES \A q \in Procs : /\ pc'[q] \in W <=> pc[q] \in W
                                  /\ pc[q] \in W => blk'[q] = blk[q]
    BY Zenon DEF Changing
  <1>2. CASE BeginOp(p)  BY <1>2, Zenon DEF BeginOp, TypeInv
  <1>3. CASE EndOp(p)  BY <1>3, EndOpPc, Zenon
  <1>4. CASE EndCommit(p)
    <2>1. \A q \in Procs :
            pc'[q] = IF q = p THEN "idle"
                     ELSE IF pc[q] = "asleep" THEN "begin" ELSE pc[q]
      BY <1>4, Zenon DEF EndCommit, Wakeup
    <2>2. pc[p] = "commit" /\ blk' = blk  BY <1>4, Zenon DEF EndCommit
    <2> QED  BY <2>1, <2>2, Zenon
  <1>5. CASE Brelse(p)  BY <1>5, Zenon DEF Brelse, TypeInv
  <1>6. CASE LogCheck(p)  BY <1>6, Zenon DEF LogCheck, TypeInv
  <1>7. CASE \E b \in Blocks : Bread(p, b)  BY <1>7 DEF Bread, TypeInv
  <1> QED  BY <1>2, <1>3, <1>4, <1>5, <1>6, <1>7, Zenon

\* A step that makes no buffer clean and no clean buffer different.
LEMMA CleanSame ==
  ASSUME CleanInv, UNCHANGED <<disk, logd, head>>,
         \A b \in Blocks : cache'[b] # NoVal /\ b \notin dirty' /\ ~ Changing(b)'
           => cache'[b] = cache[b] /\ b \notin dirty /\ ~ Changing(b)
  PROVE  CleanInv'
  BY Zenon DEF CleanInv

\* bread() of a block that is not cached reads what recovery would make.
LEMMA CleanBread ==
  ASSUME TypeInv, PhaseInv, DirtyInv, LogdInv, CleanInv,
         NEW p \in Procs, NEW b \in Blocks, Bread(p, b)
  PROVE  CleanInv'
  <1>1. /\ UNCHANGED <<disk, logd, head, dirty>>
        /\ cache' = [cache EXCEPT ![b] = Cached(b)]
        /\ at \notin {"read_head", "reinstall"}
    BY Zenon DEF Bread, durableVars, Up
  <1>2. \A c : Changing(c)' <=> Changing(c)  BY ChangingSame, Zenon
  <1>3. CASE cache[b] # NoVal
    <2>1. cache' = cache  BY <1>1, <1>3, Zenon DEF Cached, TypeInv
    <2> QED  BY <1>1, <1>2, <2>1, CleanSame, Zenon
  <1>4. CASE cache[b] = NoVal
    <2>1. cache'[b] = disk[b]  BY <1>1, <1>4, Zenon DEF Cached, TypeInv
    <2>2. \A i \in 1..Len(head) : head[i] = b => disk[b] = logd[i]
      BY <1>1, <1>4, Installed, Zenon
    <2>3. \A c \in Blocks : c # b => cache'[c] = cache[c]  BY <1>1, Zenon DEF
       TypeInv
    <2> QED  BY <1>1, <1>2, <2>1, <2>2, <2>3 DEF CleanInv
  <1> QED  BY <1>3, <1>4, Zenon

\* A changed buffer is not clean until it is logged.
LEMMA CleanModify ==
  ASSUME TypeInv, LockInv, CleanInv, NEW p \in Procs, NEW v \in Vals, Modify(p, v)
  PROVE  CleanInv'
  <1>1. /\ UNCHANGED <<disk, logd, head, dirty, blk>> /\ pc[p] = "buf"
        /\ cache' = [cache EXCEPT ![blk[p]] = v]
        /\ pc' = [pc EXCEPT ![p] = "log_write"]
    BY Zenon DEF Modify, durableVars
  <1>2. \A c \in Blocks : c # blk[p] => cache'[c] = cache[c]  BY <1>1, Zenon
     DEF TypeInv
  <1>3. pc'[p] = "log_write" /\ \A q \in Procs : q # p => pc'[q] = pc[q]
    BY <1>1, Zenon DEF TypeInv
  <1>4. \A c : ~ Changing(c)' => c # blk[p] /\ ~ Changing(c)
    BY <1>1, <1>3, Zenon DEF Changing
  <1> QED  BY <1>1, <1>2, <1>4, CleanSame, Zenon

\* A buffer that log_write() pins is not clean.
LEMMA CleanAppend ==
  ASSUME TypeInv, CleanInv, NEW p \in Procs, LogAppend(p)
  PROVE  CleanInv'
  <1>1. /\ UNCHANGED <<disk, logd, head, cache>> /\ dirty' = dirty \cup {blk[p]}
        /\ blk' = [blk EXCEPT ![p] = NoBlock] /\ pc' = [pc EXCEPT ![p] = "op"]
    BY Zenon DEF LogAppend, durableVars
  <1>2. \A q \in Procs : q # p => pc'[q] = pc[q] /\ blk'[q] = blk[q]
    BY <1>1, Zenon DEF TypeInv
  <1>3. \A c : c # blk[p] /\ ~ Changing(c)' => ~ Changing(c)
    BY <1>2, Zenon DEF Changing
  <1> QED  BY <1>1, <1>3, CleanSame, Zenon

\* The commit covers no clean buffer.
LEMMA CleanCommit ==
  ASSUME TypeInv, PhaseInv, DirtyInv, CleanInv, WriteHead
  PROVE  CleanInv'
  <1>1. /\ UNCHANGED <<disk, logd, cache, dirty, pc, blk>> /\ head' = lh
        /\ at = "write_log"
    BY Zenon DEF WriteHead, opVars
  <1>2. head = <<>> /\ Len(head) = 0  BY <1>1, Zenon DEF PhaseInv
  <1>3. \A c : Changing(c)' <=> Changing(c)  BY <1>1, Zenon DEF Changing
  <1>4. \A i \in 1..Len(lh) : lh[i] \in dirty  BY <1>1, LoggedCached, Zenon
  <1>5. \A c \in Blocks : cache[c] # NoVal /\ c \notin dirty /\ ~ Changing(c)
                            => cache[c] = disk[c]
    BY <1>2 DEF CleanInv
  <1> QED  BY <1>1, <1>3, <1>4, <1>5, Zenon DEF CleanInv

\* A buffer becomes clean when its block is installed.
LEMMA CleanInstall ==
  ASSUME TypeInv, RoomInv, PhaseInv, DistinctInv, CleanInv, Install
  PROVE  CleanInv'
  <1> DEFINE b == lh[tail]
  <1>1. tail \in 1..Len(lh) /\ b \in Blocks  BY TailEntry, Zenon DEF Install
  <1>2. /\ disk' = [disk EXCEPT ![b] = logd[tail]]
        /\ cache' = [cache EXCEPT ![b] = logd[tail]] /\ dirty' = dirty \ {b}
        /\ at \in {"install", "reinstall"}
        /\ UNCHANGED <<logd, head, pc, blk>>
    BY Zenon DEF Install, opVars
  <1>3. head = lh  BY <1>2, Zenon DEF PhaseInv
  <1>4. \A c : Changing(c)' <=> Changing(c)  BY <1>2, Zenon DEF Changing
  <1>5. \A c \in Blocks : c # b => cache'[c] = cache[c] /\ disk'[c] = disk[c]
    BY <1>2, Zenon DEF TypeInv
  <1>6. cache'[b] = logd[tail]  BY <1>1, <1>2, Zenon DEF TypeInv
  <1>7. \A i \in 1..Len(head) : head[i] = b => i = tail
    BY <1>1, <1>3, Zenon DEF DistinctInv
  <1>8. ASSUME NEW c \in Blocks, cache'[c] # NoVal, c \notin dirty', ~ Changing(c)'
        PROVE  /\ \A i \in 1..Len(head) : head[i] = c => cache'[c] = logd[i]
               /\ (\A i \in 1..Len(head) : head[i] # c) => cache'[c] = disk'[c]
    <2>1. CASE c = b  BY <2>1, <1>1, <1>3, <1>6, <1>7, Zenon
    <2>2. CASE c # b
      <3>1. c \notin dirty /\ ~ Changing(c) /\ cache[c] # NoVal
        BY <1>8, <2>2, <1>2, <1>4, <1>5, Zenon
      <3> QED  BY <3>1, <2>2, <1>5, Zenon DEF CleanInv
    <2> QED  BY <2>1, <2>2, Zenon
  <1>9. logd' = logd /\ head' = head  BY <1>2, Zenon
  <1> QED  BY <1>8, <1>9, Zenon DEF CleanInv

\* Clearing the header leaves the installed blocks.
LEMMA CleanClear ==
  ASSUME TypeInv, PhaseInv, LogdInv, CleanInv, ClearHead
  PROVE  CleanInv'
  <1>1. /\ UNCHANGED <<disk, logd, cache, dirty, pc, blk>> /\ head' = lh
        /\ at \in {"clear", "reclear"}
    BY Zenon DEF ClearHead, opVars
  <1>2. head' = <<>> /\ Len(head') = 0  BY <1>1, Zenon DEF PhaseInv
  <1>3. \A c : Changing(c)' <=> Changing(c)  BY <1>1, Zenon DEF Changing
  <1>4. \A i \in 1..Len(head) : disk[head[i]] = logd[i]  BY <1>1, Zenon DEF
     LogdInv
  <1>5. \A c \in Blocks : cache[c] # NoVal /\ c \notin dirty /\ ~ Changing(c)
                            => cache[c] = disk[c]
    BY <1>4, Zenon DEF CleanInv
  <1> QED  BY <1>1, <1>2, <1>3, <1>5 DEF CleanInv

\* Every step keeps clean buffers as recovery would make their blocks.
LEMMA CleanNext ==
  ASSUME TypeInv, LockInv, PhaseInv, DistinctInv, DirtyInv, LogdInv, CleanInv,
         RoomInv, [Next]_vars
  PROVE  CleanInv'
  <1>1. ASSUME NEW p \in Procs,
               BeginOp(p) \/ EndOp(p) \/ EndCommit(p) \/ Brelse(p) \/ LogCheck(p)
        PROVE  CleanInv'
    <2>1. UNCHANGED <<disk, logd, head, cache, dirty>>
      BY <1>1, Zenon DEF BeginOp, EndOp, EndCommit, Brelse, LogCheck,
         durableVars
    <2>2. \A b : Changing(b)' <=> Changing(b)  BY <1>1, ChangingSame, Zenon
    <2> QED  BY <2>1, <2>2, CleanSame, Zenon
  <1>2. ASSUME NEW p \in Procs, LogAppend(p)  PROVE  CleanInv'
    BY <1>2, CleanAppend, Zenon
  <1>3. ASSUME NEW p \in Procs, NEW b \in Blocks, Bread(p, b)  PROVE  CleanInv'
    BY <1>3, CleanBread, Zenon
  <1>4. ASSUME NEW p \in Procs, NEW v \in Vals, Modify(p, v)  PROVE  CleanInv'
    BY <1>4, CleanModify, Zenon
  <1>5. ASSUME NEW b \in Blocks, Evict(b)  PROVE  CleanInv'
    <2>1. /\ UNCHANGED <<disk, logd, head, dirty, pc, blk>>
          /\ cache' = [cache EXCEPT ![b] = NoVal]
      BY <1>5, Zenon DEF Evict, durableVars, opVars
    <2>2. \A c \in Blocks : cache'[c] # NoVal => cache'[c] = cache[c]
      BY <2>1, Zenon DEF TypeInv
    <2>3. \A c : Changing(c)' <=> Changing(c)  BY <2>1, Zenon DEF Changing
    <2> QED  BY <2>1, <2>2, <2>3, CleanSame, Zenon
  <1>6. CASE WriteLog
    <2>1. /\ UNCHANGED <<disk, head, dirty, pc, blk>> /\ at = "write_log"
          /\ cache' = [cache EXCEPT ![lh[tail]] = Cached(lh[tail])]
      BY <1>6, Zenon DEF WriteLog, opVars
    <2>2. tail \in 1..Len(lh)  BY <1>6, TailEntry, Zenon DEF WriteLog
    <2>3. lh[tail] \in Blocks /\ cache[lh[tail]] # NoVal
      BY <2>1, <2>2, LoggedCached, Zenon
    <2>4. cache' = cache  BY <2>1, <2>3, Zenon DEF Cached, TypeInv
    <2>5. head = <<>> /\ Len(head) = 0  BY <2>1, Zenon DEF PhaseInv
    <2>6. \A c : Changing(c)' <=> Changing(c)  BY <2>1, Zenon DEF Changing
    <2> QED  BY <2>1, <2>4, <2>5, <2>6 DEF CleanInv
  <1>7. CASE WriteHead  BY <1>7, CleanCommit, Zenon
  <1>8. CASE Install  BY <1>8, CleanInstall, Zenon
  <1>9. CASE ClearHead  BY <1>9, CleanClear, Zenon
  <1>10. CASE ClearMem \/ ReadHead \/ UNCHANGED vars
    <2>1. UNCHANGED <<disk, logd, head, cache, dirty, pc, blk>>
      BY <1>10, Zenon DEF ClearMem, ReadHead, vars, durableVars, opVars
    <2>2. \A b : Changing(b)' <=> Changing(b)  BY <2>1, Zenon DEF Changing
    <2> QED  BY <2>1, <2>2, CleanSame, Zenon
  <1>11. CASE Crash
    <2>1. \A b \in Blocks : cache'[b] = NoVal  BY <1>11, Zenon DEF Crash
    <2> QED  BY <2>1, Zenon DEF CleanInv
  <1> QED
    BY <1>1, <1>2, <1>3, <1>4, <1>5, <1>6, <1>7, <1>8, <1>9, <1>10, <1>11,
       Zenon
    DEF Next, Committer

\* Every step preserves the invariant.
LEMMA InvNext ==
  ASSUME Inv, RoomInv, [Next]_vars
  PROVE  Inv'
  <1>1. TypeInv' /\ LockInv'  BY TypeNext, LockNext, Zenon DEF Inv
  <1>2. PhaseInv' /\ DistinctInv'  BY PhaseNext, DistinctNext, Zenon DEF Inv
  <1>3. DirtyInv' /\ LogdInv'  BY DirtyNext, LogdNext, Zenon DEF Inv
  <1>4. CleanInv'  BY CleanNext, Zenon DEF Inv
  <1> QED  BY <1>1, <1>2, <1>3, <1>4, Zenon DEF Inv


(***************************************************************************)
(* Cardinalities.                                                          *)
(***************************************************************************)
\* A subset of a finite set has no more elements.
LEMMA CardSubset ==
  ASSUME NEW S, IsFiniteSet(S), NEW T, T \subseteq S
  PROVE  /\ IsFiniteSet(T)
         /\ Cardinality(T) \in Nat /\ Cardinality(S) \in Nat
         /\ Cardinality(T) <= Cardinality(S)
  <1>1. T \in SUBSET S  BY Zenon
  <1>2. IsFiniteSet(T) /\ Cardinality(T) <= Cardinality(S)  BY <1>1,
     FS_Subset, Zenon
  <1>3. Cardinality(T) \in Nat /\ Cardinality(S) \in Nat
    BY <1>2, FS_CardinalityType, Zenon
  <1> QED  BY <1>2, <1>3, Zenon

\* A set within the union of two has no more elements than both together.
LEMMA CardCover ==
  ASSUME NEW S, IsFiniteSet(S), NEW T, IsFiniteSet(T),
         NEW U, U \subseteq S \cup T
  PROVE  /\ Cardinality(U) \in Nat
         /\ Cardinality(U) <= Cardinality(S) + Cardinality(T)
  <1>1. /\ IsFiniteSet(S \cup T)
        /\ Cardinality(S \cup T)
             = Cardinality(S) + Cardinality(T) - Cardinality(S \cap T)
    BY FS_Union, Zenon
  <1>2. Cardinality(S \cap T) \in Nat  BY CardSubset, Zenon
  <1>3. Cardinality(S) \in Nat /\ Cardinality(T) \in Nat  BY
     FS_CardinalityType, Zenon
  <1>4. Cardinality(U) \in Nat /\ Cardinality(U) <= Cardinality(S \cup T)
    BY <1>1, CardSubset, Zenon
  <1> QED  BY <1>1, <1>2, <1>3, <1>4

\* A product grows with its factor.
LEMMA MulMono ==
  ASSUME NEW a \in Nat, NEW b \in Nat, NEW k \in Nat, a <= b
  PROVE  a * k <= b * k
  <1>1. PICK d \in Nat : b = a + d  BY b - a \in Nat
  <1>2. b * k = a * k + d * k  BY <1>1
  <1>3. d * k \in Nat /\ a * k \in Nat  OBVIOUS
  <1> QED  BY <1>2, <1>3

(***************************************************************************)
(* Consequences.                                                           *)
(***************************************************************************)
\* Finitely many calls are active.
LEMMA ActiveFinite == IsFiniteSet(Active) /\ Cardinality(Active) \in Nat
  <1>1. IsFiniteSet(Procs)  BY LogAssumption, Zenon
  <1>2. Active \subseteq Procs  BY Zenon DEF Active
  <1> QED  BY <1>1, <1>2, CardSubset, Zenon

\* The log does not overflow, and the last call to end is alone.
LEMMA CountFacts ==
  ASSUME TypeInv, CountInv
  PROVE  /\ Len(lh) <= LOGSIZE /\ Len(head) <= LOGSIZE
         /\ \A p \in Active : outstanding = 1 => Active = {p}
         /\ \A p \in Active : outstanding >= 1
  <1>1. {} \in SUBSET Active /\ Rest({}) = Entries  BY Zenon DEF Rest
  <1>2. Cardinality({}) = 0  BY FS_EmptySet, Zenon
  <1>3. Cardinality(Entries) + 0 * MAXOPBLOCKS <= LOGSIZE
    BY <1>1, <1>2, Zenon DEF CountInv
  <1>4. Len(lh) <= LOGSIZE
    BY <1>3, LogAssumption DEF CountInv, TypeInv
  <1>5. ASSUME NEW p \in Active
        PROVE  (outstanding = 1 => Active = {p}) /\ outstanding >= 1
    <2>1. outstanding = Cardinality(Active)  BY Zenon DEF CountInv
    <2>2. Cardinality({p}) = 1 /\ {p} \in SUBSET Active  BY <1>5,
       FS_Singleton, Zenon
    <2>3. /\ Cardinality({p}) <= Cardinality(Active)
          /\ Cardinality(Active) = Cardinality({p}) => Active = {p}
      BY <2>2, ActiveFinite, FS_Subset, Zenon
    <2> QED  BY <2>1, <2>2, <2>3, ActiveFinite, Zenon
  <1> QED  BY <1>4, <1>5, Zenon DEF CountInv

(***************************************************************************)
(* The steps.                                                              *)
(***************************************************************************)
\* A step that changes no header, no call and no counted write.
LEMMA CountSame ==
  ASSUME CountInv, UNCHANGED <<lh, head, wrote, outstanding>>, Active' = Active
  PROVE  CountInv'
  <1>1. Entries' = Entries /\ HeadEntries' = HeadEntries
    BY Zenon DEF Entries, HeadEntries
  <1>2. \A S : Rest(S)' = Rest(S)  BY <1>1, Zenon DEF Rest
  <1> QED  BY <1>1, <1>2, Zenon DEF CountInv

\* No call is active and the header is empty.
LEMMA CountEmpty ==
  ASSUME TypeInv, CountInv, lh' = <<>>, Active' = {}, outstanding' = 0,
         \/ wrote' = wrote
         \/ wrote' = [p \in Procs |-> {}],
         head' = head \/ head' = <<>>
  PROVE  CountInv'
  <1>1. Entries' = {}  BY DEF Entries
  <1>2. IsFiniteSet({}) /\ Cardinality({}) = 0  BY FS_EmptySet, Zenon
  <1>3. ASSUME NEW p \in Procs
        PROVE  IsFiniteSet(wrote'[p]) /\ Cardinality(wrote'[p]) <= OpBlocks
    <2>1. CASE wrote' = wrote  BY <2>1, Zenon DEF CountInv
    <2>2. CASE wrote' = [q \in Procs |-> {}]
      <3>1. wrote'[p] = {}  BY <2>2, Zenon
      <3> QED  BY <3>1, <1>2, LogAssumption
    <2> QED  BY <2>1, <2>2, Zenon
  <1>4. Len(head') <= LOGSIZE /\ IsFiniteSet(HeadEntries')
        /\ Cardinality(HeadEntries') = Len(head')
    <2>1. CASE head' = head
      <3>1. HeadEntries' = HeadEntries  BY <2>1, Zenon DEF HeadEntries
      <3> QED  BY <2>1, <3>1, Zenon DEF CountInv
    <2>2. CASE head' = <<>>
      <3>1. HeadEntries' = {} /\ Len(head') = 0  BY <2>2 DEF HeadEntries
      <3> QED  BY <3>1, <1>2, LogAssumption
    <2> QED  BY <2>1, <2>2, Zenon
  <1>6. ASSUME NEW S \in SUBSET Active'
        PROVE  Cardinality(Rest(S)') + Cardinality(S) * MAXOPBLOCKS <= LOGSIZE
    <2>1. S = {}  BY Zenon
    <2>2. Rest(S)' = {}  BY <1>1, Zenon DEF Rest
    <2>3. Cardinality(Rest(S)') = 0 /\ Cardinality(S) = 0  BY <2>1, <2>2,
       <1>2, Zenon
    <2>4. 0 * MAXOPBLOCKS = 0  BY LogAssumption
    <2> QED  BY <2>3, <2>4, LogAssumption
  <1> QED  BY <1>1, <1>2, <1>3, <1>4, <1>6, Zenon DEF CountInv

\* begin_op() reserves: the test made room for one call more.
LEMMA CountBegin ==
  ASSUME TypeInv, CountInv, NEW p \in Procs, BeginOp(p), ~ MustWait
  PROVE  CountInv'
  <1>1. Active' = Active \cup {p} /\ p \notin Active
    BY Zenon DEF BeginOp, Active, TypeInv
  <1>2. UNCHANGED <<lh, head, wrote>> /\ outstanding' = outstanding + 1
    BY Zenon DEF BeginOp, durableVars
  <1>3. Entries' = Entries /\ HeadEntries' = HeadEntries
    BY <1>2, Zenon DEF Entries, HeadEntries
  <1>4. \A S : Rest(S)' = Rest(S)  BY <1>2, <1>3, Zenon DEF Rest
  <1>5. /\ IsFiniteSet(Active')
        /\ Cardinality(Active') = Cardinality(Active) + 1
        /\ Cardinality(Active) \in Nat
    BY <1>1, ActiveFinite, FS_AddElement, Zenon
  <1>6. ASSUME NEW S \in SUBSET Active'
        PROVE  Cardinality(Rest(S)) + Cardinality(S) * MAXOPBLOCKS <= LOGSIZE
    <2>1. CASE p \notin S
      <3>1. S \in SUBSET Active  BY <2>1, <1>1, Zenon
      <3> QED  BY <3>1, Zenon DEF CountInv
    <2>2. CASE p \in S
      <3>1. Rest(S) \subseteq Entries  BY Zenon DEF Rest
      <3>2. Cardinality(Rest(S)) \in Nat /\ Cardinality(Rest(S)) <= Len(lh)
        BY <3>1, CardSubset, Zenon DEF CountInv
      <3>3. /\ Cardinality(S) \in Nat
            /\ Cardinality(S) <= outstanding + 1 /\ outstanding + 1 \in Nat
        BY <1>5, CardSubset, Zenon DEF CountInv
      <3>4. Cardinality(S) * MAXOPBLOCKS <= (outstanding + 1) * MAXOPBLOCKS
        BY <3>3, MulMono, LogAssumption, Zenon
      <3>5. Len(lh) + (outstanding + 1) * MAXOPBLOCKS <= LOGSIZE
        BY <3>3, LogAssumption DEF MustWait, TypeInv
      <3>6. /\ Cardinality(S) * MAXOPBLOCKS \in Nat
            /\ (outstanding + 1) * MAXOPBLOCKS \in Nat
        BY <3>3, LogAssumption
      <3> QED  BY <3>2, <3>4, <3>5, <3>6, LogAssumption DEF TypeInv
    <2> QED  BY <2>1, <2>2, Zenon
  <1> QED  BY <1>2, <1>3, <1>4, <1>5, <1>6, Zenon DEF CountInv

\* end_op() gives the reservation back.
LEMMA CountEnd ==
  ASSUME TypeInv, PhaseInv, CountInv, NEW p \in Procs, EndOp(p)
  PROVE  CountInv'
  <1>1. ~ committing  BY Zenon DEF PhaseInv, EndOp, InOp
  <1>2. Active' = Active \ {p} /\ p \in Active
    BY <1>1, Zenon DEF EndOp, Active, TypeInv, Wakeup
  <1>3. /\ UNCHANGED <<lh, head>> /\ outstanding' = outstanding - 1
        /\ wrote' = [wrote EXCEPT ![p] = {}]
    BY Zenon DEF EndOp, durableVars
  <1>4. Entries' = Entries /\ HeadEntries' = HeadEntries
    BY <1>3, Zenon DEF Entries, HeadEntries
  <1>5. Cardinality(Active') = Cardinality(Active) - 1
    BY <1>2, ActiveFinite, FS_RemoveElement, Zenon
  <1>6. ASSUME NEW q \in Procs
        PROVE  IsFiniteSet(wrote'[q]) /\ Cardinality(wrote'[q]) <= OpBlocks
    <2>1. CASE q = p
      <3>1. wrote'[q] = {}  BY <1>3, <2>1, Zenon DEF TypeInv
      <3> QED  BY <3>1, FS_EmptySet, LogAssumption
    <2>2. CASE q # p
      <3>1. wrote'[q] = wrote[q]  BY <1>3, <2>2, Zenon DEF TypeInv
      <3> QED  BY <3>1, Zenon DEF CountInv
    <2> QED  BY <2>1, <2>2, Zenon
  <1>7. ASSUME NEW S \in SUBSET Active'
        PROVE  Cardinality(Rest(S)') + Cardinality(S) * MAXOPBLOCKS <= LOGSIZE
    <2>1. S \in SUBSET Active  BY <1>2, Zenon
    <2>2. \A q \in S : wrote'[q] = wrote[q]
      BY <1>2, <1>3, Zenon DEF Active, TypeInv
    <2>3. Rest(S)' = Rest(S)  BY <1>4, <2>2, Zenon DEF Rest
    <2> QED  BY <2>1, <2>3, Zenon DEF CountInv
  <1> QED  BY <1>3, <1>4, <1>5, <1>6, <1>7, Zenon DEF CountInv

\* A block more that a call has written is a block less that it has not.
LEMMA CountModify ==
  ASSUME TypeInv, LockInv, CountInv, NEW p \in Procs, NEW v, Modify(p, v)
  PROVE  CountInv'
  <1>1. Active' = Active  BY Zenon DEF Modify, Active, TypeInv
  <1>2. /\ UNCHANGED <<lh, head, outstanding>>
        /\ wrote' = [wrote EXCEPT ![p] = @ \cup {blk[p]}]
    BY Zenon DEF Modify, durableVars
  <1>3. Entries' = Entries /\ HeadEntries' = HeadEntries
    BY <1>2, Zenon DEF Entries, HeadEntries
  <1>4. ASSUME NEW q \in Procs
        PROVE  /\ wrote[q] \subseteq wrote'[q]
               /\ IsFiniteSet(wrote'[q]) /\ Cardinality(wrote'[q]) <= OpBlocks
    <2>1. CASE q = p
      <3>1. wrote'[q] = wrote[p] \cup {blk[p]}  BY <1>2, <2>1, Zenon DEF
         TypeInv
      <3>2. IsFiniteSet(wrote[p])  BY Zenon DEF CountInv
      <3>3. IsFiniteSet(wrote[p] \cup {blk[p]})  BY <3>2, FS_AddElement, Zenon
      <3>4. Cardinality(wrote[p] \cup {blk[p]}) <= OpBlocks  BY Zenon DEF
         Modify
      <3> QED  BY <3>1, <3>3, <3>4, <2>1, Zenon
    <2>2. CASE q # p
      <3>1. wrote'[q] = wrote[q]  BY <1>2, <2>2, Zenon DEF TypeInv
      <3> QED  BY <3>1, Zenon DEF CountInv
    <2> QED  BY <2>1, <2>2, Zenon
  <1>5. ASSUME NEW S \in SUBSET Active
        PROVE  Cardinality(Rest(S)') + Cardinality(S) * MAXOPBLOCKS <= LOGSIZE
    <2>1. S \subseteq Procs  BY Zenon DEF Active
    <2>2. Rest(S)' \subseteq Rest(S)  BY <1>3, <1>4, <2>1, Zenon DEF Rest
    <2>3. IsFiniteSet(Rest(S))  BY CardSubset, Zenon DEF Rest, CountInv
    <2>4. /\ Cardinality(Rest(S)') \in Nat /\ Cardinality(Rest(S)) \in Nat
          /\ Cardinality(Rest(S)') <= Cardinality(Rest(S))
      BY <2>2, <2>3, CardSubset, Zenon
    <2>5. Cardinality(S) \in Nat  BY ActiveFinite, CardSubset, Zenon
    <2>6. Cardinality(S) * MAXOPBLOCKS \in Nat  BY <2>5, LogAssumption
    <2>7. Cardinality(Rest(S)) + Cardinality(S) * MAXOPBLOCKS <= LOGSIZE
      BY Zenon DEF CountInv
    <2> QED  BY <2>4, <2>6, <2>7, LogAssumption
  <1> QED  BY <1>1, <1>2, <1>3, <1>4, <1>5, Zenon DEF CountInv

\* A new entry is a block that its call has written: it was reserved.
LEMMA CountAppend ==
  ASSUME TypeInv, LockInv, CountInv, NEW p \in Procs, LogAppend(p)
  PROVE  CountInv'
  <1> DEFINE b == blk[p]
  <1>1. Active' = Active /\ p \in Active  BY Zenon DEF LogAppend, Active,
     TypeInv
  <1>2. UNCHANGED <<head, outstanding, wrote>>  BY Zenon DEF LogAppend,
     durableVars
  <1>3. b \in Blocks /\ b \in wrote[p]  BY Zenon DEF LogAppend, LockInv
  <1>4. CASE \E i \in 1..Len(lh) : lh[i] = b
    <2>1. lh' = lh  BY <1>4, Zenon DEF LogAppend
    <2> QED  BY <1>1, <1>2, <2>1, CountSame, Zenon
  <1>5. CASE ~ \E i \in 1..Len(lh) : lh[i] = b
    <2>1. lh' = Append(lh, b)  BY <1>5, Zenon DEF LogAppend
    <2>2. /\ Len(lh') = Len(lh) + 1 /\ lh'[Len(lh) + 1] = b
          /\ \A i \in 1..Len(lh) : lh'[i] = lh[i]
      BY <2>1, <1>3 DEF TypeInv
    <2>3. Entries' = Entries \cup {b}
      <3>1. Len(lh) \in Nat /\ 1..Len(lh') = 1..Len(lh) \cup {Len(lh) + 1}
        BY <2>2 DEF TypeInv
      <3>2. ASSUME NEW x \in Entries'  PROVE  x \in Entries \cup {b}
        <4>1. PICK i \in 1..Len(lh') : x = lh'[i]  BY Zenon DEF Entries
        <4> QED  BY <4>1, <3>1, <2>2, Zenon DEF Entries
      <3>3. ASSUME NEW x \in Entries  PROVE  x \in Entries'
        <4>1. PICK i \in 1..Len(lh) : x = lh[i]  BY Zenon DEF Entries
        <4>2. i \in 1..Len(lh') /\ x = lh'[i]  BY <4>1, <3>1, <2>2, Zenon
        <4> QED  BY <4>2, Zenon DEF Entries
      <3>4. b \in Entries'
        <4>1. Len(lh) + 1 \in 1..Len(lh')  BY <3>1, Zenon
        <4> QED  BY <4>1, <2>2, Zenon DEF Entries
      <3> QED  BY <3>2, <3>3, <3>4, Zenon
    <2>4. b \notin Entries  BY <1>5, Zenon DEF Entries
    <2>5. /\ IsFiniteSet(Entries')
          /\ Cardinality(Entries') = Cardinality(Entries) + 1
      BY <2>3, <2>4, FS_AddElement, Zenon DEF CountInv
    <2>6. HeadEntries' = HeadEntries  BY <1>2, Zenon DEF HeadEntries
    <2>7. ASSUME NEW S \in SUBSET Active
          PROVE  Cardinality(Rest(S)') + Cardinality(S) * MAXOPBLOCKS <= LOGSIZE
      <3>1. CASE p \in S
        <4>1. Rest(S)' = Rest(S)  BY <1>2, <1>3, <2>3, <3>1, Zenon DEF Rest
        <4> QED  BY <4>1, Zenon DEF CountInv
      <3>2. CASE p \notin S
        <4> DEFINE T == S \cup {p}
        <4>1. T \in SUBSET Active  BY <1>1, Zenon
        <4>2. /\ IsFiniteSet(S) /\ Cardinality(S) \in Nat
              /\ Cardinality(T) = Cardinality(S) + 1
          BY <3>2, ActiveFinite, CardSubset, FS_AddElement, Zenon
        <4>3. Rest(S)' \subseteq Rest(T) \cup wrote[p]
          BY <1>2, <1>3, <2>3, Zenon DEF Rest
        <4>4. IsFiniteSet(Rest(T)) /\ Cardinality(Rest(T)) \in Nat
          BY CardSubset, Zenon DEF Rest, CountInv
        <4>5. /\ IsFiniteSet(wrote[p]) /\ Cardinality(wrote[p]) \in Nat
              /\ Cardinality(wrote[p]) <= MAXOPBLOCKS
          BY LogAssumption, FS_CardinalityType DEF CountInv
        <4>6. /\ Cardinality(Rest(S)') \in Nat
              /\ Cardinality(Rest(S)') <= Cardinality(Rest(T)) + MAXOPBLOCKS
          <5>1. /\ Cardinality(Rest(S)') \in Nat
                /\ Cardinality(Rest(S)')
                     <= Cardinality(Rest(T)) + Cardinality(wrote[p])
            BY <4>3, <4>4, <4>5, CardCover, Zenon
          <5> QED  BY <5>1, <4>4, <4>5, LogAssumption
        <4>7. Cardinality(Rest(T)) + Cardinality(T) * MAXOPBLOCKS <= LOGSIZE
          BY <4>1, Zenon DEF CountInv
        <4>8. Cardinality(T) * MAXOPBLOCKS
                = Cardinality(S) * MAXOPBLOCKS + MAXOPBLOCKS
          BY <4>2, LogAssumption
        <4>9. Cardinality(S) * MAXOPBLOCKS \in Nat  BY <4>2, LogAssumption
        <4> HIDE DEF T
        <4> QED  BY <4>4, <4>6, <4>7, <4>8, <4>9, LogAssumption
      <3> QED  BY <3>1, <3>2, Zenon
    <2> QED  BY <1>1, <1>2, <2>2, <2>5, <2>6, <2>7, Zenon DEF CountInv
  <1> QED  BY <1>4, <1>5, Zenon

\* The header that is written has the entries of the one in memory.
LEMMA CountWriteHead ==
  ASSUME TypeInv, CountInv, WriteHead
  PROVE  CountInv'
  <1>1. /\ head' = lh /\ UNCHANGED <<lh, outstanding, wrote>>
        /\ Active' = Active
    BY Zenon DEF WriteHead, opVars, Active
  <1>2. Entries' = Entries /\ HeadEntries' = Entries
    BY <1>1, Zenon DEF Entries, HeadEntries
  <1>3. \A S : Rest(S)' = Rest(S)  BY <1>1, <1>2, Zenon DEF Rest
  <1>4. Len(lh) <= LOGSIZE  BY CountFacts, Zenon
  <1> QED  BY <1>1, <1>2, <1>3, <1>4, Zenon DEF CountInv

\* While commit() or recovery goes on no call is active.
LEMMA NoneActive ==
  ASSUME PhaseInv, CountInv, at # "none"
  PROVE  Active = {} /\ outstanding = 0
  <1>1. Active = {}  BY Zenon DEF PhaseInv, Active, InOp
  <1> QED  BY <1>1, FS_EmptySet, Zenon DEF CountInv

\* Recovery reads the header that the last commit wrote.
LEMMA CountReadHead ==
  ASSUME TypeInv, PhaseInv, CountInv, ReadHead
  PROVE  CountInv'
  <1>1. /\ lh' = head /\ UNCHANGED <<head, outstanding, wrote>>
        /\ Active' = Active
    BY Zenon DEF ReadHead, durableVars, opVars, Active
  <1>2. Active = {}  BY NoneActive, Zenon DEF ReadHead
  <1>3. Entries' = HeadEntries /\ HeadEntries' = HeadEntries
    BY <1>1, Zenon DEF Entries, HeadEntries
  <1>4. ASSUME NEW S \in SUBSET Active'
        PROVE  Cardinality(Rest(S)') + Cardinality(S) * MAXOPBLOCKS <= LOGSIZE
    <2>1. S = {}  BY <1>1, <1>2, Zenon
    <2>2. Rest(S)' = HeadEntries  BY <1>3, <2>1, Zenon DEF Rest
    <2>3. Cardinality(S) = 0  BY <2>1, FS_EmptySet, Zenon
    <2>4. 0 * MAXOPBLOCKS = 0  BY LogAssumption
    <2>5. Cardinality(HeadEntries) = Len(head) /\ Len(head) <= LOGSIZE
      BY Zenon DEF CountInv
    <2> QED  BY <2>2, <2>3, <2>4, <2>5, LogAssumption DEF TypeInv
  <1> QED  BY <1>1, <1>3, <1>4, Zenon DEF CountInv

\* commit() and recovery clear the header in memory and then on disk.
LEMMA CountClear ==
  ASSUME TypeInv, PhaseInv, CountInv, ClearMem \/ ClearHead
  PROVE  CountInv'
  <1>1. UNCHANGED <<outstanding, wrote>> /\ Active' = Active
    BY Zenon DEF ClearMem, ClearHead, opVars, Active
  <1>2. Active = {} /\ outstanding = 0  BY NoneActive, Zenon DEF ClearMem,
     ClearHead
  <1>3. lh' = <<>> /\ (head' = head \/ head' = <<>>)
    BY Zenon DEF ClearMem, ClearHead, PhaseInv, durableVars
  <1> QED  BY <1>1, <1>2, <1>3, CountEmpty, Zenon

\* After a crash nothing is reserved.
LEMMA CountCrash ==
  ASSUME TypeInv, CountInv, Crash
  PROVE  CountInv'
  <1>1. /\ lh' = <<>> /\ outstanding' = 0 /\ head' = head
        /\ wrote' = [p \in Procs |-> {}] /\ Active' = {}
    BY Zenon DEF Crash, durableVars, Active
  <1> QED  BY <1>1, CountEmpty, Zenon

(***************************************************************************)
(* The count is right at first and after every step.                       *)
(***************************************************************************)
\* mkfs leaves an empty log, and no call has begun.
LEMMA CountInit ==
  ASSUME Init
  PROVE  CountInv
  <1>1. Active = {} /\ outstanding = 0  BY Zenon DEF Init, Active
  <1>2. lh = <<>> /\ head = <<>> /\ wrote = [p \in Procs |-> {}]  BY Zenon DEF
     Init
  <1>3. Entries = {} /\ HeadEntries = {} /\ Len(lh) = 0 /\ Len(head) = 0
    BY <1>2 DEF Entries, HeadEntries
  <1>4. IsFiniteSet({}) /\ Cardinality({}) = 0  BY FS_EmptySet, Zenon
  <1>5. \A p \in Procs : IsFiniteSet(wrote[p]) /\ Cardinality(wrote[p]) <= OpBlocks
    <2>1. \A p \in Procs : wrote[p] = {}  BY <1>2, Zenon
    <2> QED  BY <2>1, <1>4, LogAssumption
  <1>6. ASSUME NEW S \in SUBSET Active
        PROVE  Cardinality(Rest(S)) + Cardinality(S) * MAXOPBLOCKS <= LOGSIZE
    <2>1. S = {} /\ Rest(S) = {}  BY <1>1, <1>3, Zenon DEF Rest
    <2>2. Cardinality(Rest(S)) = 0 /\ Cardinality(S) = 0  BY <2>1, <1>4, Zenon
    <2>3. 0 * MAXOPBLOCKS = 0  BY LogAssumption
    <2> QED  BY <2>2, <2>3, LogAssumption
  <1> QED  BY <1>1, <1>3, <1>4, <1>5, <1>6, LogAssumption DEF CountInv

\* Every step preserves the count of the reservations.
LEMMA CountNext ==
  ASSUME TypeInv, LockInv, PhaseInv, CountInv, [Next]_vars
  PROVE  CountInv'
  <1>1. ASSUME NEW p \in Procs, BeginOp(p)  PROVE  CountInv'
    <2>1. CASE MustWait
      <3>1. UNCHANGED <<lh, head, wrote, outstanding>> /\ Active' = Active
        BY <1>1, <2>1, Zenon DEF BeginOp, durableVars, Active, TypeInv
      <3> QED  BY <3>1, CountSame, Zenon
    <2>2. CASE ~ MustWait  BY <1>1, <2>2, CountBegin, Zenon
    <2> QED  BY <2>1, <2>2, Zenon
  <1>2. ASSUME NEW p \in Procs, EndOp(p)  PROVE  CountInv'  BY <1>2, CountEnd,
     Zenon
  <1>3. ASSUME NEW p \in Procs, EndCommit(p) \/ Brelse(p) \/ LogCheck(p)
        PROVE  CountInv'
    <2>1. UNCHANGED <<lh, head, wrote, outstanding>>
      BY <1>3, Zenon DEF EndCommit, Brelse, LogCheck, durableVars
    <2>2. Active' = Active
      <3>1. CASE EndCommit(p)  BY <3>1, Zenon DEF EndCommit, Wakeup, Active,
         TypeInv
      <3>2. CASE Brelse(p)  BY <3>2, Zenon DEF Brelse, Active, TypeInv
      <3>3. CASE LogCheck(p)  BY <3>3, Zenon DEF LogCheck, Active, TypeInv
      <3> QED  BY <1>3, <3>1, <3>2, <3>3, Zenon
    <2> QED  BY <2>1, <2>2, CountSame, Zenon
  <1>4. ASSUME NEW p \in Procs, LogAppend(p)  PROVE  CountInv'
    BY <1>4, CountAppend, Zenon
  <1>5. ASSUME NEW p \in Procs, NEW b \in Blocks, Bread(p, b)  PROVE  CountInv'
    <2>1. UNCHANGED <<lh, head, wrote, outstanding>> /\ Active' = Active
      BY <1>5, Zenon DEF Bread, durableVars, Active, TypeInv
    <2> QED  BY <2>1, CountSame, Zenon
  <1>6. ASSUME NEW p \in Procs, NEW v \in Vals, Modify(p, v)  PROVE  CountInv'
    BY <1>6, CountModify, Zenon
  <1>7. ASSUME (\E b \in Blocks : Evict(b)) \/ WriteLog \/ Install
        PROVE  CountInv'
    <2>1. UNCHANGED <<lh, head, wrote, outstanding>> /\ Active' = Active
      BY <1>7, Zenon DEF Evict, WriteLog, Install, durableVars, opVars, Active
    <2> QED  BY <2>1, CountSame, Zenon
  <1>8. CASE WriteHead  BY <1>8, CountWriteHead, Zenon
  <1>9. CASE ClearMem \/ ClearHead  BY <1>9, CountClear, Zenon
  <1>10. CASE ReadHead  BY <1>10, CountReadHead, Zenon
  <1>11. CASE Crash  BY <1>11, CountCrash, Zenon
  <1>12. CASE UNCHANGED vars
    <2>1. UNCHANGED <<lh, head, wrote, outstanding>> /\ Active' = Active
      BY <1>12, Zenon DEF vars, Active
    <2> QED  BY <2>1, CountSame, Zenon
  <1> QED
    BY <1>1, <1>2, <1>3, <1>4, <1>5, <1>6, <1>7, <1>8, <1>9, <1>10, <1>11,
       <1>12, Zenon DEF Next, Committer

(***************************************************************************)
(* What recovery and a reader see, block by block.                         *)
(***************************************************************************)
RecoveredIs ==
  \A b \in Blocks :
    /\ \A i \in 1..Len(head) : head[i] = b => Recovered[b] = logd[i]
    /\ (\A i \in 1..Len(head) : head[i] # b) => Recovered[b] = disk[b]

Held(b) == b \in dirty \/ Changing(b)

ViewIs ==
  \A b \in Blocks : View[b] = IF Held(b) THEN cache[b] ELSE Recovered[b]

\* A block that is logged once has one place in the header.
LEMMA ChosenEntry ==
  ASSUME NEW n, NEW h, \A i, j \in 1..n : h[i] = h[j] => i = j,
         NEW k \in 1..n, NEW b, h[k] = b
  PROVE  (CHOOSE i \in 1..n : h[i] = b) = k
  <1>1. \A i \in 1..n : h[i] = b <=> i = k  BY Zenon
  <1>2. \E i \in 1..n : h[i] = b  BY Zenon
  <1>3. (CHOOSE i \in 1..n : h[i] = b) \in 1..n
        /\ h[CHOOSE i \in 1..n : h[i] = b] = b
    BY <1>2, Zenon
  <1> QED  BY <1>1, <1>3, Zenon

\* Recovery installs the logged blocks and leaves the others.
LEMMA RecoveredNow ==
  ASSUME DistinctInv
  PROVE  RecoveredIs
  <1>1. ASSUME NEW b \in Blocks, NEW k \in 1..Len(head), head[k] = b
        PROVE  Recovered[b] = logd[k]
    <2>1. (CHOOSE i \in 1..Len(head) : head[i] = b) = k
      BY <1>1, ChosenEntry, Zenon DEF DistinctInv
    <2>2. Recovered[b] = logd[CHOOSE i \in 1..Len(head) : head[i] = b]
      BY <1>1, Zenon DEF Recovered
    <2> QED  BY <2>1, <2>2, Zenon
  <1>2. ASSUME NEW b \in Blocks, \A i \in 1..Len(head) : head[i] # b
        PROVE  Recovered[b] = disk[b]
    BY <1>2, Zenon DEF Recovered
  <1> QED  BY <1>1, <1>2, Zenon DEF RecoveredIs

\* The same after a step.
LEMMA RecoveredNext ==
  ASSUME DistinctInv'
  PROVE  RecoveredIs'
  <1>1. ASSUME NEW b \in Blocks, NEW k \in 1..Len(head'), head'[k] = b
        PROVE  Recovered'[b] = logd'[k]
    <2>1. (CHOOSE i \in 1..Len(head') : head'[i] = b) = k
      BY <1>1, ChosenEntry, Zenon DEF DistinctInv
    <2>2. Recovered'[b] = logd'[CHOOSE i \in 1..Len(head') : head'[i] = b]
      BY <1>1, Zenon DEF Recovered
    <2> QED  BY <2>1, <2>2, Zenon
  <1>2. ASSUME NEW b \in Blocks, \A i \in 1..Len(head') : head'[i] # b
        PROVE  Recovered'[b] = disk'[b]
    BY <1>2, Zenon DEF Recovered
  <1> QED  BY <1>1, <1>2, Zenon DEF RecoveredIs

\* Readers see the held buffers, and otherwise what recovery would make.
LEMMA ViewNow ==
  ASSUME TypeInv, LockInv, DistinctInv, DirtyInv, CleanInv
  PROVE  ViewIs
  <1>1. RecoveredIs  BY RecoveredNow, Zenon
  <1>2. ASSUME NEW b \in Blocks
        PROVE  View[b] = IF Held(b) THEN cache[b] ELSE Recovered[b]
    <2>1. View[b] = IF cache[b] = NoVal THEN Recovered[b] ELSE cache[b]
      BY Zenon DEF View
    <2>2. CASE Held(b)
      <3>1. cache[b] # NoVal  BY <2>2, Zenon DEF Held, Changing, DirtyInv,
         LockInv
      <3> QED  BY <2>1, <2>2, <3>1, Zenon
    <2>3. CASE ~ Held(b)
      <3>1. cache[b] # NoVal => cache[b] = Recovered[b]
        BY <1>1, <2>3 DEF Held, CleanInv, RecoveredIs
      <3> QED  BY <2>1, <2>3, <3>1, Zenon
    <2> QED  BY <2>2, <2>3, Zenon
  <1> QED  BY <1>2, Zenon DEF ViewIs

\* The same after a step.
LEMMA ViewNext ==
  ASSUME LockInv', DistinctInv', DirtyInv', CleanInv'
  PROVE  ViewIs'
  <1>1. RecoveredIs'  BY RecoveredNext, Zenon
  <1>2. ASSUME NEW b \in Blocks
        PROVE  View'[b] = IF Held(b)' THEN cache'[b] ELSE Recovered'[b]
    <2>1. View'[b] = IF cache'[b] = NoVal THEN Recovered'[b] ELSE cache'[b]
      BY Zenon DEF View
    <2>2. CASE Held(b)'
      <3>1. cache'[b] # NoVal  BY <2>2, Zenon DEF Held, Changing, DirtyInv,
         LockInv
      <3> QED  BY <2>1, <2>2, <3>1, Zenon
    <2>3. CASE ~ Held(b)'
      <3>1. cache'[b] # NoVal => cache'[b] = Recovered'[b]
        BY <1>1, <2>3 DEF Held, CleanInv, RecoveredIs
      <3> QED  BY <2>1, <2>3, <3>1, Zenon
    <2> QED  BY <2>2, <2>3, Zenon
  <1> QED  BY <1>2, Zenon DEF ViewIs

\* Both are functions on the blocks: they agree when they do block by block.
LEMMA AreFunctions ==
  ASSUME TRUE
  PROVE  /\ Recovered = [b \in Blocks |-> Recovered[b]]
         /\ Recovered' = [b \in Blocks |-> Recovered'[b]]
         /\ View = [b \in Blocks |-> View[b]]
         /\ View' = [b \in Blocks |-> View'[b]]
  BY Zenon DEF Recovered, View

\* Functions on the blocks that agree on every block are equal.
LEMMA SameFunction ==
  ASSUME NEW f, f = [b \in Blocks |-> f[b]], NEW g, g = [b \in Blocks |-> g[b]],
         \A b \in Blocks : f[b] = g[b]
  PROVE  f = g
  BY Zenon

(***************************************************************************)
(* Every step is a step of AtomicDisk or changes nothing that it shows.    *)
(***************************************************************************)
\* The disk is not written and the buffers that are held do not change.
LEMMA QuietStep ==
  ASSUME RecoveredIs, RecoveredIs', ViewIs, ViewIs',
         UNCHANGED <<disk, logd, head>>,
         \A b \in Blocks : /\ Held(b)' <=> Held(b)
                           /\ Held(b) => cache'[b] = cache[b]
  PROVE  Recovered' = Recovered /\ View' = View
  <1>1. Recovered' = Recovered  BY Zenon DEF Recovered
  <1>2. \A b \in Blocks : View'[b] = View[b]  BY <1>1, Zenon DEF ViewIs
  <1> QED  BY <1>1, <1>2, AreFunctions, SameFunction, Zenon

\* While commit() or recovery goes on no block is being changed.
LEMMA NoneChanging ==
  ASSUME PhaseInv, at # "none"
  PROVE  \A b : ~ Changing(b)
  BY Zenon DEF PhaseInv, Changing, InOp

\* The system calls and block accesses that leave the blocks as they are.
LEMMA QuietCalls ==
  ASSUME Inv, Inv', NEW p \in Procs,
         \/ BeginOp(p) \/ EndOp(p) \/ EndCommit(p) \/ Brelse(p)
         \/ LogCheck(p) \/ LogAppend(p)
         \/ \E b \in Blocks : Bread(p, b)
  PROVE  Recovered' = Recovered /\ View' = View
  <1>1. RecoveredIs /\ RecoveredIs' /\ ViewIs /\ ViewIs'
    BY RecoveredNow, RecoveredNext, ViewNow, ViewNext, Zenon DEF Inv
  <1>2. CASE BeginOp(p) \/ EndOp(p) \/ EndCommit(p) \/ Brelse(p) \/ LogCheck(p)
    <2>1. UNCHANGED <<disk, logd, head, cache, dirty>>
      BY <1>2, Zenon DEF BeginOp, EndOp, EndCommit, Brelse, LogCheck,
         durableVars
    <2>2. \A b : Changing(b)' <=> Changing(b)  BY <1>2, ChangingSame, Zenon
       DEF Inv
    <2> QED  BY <1>1, <2>1, <2>2, QuietStep, Zenon DEF Held
  <1>3. CASE LogAppend(p)
    <2>1. /\ UNCHANGED <<disk, logd, head, cache>> /\ dirty' = dirty \cup {blk[p]}
          /\ blk' = [blk EXCEPT ![p] = NoBlock] /\ pc' = [pc EXCEPT ![p] = "op"]
          /\ pc[p] = "append"
      BY <1>3, Zenon DEF LogAppend, durableVars
    <2>2. /\ pc'[p] = "op"
          /\ \A q \in Procs : q # p => pc'[q] = pc[q] /\ blk'[q] = blk[q]
      BY <2>1, Zenon DEF Inv, TypeInv
    <2>3. Changing(blk[p])  BY <2>1, Zenon DEF Changing
    <2>4. \A c : c # blk[p] => (Changing(c)' <=> Changing(c))
      BY <2>2, Zenon DEF Changing
    <2>5. \A c \in Blocks : Held(c)' <=> Held(c)  BY <2>1, <2>3, <2>4, Zenon
       DEF Held
    <2> QED  BY <1>1, <2>1, <2>5, QuietStep, Zenon
  <1>4. ASSUME NEW b \in Blocks, Bread(p, b)
        PROVE  Recovered' = Recovered /\ View' = View
    <2>1. /\ UNCHANGED <<disk, logd, head, dirty>>
          /\ cache' = [cache EXCEPT ![b] = Cached(b)]
      BY <1>4, Zenon DEF Bread, durableVars
    <2>2. \A c : Changing(c)' <=> Changing(c)  BY <1>4, ChangingSame, Zenon
       DEF Inv
    <2>3. \A c \in Blocks : Held(c) => cache[c] # NoVal
      BY Zenon DEF Held, Changing, Inv, DirtyInv, LockInv
    <2>4. \A c \in Blocks : cache[c] # NoVal => cache'[c] = cache[c]
      BY <2>1, Zenon DEF Cached, Inv, TypeInv
    <2> QED  BY <1>1, <2>1, <2>2, <2>3, <2>4, QuietStep, Zenon DEF Held
  <1> QED  BY <1>2, <1>3, <1>4, Zenon

\* A change of a buffer is seen by readers and is not durable.
LEMMA ShowModify ==
  ASSUME Inv, Inv', NEW p \in Procs, NEW v \in Vals, Modify(p, v)
  PROVE  Recovered' = Recovered /\ View' = [View EXCEPT ![blk[p]] = v]
  <1>1. RecoveredIs /\ RecoveredIs' /\ ViewIs /\ ViewIs'
    BY RecoveredNow, RecoveredNext, ViewNow, ViewNext, Zenon DEF Inv
  <1>2. /\ UNCHANGED <<disk, logd, head, dirty, blk>> /\ pc[p] = "buf"
        /\ cache' = [cache EXCEPT ![blk[p]] = v]
        /\ pc' = [pc EXCEPT ![p] = "log_write"]
    BY Zenon DEF Modify, durableVars
  <1>3. blk[p] \in Blocks  BY <1>2, Zenon DEF Inv, LockInv
  <1>4. Recovered' = Recovered  BY <1>2, Zenon DEF Recovered
  <1>5. pc'[p] = "log_write" /\ \A q \in Procs : q # p => pc'[q] = pc[q]
    BY <1>2, Zenon DEF Inv, TypeInv
  <1>6. cache'[blk[p]] = v /\ \A c : c = blk[p] => Held(c)'
    BY <1>2, <1>3, <1>5, Zenon DEF Held, Changing, Inv, TypeInv
  <1>7. \A c \in Blocks : c # blk[p] =>
          (Held(c)' <=> Held(c)) /\ cache'[c] = cache[c]
    <2>1. \A c \in Blocks : c # blk[p] => cache'[c] = cache[c]
      BY <1>2, Zenon DEF Inv, TypeInv
    <2>2. \A c : c # blk[p] => (Changing(c)' <=> Changing(c))
      BY <1>2, <1>5, Zenon DEF Changing
    <2> QED  BY <1>2, <2>1, <2>2, Zenon DEF Held
  <1>8. ASSUME NEW c \in Blocks
        PROVE  View'[c] = IF c = blk[p] THEN v ELSE View[c]
    <2>1. CASE c = blk[p]
      <3>1. View'[c] = cache'[c]  BY <1>1, <1>6, <2>1, Zenon DEF ViewIs
      <3> QED  BY <1>6, <2>1, <3>1, Zenon
    <2>2. CASE c # blk[p]
      <3>1. View'[c] = View[c]  BY <1>1, <1>4, <1>7, <2>2, Zenon DEF ViewIs
      <3> QED  BY <2>2, <3>1, Zenon
    <2> QED  BY <2>1, <2>2, Zenon
  <1> DEFINE W == [View EXCEPT ![blk[p]] = v]
  <1>9. W = [b \in Blocks |-> W[b]] /\ \A c \in Blocks : View'[c] = W[c]
    BY <1>3, <1>8, AreFunctions, Zenon
  <1>10. View' = W
    <2> HIDE DEF W
    <2> QED  BY <1>9, AreFunctions, SameFunction, Zenon
  <1> QED  BY <1>4, <1>10, Zenon

\* bget() may recycle a buffer: the block is read again as it was.
LEMMA ShowEvict ==
  ASSUME Inv, Inv', NEW b \in Blocks, Evict(b)
  PROVE  Recovered' = Recovered /\ View' = View
  <1>1. RecoveredIs /\ RecoveredIs' /\ ViewIs /\ ViewIs'
    BY RecoveredNow, RecoveredNext, ViewNow, ViewNext, Zenon DEF Inv
  <1>2. /\ UNCHANGED <<disk, logd, head, dirty, pc, blk>>
        /\ cache' = [cache EXCEPT ![b] = NoVal]
        /\ ~ Locked(b) /\ b \notin dirty
    BY Zenon DEF Evict, durableVars, opVars
  <1>3. \A c \in Blocks : Held(c)' <=> Held(c)  BY <1>2, Zenon DEF Held,
     Changing
  <1>4. ~ Held(b)  BY <1>2, Zenon DEF Held, Changing, Locked
  <1>5. \A c \in Blocks : Held(c) => cache'[c] = cache[c]
    BY <1>2, <1>4, Zenon DEF Inv, TypeInv
  <1> QED  BY <1>1, <1>2, <1>3, <1>5, QuietStep, Zenon

\* write_head() is the commit: it makes durable what the readers see.
LEMMA ShowWriteHead ==
  ASSUME Inv, Inv', WriteHead
  PROVE  Recovered' = View /\ View' = View
  <1>1. RecoveredIs /\ RecoveredIs' /\ ViewIs /\ ViewIs'
    BY RecoveredNow, RecoveredNext, ViewNow, ViewNext, Zenon DEF Inv
  <1>2. /\ UNCHANGED <<disk, logd, cache, dirty, pc, blk, lh>> /\ head' = lh
        /\ at = "write_log" /\ tail > Len(lh)
    BY Zenon DEF WriteHead, opVars
  <1>3. \A b : ~ Changing(b) /\ ~ Changing(b)'
    <2>1. \A b : ~ Changing(b)  BY <1>2, NoneChanging, Zenon DEF Inv
    <2> QED  BY <1>2, <2>1, Zenon DEF Changing
  <1>4. head = <<>> /\ Len(head) = 0  BY <1>2, Zenon DEF Inv, PhaseInv
  <1>5. \A b \in Blocks : Recovered[b] = disk[b]  BY <1>1, <1>4 DEF RecoveredIs
  <1>6. \A i \in 1..Len(lh) : logd[i] = cache[lh[i]]
    <2>1. \A i \in 1..Len(lh) : i < tail  BY <1>2 DEF Inv, TypeInv
    <2> QED  BY <1>2, <2>1, Zenon DEF Inv, LogdInv
  <1>7. ASSUME NEW b \in Blocks
        PROVE  Recovered'[b] = View[b] /\ View'[b] = View[b]
    <2>1. View[b] = IF b \in dirty THEN cache[b] ELSE Recovered[b]
      BY <1>1, <1>3, Zenon DEF ViewIs, Held
    <2>2. View'[b] = IF b \in dirty THEN cache[b] ELSE Recovered'[b]
      BY <1>1, <1>2, <1>3, Zenon DEF ViewIs, Held
    <2>3. b \in dirty <=> \E i \in 1..Len(lh) : lh[i] = b
      BY <1>2, Zenon DEF Inv, DirtyInv
    <2>4. CASE b \in dirty
      <3>1. PICK i \in 1..Len(lh) : lh[i] = b  BY <2>3, <2>4, Zenon
      <3>2. Recovered'[b] = logd[i]  BY <1>1, <1>2, <3>1, Zenon DEF RecoveredIs
      <3> QED  BY <1>6, <2>1, <2>2, <2>4, <3>1, <3>2, Zenon
    <2>5. CASE b \notin dirty
      <3>1. Recovered'[b] = disk[b]  BY <1>1, <1>2, <2>3, <2>5, Zenon DEF
         RecoveredIs
      <3> QED  BY <1>5, <2>1, <2>2, <2>5, <3>1, Zenon
    <2> QED  BY <2>4, <2>5, Zenon
  <1> QED  BY <1>7, AreFunctions, SameFunction, Zenon

\* write_log() writes where recovery does not look yet.
LEMMA ShowWriteLog ==
  ASSUME Inv, Inv', RoomInv, WriteLog
  PROVE  Recovered' = Recovered /\ View' = View
  <1>1. RecoveredIs /\ RecoveredIs' /\ ViewIs /\ ViewIs'
    BY RecoveredNow, RecoveredNext, ViewNow, ViewNext, Zenon DEF Inv
  <1>2. /\ UNCHANGED <<disk, head, dirty, pc, blk, lh>> /\ at = "write_log"
        /\ cache' = [cache EXCEPT ![lh[tail]] = Cached(lh[tail])]
    BY Zenon DEF WriteLog, opVars
  <1>3. head = <<>> /\ Len(head) = 0  BY <1>2, Zenon DEF Inv, PhaseInv
  <1>4. \A b \in Blocks : Recovered'[b] = Recovered[b]
    BY <1>1, <1>2, <1>3 DEF RecoveredIs
  <1>5. tail \in 1..Len(lh)  BY TailEntry, Zenon DEF WriteLog, Inv
  <1>6. cache[lh[tail]] # NoVal  BY <1>2, <1>5, LoggedCached, Zenon DEF Inv
  <1>7. cache' = cache  BY <1>2, <1>6, Zenon DEF Cached, Inv, TypeInv
  <1>8. \A b \in Blocks : Held(b)' <=> Held(b)  BY <1>2, Zenon DEF Held,
     Changing
  <1>9. \A b \in Blocks : View'[b] = View[b]
    BY <1>1, <1>4, <1>7, <1>8, Zenon DEF ViewIs
  <1> QED  BY <1>4, <1>9, AreFunctions, SameFunction, Zenon

\* install_trans() changes home blocks that recovery would install anyway.
LEMMA ShowInstall ==
  ASSUME Inv, Inv', RoomInv, Install
  PROVE  Recovered' = Recovered /\ View' = View
  <1> DEFINE b == lh[tail]
  <1>1. RecoveredIs /\ RecoveredIs' /\ ViewIs /\ ViewIs'
    BY RecoveredNow, RecoveredNext, ViewNow, ViewNext, Zenon DEF Inv
  <1>2. tail \in 1..Len(lh) /\ b \in Blocks  BY TailEntry, Zenon DEF Install,
     Inv
  <1>3. /\ disk' = [disk EXCEPT ![b] = logd[tail]]
        /\ cache' = [cache EXCEPT ![b] = logd[tail]] /\ dirty' = dirty \ {b}
        /\ at \in {"install", "reinstall"}
        /\ UNCHANGED <<logd, head, pc, blk>>
    BY Zenon DEF Install, opVars
  <1>4. head = lh  BY <1>3, Zenon DEF Inv, PhaseInv
  <1>5. \A c : ~ Changing(c) /\ ~ Changing(c)'
    <2>1. \A c : ~ Changing(c)  BY <1>3, NoneChanging, Zenon DEF Inv
    <2> QED  BY <1>3, <2>1, Zenon DEF Changing
  <1>6. Recovered[b] = logd[tail] /\ Recovered'[b] = logd[tail]
    BY <1>1, <1>2, <1>3, <1>4 DEF RecoveredIs
  <1>7. View[b] = logd[tail]
    <2>1. CASE b \in dirty
      <3>1. cache[b] # NoVal /\ at = "install"
        BY <2>1, <1>3, Zenon DEF Inv, DirtyInv
      <3>2. cache[b] = logd[tail]  BY <3>1, <1>2, Zenon DEF Inv, LogdInv
      <3> QED  BY <3>2, <2>1, <1>1, <1>2, Zenon DEF ViewIs, Held
    <2>2. CASE b \notin dirty  BY <2>2, <1>1, <1>2, <1>5, <1>6, Zenon DEF
       ViewIs, Held
    <2> QED  BY <2>1, <2>2, Zenon
  <1>8. View'[b] = logd[tail]
    BY <1>1, <1>2, <1>3, <1>5, <1>6, Zenon DEF ViewIs, Held
  <1>9. ASSUME NEW c \in Blocks, c # b
        PROVE  Recovered'[c] = Recovered[c] /\ View'[c] = View[c]
    <2>1. cache'[c] = cache[c] /\ disk'[c] = disk[c]
      BY <1>3, <1>9, Zenon DEF Inv, TypeInv
    <2>2. Recovered'[c] = Recovered[c]
      <3>1. CASE \E i \in 1..Len(head) : head[i] = c
        <4>1. PICK i \in 1..Len(head) : head[i] = c  BY <3>1, Zenon
        <4>2. Recovered[c] = logd[i] /\ Recovered'[c] = logd'[i]
          BY <1>1, <1>3, <4>1, Zenon DEF RecoveredIs
        <4> QED  BY <4>2, <1>3, Zenon
      <3>2. CASE ~ \E i \in 1..Len(head) : head[i] = c
        <4>1. Recovered[c] = disk[c] /\ Recovered'[c] = disk'[c]
          BY <1>1, <1>3, <3>2, Zenon DEF RecoveredIs
        <4> QED  BY <4>1, <2>1, Zenon
      <3> QED  BY <3>1, <3>2, Zenon
    <2>3. Held(c)' <=> Held(c)  BY <1>3, <1>5, <1>9, Zenon DEF Held
    <2> QED  BY <1>1, <2>1, <2>2, <2>3, Zenon DEF ViewIs
  <1>10. \A c \in Blocks : Recovered'[c] = Recovered[c] /\ View'[c] = View[c]
    BY <1>6, <1>7, <1>8, <1>9, Zenon
  <1> QED  BY <1>10, AreFunctions, SameFunction, Zenon

\* The header is cleared when every block in it has been installed.
LEMMA ShowClearHead ==
  ASSUME Inv, Inv', ClearHead
  PROVE  Recovered' = Recovered /\ View' = View
  <1>1. RecoveredIs /\ RecoveredIs' /\ ViewIs /\ ViewIs'
    BY RecoveredNow, RecoveredNext, ViewNow, ViewNext, Zenon DEF Inv
  <1>2. /\ UNCHANGED <<disk, logd, cache, dirty, pc, blk>> /\ head' = lh
        /\ at \in {"clear", "reclear"}
    BY Zenon DEF ClearHead, opVars
  <1>3. head' = <<>> /\ Len(head') = 0  BY <1>2, Zenon DEF Inv, PhaseInv
  <1>4. \A i \in 1..Len(head) : disk[head[i]] = logd[i]
    BY <1>2, Zenon DEF Inv, LogdInv
  <1>5. \A b \in Blocks : Recovered[b] = disk[b]  BY <1>1, <1>4, Zenon DEF
     RecoveredIs
  <1>6. \A b \in Blocks : Recovered'[b] = disk[b]
    BY <1>1, <1>2, <1>3 DEF RecoveredIs
  <1>7. \A b \in Blocks : Recovered'[b] = Recovered[b]  BY <1>5, <1>6, Zenon
  <1>8. \A b \in Blocks : Held(b)' <=> Held(b)  BY <1>2, Zenon DEF Held,
     Changing
  <1>9. \A b \in Blocks : View'[b] = View[b]
    BY <1>1, <1>2, <1>7, <1>8, Zenon DEF ViewIs
  <1> QED  BY <1>7, <1>9, AreFunctions, SameFunction, Zenon

\* After a crash readers see what was durable.
LEMMA ShowCrash ==
  ASSUME Inv', RecoveredIs, Crash
  PROVE  Recovered' = Recovered /\ View' = Recovered /\ Active' = {}
  <1>1. /\ UNCHANGED <<disk, logd, head>> /\ dirty' = {}
        /\ pc' = [p \in Procs |-> "idle"]
    BY Zenon DEF Crash, durableVars
  <1>2. ViewIs'  BY ViewNext, Zenon DEF Inv
  <1>3. Recovered' = Recovered  BY <1>1, Zenon DEF Recovered
  <1>4. \A b : ~ Held(b)'  BY <1>1, Zenon DEF Held, Changing
  <1>5. \A b \in Blocks : View'[b] = Recovered[b]  BY <1>2, <1>3, <1>4, Zenon
     DEF ViewIs
  <1>6. Active' = {}  BY <1>1, Zenon DEF Active
  <1> QED  BY <1>3, <1>5, <1>6, AreFunctions, SameFunction, Zenon

\* A new file system is an atomic disk with no call active.
LEMMA ShowInit ==
  ASSUME Init
  PROVE  Atomic!Init
  <1>1. Inv  BY InvInit, Zenon
  <1>2. RecoveredIs /\ ViewIs  BY <1>1, RecoveredNow, ViewNow, Zenon DEF Inv
  <1>3. Len(head) = 0 /\ dirty = {} /\ disk \in [Blocks -> Vals]
        /\ pc = [p \in Procs |-> "idle"]
    BY Zenon DEF Init
  <1>4. \A b \in Blocks : Recovered[b] = disk[b]  BY <1>2, <1>3 DEF RecoveredIs
  <1>5. \A b : ~ Held(b)  BY <1>3, Zenon DEF Held, Changing
  <1>6. \A b \in Blocks : View[b] = Recovered[b]  BY <1>2, <1>5, Zenon DEF
     ViewIs
  <1>7. View = Recovered  BY <1>6, AreFunctions, SameFunction, Zenon
  <1>8. Recovered \in [Blocks -> Vals]  BY <1>3, <1>4, AreFunctions, Zenon
  <1>9. Active = {}  BY <1>3, Zenon DEF Active
  <1> QED  BY <1>7, <1>8, <1>9, Zenon DEF Atomic!Init

\* Every step of the log is a step of the atomic disk or stutters.
LEMMA ShowNext ==
  ASSUME Inv, Inv', RoomInv, [Next]_vars
  PROVE  [Atomic!Next]_(Atomic!avars)
  <1> DEFINE Stutter == Recovered' = Recovered /\ View' = View /\ Active' = Active
  <1>0. ASSUME Stutter  PROVE  UNCHANGED Atomic!avars
    BY <1>0, Zenon DEF Atomic!avars
  <1>1. ASSUME NEW p \in Procs, BeginOp(p)  PROVE  Atomic!Begin(p) \/ Stutter
    <2>1. Recovered' = Recovered /\ View' = View  BY <1>1, QuietCalls, Zenon
    <2>2. CASE MustWait
      <3>1. Active' = Active  BY <1>1, <2>2, Zenon DEF BeginOp, Active, Inv,
         TypeInv
      <3> QED  BY <2>1, <3>1, Zenon
    <2>3. CASE ~ MustWait
      <3>1. p \notin Active /\ Active' = Active \cup {p}
        BY <1>1, <2>3, Zenon DEF BeginOp, Active, Inv, TypeInv
      <3> QED  BY <2>1, <3>1, Zenon DEF Atomic!Begin
    <2> QED  BY <2>2, <2>3, Zenon
  <1>2. ASSUME NEW p \in Procs, EndOp(p)  PROVE  Atomic!End(p)
    <2>1. Recovered' = Recovered /\ View' = View  BY <1>2, QuietCalls, Zenon
    <2>2. ~ committing  BY <1>2, InOpNone, Zenon DEF EndOp, InOp, Inv
    <2>3. p \in Active /\ Active' = Active \ {p}
      BY <1>2, <2>2 DEF EndOp, Active, Inv, TypeInv, Wakeup
    <2> QED  BY <2>1, <2>3, Zenon DEF Atomic!End
  <1>3. ASSUME NEW p \in Procs,
               \/ EndCommit(p) \/ Brelse(p) \/ LogCheck(p) \/ LogAppend(p)
               \/ \E b \in Blocks : Bread(p, b)
        PROVE  Stutter
    <2>1. Recovered' = Recovered /\ View' = View  BY <1>3, QuietCalls, Zenon
    <2>2. Active' = Active
      <3>1. CASE EndCommit(p)
        BY <3>1, Zenon DEF EndCommit, Wakeup, Active, Inv, TypeInv
      <3>2. CASE Brelse(p) \/ LogCheck(p) \/ LogAppend(p)
        BY <3>2, Zenon DEF Brelse, LogCheck, LogAppend, Active, Inv, TypeInv
      <3>3. CASE \E b \in Blocks : Bread(p, b)
        BY <3>3, Zenon DEF Bread, Active, Inv, TypeInv
      <3> QED  BY <1>3, <3>1, <3>2, <3>3, Zenon
    <2> QED  BY <2>1, <2>2, Zenon
  <1>4. ASSUME NEW p \in Procs, NEW v \in Vals, Modify(p, v)
        PROVE  blk[p] \in Blocks /\ Atomic!Write(p, blk[p], v)
    <2>1. Recovered' = Recovered /\ View' = [View EXCEPT ![blk[p]] = v]
      BY <1>4, ShowModify, Zenon
    <2>2. p \in Active /\ Active' = Active /\ blk[p] \in Blocks
      <3>1. pc[p] = "buf" /\ pc' = [pc EXCEPT ![p] = "log_write"]
        BY <1>4, Zenon DEF Modify
      <3>2. pc \in [Procs -> Labels]  BY Zenon DEF Inv, TypeInv
      <3>3. blk[p] \in Blocks  BY <3>1, Zenon DEF Inv, LockInv
      <3> QED  BY <3>1, <3>2, <3>3, Zenon DEF Active
    <2> QED  BY <2>1, <2>2, Zenon DEF Atomic!Write
  <1>5. ASSUME \/ \E b \in Blocks : Evict(b)
               \/ WriteLog \/ Install \/ ClearMem \/ ClearHead \/ ReadHead
               \/ UNCHANGED vars
        PROVE  Stutter
    <2>1. Active' = Active
      BY <1>5, Zenon DEF Evict, WriteLog, Install, ClearMem, ClearHead,
         ReadHead, vars,
                  opVars, Active
    <2>2. CASE (\E b \in Blocks : Evict(b)) \/ WriteLog \/ Install \/ ClearHead
      BY <2>1, <2>2, ShowEvict, ShowWriteLog, ShowInstall, ShowClearHead, Zenon
    <2>3. CASE ClearMem \/ ReadHead \/ UNCHANGED vars
      <3>1. UNCHANGED <<disk, logd, head, cache>>
        BY <2>3, Zenon DEF ClearMem, ReadHead, vars, durableVars
      <3>2. Recovered' = Recovered  BY <3>1, Zenon DEF Recovered
      <3>3. View' = View  BY <3>1, <3>2, Zenon DEF View
      <3> QED  BY <2>1, <3>2, <3>3, Zenon
    <2> QED  BY <1>5, <2>2, <2>3, Zenon
  <1>6. ASSUME WriteHead  PROVE  Atomic!Commit
    <2>1. Recovered' = View /\ View' = View  BY <1>6, ShowWriteHead, Zenon
    <2>2. Active = {} /\ Active' = Active
      BY <1>6, Zenon DEF WriteHead, opVars, Active, Inv, PhaseInv, InOp
    <2> QED  BY <2>1, <2>2, Zenon DEF Atomic!Commit
  <1>7. ASSUME Crash  PROVE  Atomic!Crash
    BY <1>7, ShowCrash, RecoveredNow, Zenon DEF Atomic!Crash, Inv
  <1> HIDE DEF Stutter
  <1> QED
    BY <1>0, <1>1, <1>2, <1>3, <1>4, <1>5, <1>6, <1>7, Zenon
    DEF Next, Committer, Atomic!Next

(***************************************************************************)
(* Theorems.                                                               *)
(***************************************************************************)
\* What counting gives.
LEMMA Room ==
  ASSUME IInv
  PROVE  RoomInv
  BY CountFacts, Zenon DEF IInv, Inv, RoomInv

\* The invariant holds in every reachable state, for any number of processes
\* and blocks, and any sizes of the log and of the reservations.
THEOREM InvAlways == Spec => []IInv
  <1>1. Init => IInv  BY InvInit, CountInit, Zenon DEF IInv
  <1>2. IInv /\ [Next]_vars => IInv'
    <2> SUFFICES ASSUME IInv, [Next]_vars  PROVE  IInv'  BY Zenon
    <2>2. RoomInv  BY Room, Zenon
    <2>3. Inv'  BY <2>2, InvNext, Zenon DEF IInv
    <2>4. CountInv'  BY CountNext, Zenon DEF IInv, Inv
    <2> QED  BY <2>3, <2>4, Zenon DEF IInv
  <1> QED  BY <1>1, <1>2, PTL DEF Spec

\* Every variable has its type: in particular the headers in memory and on
\* disk never have more than LOGSIZE entries, and log.outstanding counts calls.
THEOREM TypesAlways == Spec => []TypeOK
  <1>1. IInv => TypeOK
    <2> SUFFICES ASSUME IInv  PROVE  TypeOK  BY Zenon
    <2>2. Len(lh) <= LOGSIZE /\ Len(head) <= LOGSIZE
      BY CountFacts, Zenon DEF IInv, Inv
    <2>3. outstanding \in 0..Cardinality(Procs)
      <3>1. outstanding = Cardinality(Active)  BY Zenon DEF IInv, CountInv
      <3>2. IsFiniteSet(Procs) /\ Active \subseteq Procs
        BY LogAssumption, Zenon DEF Active
      <3>3. /\ Cardinality(Active) \in Nat /\ Cardinality(Procs) \in Nat
            /\ Cardinality(Active) <= Cardinality(Procs)
        BY <3>2, CardSubset, Zenon
      <3> QED  BY <3>1, <3>3
    <2>4. TypeInv  BY Zenon DEF IInv, Inv
    <2> QED  BY <2>2, <2>3, <2>4, Zenon DEF TypeInv, TypeOK
  <1> QED  BY <1>1, InvAlways, PTL

\* Crash atomicity: whatever commit() and recovery were doing when the power
\* failed, the log implements the disk of AtomicDisk.
THEOREM CrashAtomicity == Spec => AtomicSpec
  <1>1. Init => Atomic!Init  BY ShowInit, Zenon
  <1>2. IInv /\ IInv' /\ [Next]_vars => [Atomic!Next]_(Atomic!avars)
    <2> SUFFICES ASSUME IInv, IInv', [Next]_vars
                   PROVE  [Atomic!Next]_(Atomic!avars)
      BY Zenon
    <2>2. RoomInv  BY Room, Zenon
    <2> QED  BY <2>2, ShowNext, Zenon DEF IInv
  <1> QED  BY <1>1, <1>2, InvAlways, PTL DEF Spec, AtomicSpec, Atomic!Spec

\* A call writes fewer blocks than it reserves, by the one block by which the
\* log on disk falls short of LOGSIZE.
Slack ==
  /\ OpBlocks < MAXOPBLOCKS
  /\ LOGSIZE + OpBlocks + 1 < NLOG + MAXOPBLOCKS

\* A process about to log a block finds room for it.
LEMMA RoomForOne ==
  ASSUME IInv, Slack, NEW p \in Procs, pc[p] = "log_write"
  PROVE  Len(lh) < LOGSIZE /\ Len(lh) < NLOG - 1 /\ outstanding >= 1
  <1>1. p \in Active /\ {p} \in SUBSET Active  BY Zenon DEF Active
  <1>2. outstanding >= 1  BY <1>1, CountFacts, Zenon DEF IInv, Inv
  <1>3. Cardinality({p}) = 1  BY FS_Singleton, Zenon
  <1>4. Cardinality(Rest({p})) + 1 * MAXOPBLOCKS <= LOGSIZE
    BY <1>1, <1>3, Zenon DEF IInv, CountInv
  <1>5. Entries \subseteq Rest({p}) \cup wrote[p]  BY Zenon DEF Rest
  <1>6. IsFiniteSet(Entries) /\ IsFiniteSet(wrote[p])  BY Zenon DEF IInv,
     CountInv
  <1>7. IsFiniteSet(Rest({p})) /\ Cardinality(Rest({p})) \in Nat
    BY <1>6, CardSubset, Zenon DEF Rest
  <1>8. Cardinality(wrote[p]) \in Nat /\ Cardinality(wrote[p]) <= OpBlocks
    BY <1>6, FS_CardinalityType, Zenon DEF IInv, CountInv
  <1>9. Cardinality(Entries) <= Cardinality(Rest({p})) + Cardinality(wrote[p])
    BY <1>5, <1>6, <1>7, CardCover, Zenon
  <1>10. Cardinality(Entries) = Len(lh) /\ Len(lh) \in Nat
    BY DEF IInv, CountInv, Inv, TypeInv
  <1>11. Len(lh) + MAXOPBLOCKS <= LOGSIZE + OpBlocks
    BY <1>4, <1>7, <1>8, <1>9, <1>10, LogAssumption
  <1> QED  BY <1>2, <1>10, <1>11, LogAssumption DEF Slack

\* The tests of log_write() and end_op() never panic, although log_write()
\* makes them before it takes the lock.
THEOREM NoPanicAlways ==
  ASSUME Slack
  PROVE  Spec => []NoPanic
  <1>1. Init => NoPanic  BY Zenon DEF Init, NoPanic
  <1>2. IInv /\ NoPanic /\ [Next]_vars => NoPanic'
    <2> SUFFICES ASSUME IInv, NoPanic, [Next]_vars  PROVE  NoPanic'  BY Zenon
    <2>2. ASSUME NEW p \in Procs, LogCheck(p)  PROVE  NoPanic'
      <3>1. Len(lh) < LOGSIZE /\ Len(lh) < NLOG - 1 /\ outstanding >= 1
        BY <2>2, RoomForOne, Zenon DEF LogCheck
      <3>2. ~ (Len(lh) >= LOGSIZE \/ Len(lh) >= NLOG - 1 \/ outstanding < 1)
        BY <3>1, LogAssumption DEF IInv, Inv, TypeInv
      <3> QED  BY <2>2, <3>2, Zenon DEF LogCheck, NoPanic
    <2>3. ASSUME NEW p \in Procs, EndOp(p)  PROVE  NoPanic'
      <3>1. ~ committing  BY <2>3, InOpNone, Zenon DEF EndOp, InOp, IInv, Inv
      <3> QED  BY <2>3, <3>1, Zenon DEF EndOp, NoPanic
    <2>4. ASSUME NEW p \in Procs,
                 \/ BeginOp(p) \/ EndCommit(p) \/ Brelse(p) \/ LogAppend(p)
                 \/ \E b \in Blocks : Bread(p, b)
                 \/ \E v \in Vals : Modify(p, v)
          PROVE  NoPanic'
      BY <2>4, Zenon
      DEF BeginOp, EndCommit, Brelse, LogAppend, Bread, Modify, NoPanic
    <2>5. ASSUME \/ \E b \in Blocks : Evict(b)
                 \/ Committer \/ Crash \/ UNCHANGED vars
          PROVE  NoPanic'
      BY <2>5, Zenon DEF Evict, Committer, WriteLog, WriteHead, Install,
         ClearMem,
                        ClearHead, ReadHead, Crash, vars, NoPanic
    <2> QED  BY <2>2, <2>3, <2>4, <2>5, Zenon DEF Next
  <1> QED  BY <1>1, <1>2, InvAlways, PTL DEF Spec

(***************************************************************************)
(* No lost wakeup.                                                         *)
(***************************************************************************)
\* Nobody sleeps before recovery is over.
SleepInv ==
  /\ SleepersMustWait
  /\ at \in {"read_head", "reinstall", "reclear"} =>
       \A p \in Procs : pc[p] # "asleep"

\* The sum that begin_op() tests grows with the log and with the calls.
LEMMA SumGrows ==
  ASSUME NEW n \in Nat, NEW o \in Nat, NEW n2 \in Nat, NEW o2 \in Nat,
         NEW m \in Nat, NEW l \in Nat, n <= n2, o <= o2, n + (o + 1) * m > l
  PROVE  n2 + (o2 + 1) * m > l
  <1>1. (o + 1) * m <= (o2 + 1) * m  BY MulMono
  <1>2. (o + 1) * m \in Nat /\ (o2 + 1) * m \in Nat  OBVIOUS
  <1> QED  BY <1>1, <1>2

\* Whoever has to wait still has to when the log and the calls only grow.
LEMMA WaitLonger ==
  ASSUME IInv, MustWait, committing' = committing,
         Len(lh') \in Nat, Len(lh) <= Len(lh'), outstanding' \in Nat,
         outstanding <= outstanding'
  PROVE  MustWait'
  <1>1. CASE committing  BY <1>1, Zenon DEF MustWait
  <1>2. CASE Len(lh) + (outstanding + 1) * MAXOPBLOCKS > LOGSIZE
    <2>1. outstanding \in Nat  BY ActiveFinite, Zenon DEF IInv, CountInv
    <2>2. Len(lh) \in Nat  BY DEF IInv, Inv, TypeInv
    <2>3. MAXOPBLOCKS \in Nat /\ LOGSIZE \in Nat  BY LogAssumption, Zenon
    <2>4. Len(lh') + (outstanding' + 1) * MAXOPBLOCKS > LOGSIZE
      BY <1>2, <2>1, <2>2, <2>3, SumGrows, Zenon
    <2> QED  BY <2>4, Zenon DEF MustWait
  <1> QED  BY <1>1, <1>2, Zenon DEF MustWait

\* A step that lets the log and the calls only grow and sends nobody to sleep.
LEMMA SleepSame ==
  ASSUME IInv, SleepInv, committing' = committing,
         Len(lh') \in Nat, Len(lh) <= Len(lh'),
         outstanding' \in Nat, outstanding <= outstanding',
         at' \in {"read_head", "reinstall", "reclear"} =>
           at \in {"read_head", "reinstall", "reclear"},
         \A p \in Procs : pc'[p] = "asleep" => pc[p] = "asleep"
  PROVE  SleepInv'
  BY WaitLonger, Zenon DEF SleepInv, SleepersMustWait

\* Every step preserves SleepInv.
LEMMA SleepNext ==
  ASSUME IInv, SleepInv, [Next]_vars
  PROVE  SleepInv'
  <1>1. outstanding \in Nat  BY ActiveFinite, Zenon DEF IInv, CountInv
  <1>2. Len(lh) \in Nat /\ TypeInv  BY DEF IInv, Inv, TypeInv
  <1>3. ASSUME NEW p \in Procs, BeginOp(p)  PROVE  SleepInv'
    <2>1. /\ UNCHANGED <<committing, lh, at>>
          /\ at \notin {"read_head", "reinstall", "reclear"}
      BY <1>3, Zenon DEF BeginOp, Up
    <2>2. CASE MustWait
      <3>1. outstanding' = outstanding  BY <1>3, <2>2, Zenon DEF BeginOp
      <3>2. MustWait'  BY <2>1, <2>2, <3>1, Zenon DEF MustWait
      <3> QED  BY <2>1, <3>2, Zenon DEF SleepInv, SleepersMustWait
    <2>3. CASE ~ MustWait
      <3>1. outstanding' = outstanding + 1 /\ pc' = [pc EXCEPT ![p] = "op"]
        BY <1>3, <2>3, Zenon DEF BeginOp
      <3>2. \A q \in Procs : pc'[q] = "asleep" => pc[q] = "asleep"
        BY <1>2, <3>1, Zenon DEF TypeInv
      <3>3. outstanding' \in Nat /\ outstanding <= outstanding'  BY <1>1, <3>1
      <3> QED  BY <1>2, <2>1, <3>2, <3>3, SleepSame
    <2> QED  BY <2>2, <2>3, Zenon
  <1>4. ASSUME NEW p \in Procs, EndOp(p)  PROVE  SleepInv'
    <2>1. at = "none" /\ ~ committing
      BY <1>4, InOpNone, Zenon DEF EndOp, InOp, IInv, Inv
    <2>2. at' \in {"none", "done", "write_log"}  BY <1>4, <2>1, Zenon DEF EndOp
    <2>3. CASE outstanding = 1
      <3>1. MustWait'  BY <1>4, <2>1, <2>3, Zenon DEF EndOp, MustWait
      <3> QED  BY <2>2, <3>1, Zenon DEF SleepInv, SleepersMustWait
    <2>4. CASE outstanding # 1
      <3>1. pc' = [Wakeup(pc) EXCEPT ![p] = "idle"]
        BY <1>4, <2>1, <2>4, Zenon DEF EndOp
      <3>2. \A q \in Procs : pc'[q] # "asleep"  BY <3>1, Zenon DEF Wakeup
      <3> QED  BY <2>2, <3>2, Zenon DEF SleepInv, SleepersMustWait
    <2> QED  BY <2>3, <2>4, Zenon
  <1>5. ASSUME NEW p \in Procs, EndCommit(p)  PROVE  SleepInv'
    <2>1. at' = "none" /\ pc' = [Wakeup(pc) EXCEPT ![p] = "idle"]
      BY <1>5, Zenon DEF EndCommit
    <2>2. \A q \in Procs : pc'[q] # "asleep"  BY <2>1, Zenon DEF Wakeup
    <2> QED  BY <2>1, <2>2, Zenon DEF SleepInv, SleepersMustWait
  <1>6. ASSUME NEW p \in Procs,
               \/ Brelse(p) \/ LogCheck(p)
               \/ \E b \in Blocks : Bread(p, b)
               \/ \E v \in Vals : Modify(p, v)
        PROVE  SleepInv'
    <2>1. UNCHANGED <<committing, lh, outstanding, at>>
      BY <1>6, Zenon DEF Brelse, LogCheck, Bread, Modify
    <2>2. \A q \in Procs : pc'[q] = "asleep" => pc[q] = "asleep"
      BY <1>2, <1>6, Zenon DEF Brelse, LogCheck, Bread, Modify, TypeInv
    <2> QED  BY <1>1, <1>2, <2>1, <2>2, SleepSame
  <1>7. ASSUME NEW p \in Procs, LogAppend(p)  PROVE  SleepInv'
    <2>1. /\ UNCHANGED <<committing, outstanding, at>>
          /\ lh' = lh \/ lh' = Append(lh, blk[p])
          /\ pc' = [pc EXCEPT ![p] = "op"]
      BY <1>7, Zenon DEF LogAppend
    <2>2. blk[p] \in Blocks  BY <1>7, Zenon DEF LogAppend, IInv, Inv, LockInv
    <2>3. Len(lh') \in Nat /\ Len(lh) <= Len(lh')
      BY <1>2, <2>1, <2>2 DEF TypeInv
    <2>4. \A q \in Procs : pc'[q] = "asleep" => pc[q] = "asleep"
      BY <1>2, <2>1, Zenon DEF TypeInv
    <2> QED  BY <1>1, <2>1, <2>3, <2>4, SleepSame
  <1>8. ASSUME \/ \E b \in Blocks : Evict(b)
               \/ WriteLog \/ WriteHead \/ Install \/ ClearHead \/ UNCHANGED vars
        PROVE  SleepInv'
    <2>1. UNCHANGED <<committing, lh, outstanding, pc>>
      BY <1>8, Zenon DEF Evict, WriteLog, WriteHead, Install, ClearHead, vars,
         opVars
    <2>2. at' \in {at, "install", "done", "none"}
      BY <1>8, Zenon DEF Evict, WriteLog, WriteHead, Install, ClearHead, vars
    <2> QED  BY <1>1, <1>2, <2>1, <2>2, SleepSame
  <1>9. CASE ClearMem
    <2>1. UNCHANGED <<committing, pc>> /\ at \in {"install", "reinstall"}
          /\ at' = IF at = "install" THEN "clear" ELSE "reclear"
      BY <1>9, Zenon DEF ClearMem, opVars
    <2>2. CASE at = "install"
      <3>1. committing'  BY <2>1, <2>2, Zenon DEF IInv, Inv, PhaseInv
      <3> QED  BY <2>1, <2>2, <3>1, Zenon DEF SleepInv, SleepersMustWait,
         MustWait
    <2>3. CASE at = "reinstall"  BY <2>1, <2>3, Zenon DEF SleepInv,
       SleepersMustWait
    <2> QED  BY <2>1, <2>2, <2>3, Zenon
  <1>10. CASE ReadHead
    BY <1>10, Zenon DEF ReadHead, opVars, SleepInv, SleepersMustWait
  <1>11. CASE Crash  BY <1>11, Zenon DEF Crash, SleepInv, SleepersMustWait
  <1> QED
    BY <1>3, <1>4, <1>5, <1>6, <1>7, <1>8, <1>9, <1>10, <1>11, Zenon
    DEF Next, Committer

\* Whoever makes room in the log wakes the sleepers of begin_op(), so that
\* nobody sleeps while there is room.
THEOREM SleepersAlways == Spec => []SleepersMustWait
  <1>1. Init => SleepInv  BY Zenon DEF Init, SleepInv, SleepersMustWait
  <1>2. IInv /\ SleepInv /\ [Next]_vars => SleepInv'  BY SleepNext, Zenon
  <1>3. SleepInv => SleepersMustWait  BY Zenon DEF SleepInv
  <1> QED  BY <1>1, <1>2, <1>3, InvAlways, PTL DEF Spec
=============================================================================
