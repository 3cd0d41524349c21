----------------------------- MODULE DiskProofs -----------------------------
(***************************************************************************)
(* Steps of Disk preserve IInv, for any number of processes, buffers and   *)
(* blocks.  So the cache is coherent, every sleeper has a waker, and bget()*)
(* is the only one that can panic.                                         *)
(***************************************************************************)
EXTENDS DiskInv, FiniteSetTheorems, TLAPS

(***************************************************************************)
(* Sequences and cardinalities.                                            *)
(***************************************************************************)
\* A set of indices has a last one.
LEMMA LastIn ==
  ASSUME NEW n \in Nat, NEW S, S \subseteq 1..n, S # {}
  PROVE  \E i \in S : \A j \in S : j <= i
<1> DEFINE T == {n - i : i \in S}
<1>1. T \subseteq Nat /\ T # {}
  <2>1. \A i \in S : n - i \in Nat
    OBVIOUS
  <2> QED
    BY <2>1, Zenon
<1>2. PICK x \in T : \A y \in T : ~ (<<y, x>> \in OpToRel(<, Nat))
  BY <1>1, NatLessThanWellFounded, WFMin, Zenon
<1>3. \A y \in Nat : y < x => <<y, x>> \in OpToRel(<, Nat)
  <2> SUFFICES ASSUME NEW y \in Nat, y < x
               PROVE  <<y, x>> \in OpToRel(<, Nat)
    BY Zenon
  <2> HIDE DEF T
  <2>1. <<y, x>> \in Nat \X Nat /\ <<y, x>>[1] = y /\ <<y, x>>[2] = x
    BY <1>1, Zenon
  <2>2. <<y, x>>[1] < <<y, x>>[2]
    BY <2>1, Zenon
  <2>3. <<y, x>> \in {ss \in Nat \X Nat : ss[1] < ss[2]}
    BY <2>1, <2>2, Zenon
  <2> QED
    BY <2>3, Zenon DEF OpToRel
<1>4. \A y \in T : ~ (y < x)
  <2> HIDE DEF T
  <2> QED
    BY <1>1, <1>2, <1>3, Zenon
<1>5. PICK i \in S : x = n - i
  BY Zenon
<1>6. \A j \in S : j <= i
  <2> SUFFICES ASSUME NEW j \in S PROVE j <= i
    BY Zenon
  <2>1. ~ (n - j < n - i)
    BY <1>4, <1>5, Zenon
  <2> QED
    BY <2>1
<1> QED
  BY <1>6, Zenon

\* An enumeration of the buffers that repeats none leaves none out.
LEMMA LruAll ==
  ASSUME LruInv
  PROVE  \A b \in Bufs : \E i \in 1..Len(lru) : lru[i] = b
<1> DEFINE D == 1..Len(lru)
<1>1. Cardinality(Bufs) \in Nat /\ IsFiniteSet(Bufs)
  BY DiskAssumption, FS_CardinalityType, Zenon
<1>2. Cardinality(D) = Cardinality(Bufs)
  BY <1>1, FS_Interval DEF LruInv
<1>3. lru \in [D -> Bufs]
  BY DEF LruInv
<1>4. lru \in Injection(D, Bufs)
  BY <1>3, Zenon DEF LruInv, Injection, IsInjective
<1>5. lru \in Surjection(D, Bufs)
  BY <1>1, <1>2, <1>4, FS_Injection, Zenon
<1> QED
  BY <1>5, Zenon DEF Surjection

\* bget() takes the last buffer of its list that is not in use.
LEMMA VictimUnused ==
  ASSUME LruInv, Unused # {}
  PROVE  Victim \in Bufs /\ buf[Victim].refcnt = 0 /\ ~ buf[Victim].dirty
<1> DEFINE S == {i \in 1..Len(lru) : lru[i] \in Unused}
           P(i) == lru[i] \in Unused
                   /\ \A j \in (i + 1)..Len(lru) : lru[j] \notin Unused
<1>1. S # {} /\ S \subseteq 1..Len(lru)
  BY LruAll DEF Unused
<1>2. Len(lru) \in Nat
  BY DEF LruInv
<1>3. PICK i \in S : \A j \in S : j <= i
  BY <1>1, <1>2, LastIn, Zenon
<1>4. P(i)
  BY <1>2, <1>3
<1>5. P(CHOOSE k \in 1..Len(lru) : P(k))
  <2> HIDE DEF P
  <2> QED
    BY <1>3, <1>4, Zenon
<1>6. Victim = lru[CHOOSE k \in 1..Len(lru) : P(k)]
  BY Zenon DEF Victim
<1>7. Victim \in Unused
  BY <1>5, <1>6, Zenon
<1> QED
  BY <1>7, Zenon DEF Unused

\* What brelse() does to the list.
LEMMA ToFrontList ==
  ASSUME LruInv, NEW b \in Bufs, lru' = ToFront(b)
  PROVE  LruInv'
<1>1. PICK k \in 1..Len(lru) : lru[k] = b
  BY LruAll, Zenon
<1>2. (CHOOSE i \in 1..Len(lru) : lru[i] = b) = k
  BY <1>1, Zenon DEF LruInv
<1>3. lru' = <<b>> \o (SubSeq(lru, 1, k - 1) \o SubSeq(lru, k + 1, Len(lru)))
  BY <1>2, Zenon DEF ToFront
<1> DEFINE n == Len(lru)
           s == SubSeq(lru, 1, k - 1)
           t == SubSeq(lru, k + 1, n)
           r == s \o t
<1>4. n \in Nat /\ lru \in Seq(Bufs) /\ k \in Nat /\ 1 <= k /\ k <= n
  BY <1>1 DEF LruInv
<1>5. /\ s \in Seq(Bufs) /\ Len(s) = k - 1
      /\ \A i \in 1..(k - 1) : s[i] = lru[i]
  BY <1>4
<1>6. /\ t \in Seq(Bufs) /\ Len(t) = n - k
      /\ \A i \in 1..(n - k) : t[i] = lru[k + i]
  BY <1>4
<1>7. /\ r \in Seq(Bufs) /\ Len(r) = n - 1
      /\ \A i \in 1..(n - 1) : r[i] = IF i < k THEN lru[i] ELSE lru[i + 1]
  <2> HIDE DEF s, t, n
  <2>1. r \in Seq(Bufs) /\ Len(r) = n - 1
    <3>1. s \in Seq(Bufs) /\ t \in Seq(Bufs)
      BY <1>5, <1>6, Zenon
    <3>2. r \in Seq(Bufs) /\ Len(r) = Len(s) + Len(t)
      BY <3>1
    <3> QED
      BY <3>2, <1>4, <1>5, <1>6
  <2>2. ASSUME NEW i \in 1..(n - 1), i < k PROVE r[i] = lru[i]
    BY <2>2, <1>4, <1>5, <1>6
  <2>3. ASSUME NEW i \in 1..(n - 1), ~ (i < k) PROVE r[i] = lru[i + 1]
    <3>1. i - (k - 1) \in 1..(n - k) /\ k + (i - (k - 1)) = i + 1
      BY <2>3, <1>4
    <3>2. r[i] = t[i - (k - 1)]
      BY <2>3, <3>1, <1>4, <1>5, <1>6
    <3> QED
      BY <3>1, <3>2, <1>6, Zenon
  <2> QED
    BY <2>1, <2>2, <2>3, Zenon
<1>8. lru' = <<b>> \o r
  BY <1>3, Zenon
<1>9. /\ lru' \in Seq(Bufs) /\ Len(lru') = n
      /\ lru'[1] = b
      /\ \A i \in 2..n : lru'[i] = r[i - 1]
  <2> HIDE DEF r, n
  <2> QED
    BY <1>1, <1>4, <1>7, <1>8
<1>10. \A i, j \in 1..n : lru[i] = lru[j] => i = j
  BY Zenon DEF LruInv
<1>11. ASSUME NEW i \in 2..n
       PROVE  \E f \in 1..n : lru'[i] = lru[f] /\ f # k
                              /\ f = IF i <= k THEN i - 1 ELSE i
  <2> HIDE DEF r, n
  <2>1. i - 1 \in 1..(n - 1)
    BY <1>4
  <2> QED
    BY <2>1, <1>4, <1>7, <1>9
<1>12. \A i, j \in 1..n : lru'[i] = lru'[j] => i = j
  <2> HIDE DEF r, n
  <2> QED
    BY <1>1, <1>4, <1>9, <1>10, <1>11
<1> QED
  <2>1. n = Cardinality(Bufs)
    BY Zenon DEF LruInv
  <2> HIDE DEF r, n
  <2> QED
    BY <2>1, <1>9, <1>12, Zenon DEF LruInv

(***************************************************************************)
(* References.                                                             *)
(***************************************************************************)
\* Nobody takes or returns a buffer.
LEMMA RefKeeps ==
  ASSUME RefInv, UNCHANGED bp,
         \A b \in Bufs : buf'[b].refcnt = buf[b].refcnt
  PROVE  RefInv'
BY Zenon DEF RefInv, Users

\* The users of a buffer are finitely many, and there is one when refcnt is
\* not 0.
LEMMA UsersFinite ==
  ASSUME NEW b
  PROVE  IsFiniteSet(Users(b)) /\ Cardinality(Users(b)) \in Nat
         /\ (Cardinality(Users(b)) = 0 <=> Users(b) = {})
<1>1. Users(b) \in SUBSET Procs
  BY Zenon DEF Users
<1> QED
  BY <1>1, DiskAssumption, FS_Subset, FS_CardinalityType, FS_EmptySet, Zenon

\* bget() counts its caller.
LEMMA RefTakes ==
  ASSUME Types, RefInv, NEW p \in Procs, NEW b \in Bufs, bp[p] = None,
         bp' = [bp EXCEPT ![p] = b],
         \A c \in Bufs : buf'[c].refcnt = IF c = b THEN buf[c].refcnt + 1
                                                   ELSE buf[c].refcnt
  PROVE  RefInv'
<1>1. None \notin Bufs
  BY DiskAssumption, Zenon
<1>2. Users(b)' = Users(b) \cup {p} /\ p \notin Users(b)
  BY <1>1, Zenon DEF Users, Types
<1>3. \A c \in Bufs : c # b => Users(c)' = Users(c)
  BY <1>1, Zenon DEF Users, Types
<1>4. Cardinality(Users(b)') = Cardinality(Users(b)) + 1
  BY <1>2, UsersFinite, FS_AddElement, Zenon
<1> QED
  BY <1>3, <1>4, Zenon DEF RefInv

\* brelse() discounts its caller.
LEMMA RefDrops ==
  ASSUME Types, RefInv, NEW p \in Procs, NEW b \in Bufs, bp[p] = b,
         bp' = [bp EXCEPT ![p] = None],
         \A c \in Bufs : buf'[c].refcnt = IF c = b THEN buf[c].refcnt - 1
                                                   ELSE buf[c].refcnt
  PROVE  RefInv'
<1>1. None \notin Bufs
  BY DiskAssumption, Zenon
<1>2. Users(b)' = Users(b) \ {p} /\ p \in Users(b)
  BY <1>1, Zenon DEF Users, Types
<1>3. \A c \in Bufs : c # b => Users(c)' = Users(c)
  BY <1>1, Zenon DEF Users, Types
<1>4. Cardinality(Users(b)') = Cardinality(Users(b)) - 1
  BY <1>2, UsersFinite, FS_RemoveElement, Zenon
<1> QED
  BY <1>3, <1>4, Zenon DEF RefInv

\* A process that has a buffer is counted in it.
LEMMA Counted ==
  ASSUME Types, RefInv, NEW p \in Procs, bp[p] \in Bufs
  PROVE  buf[bp[p]].refcnt >= 1
<1>1. p \in Users(bp[p])
  BY Zenon DEF Users
<1> QED
  BY <1>1, UsersFinite DEF RefInv

(***************************************************************************)
(* Pinned buffers.                                                         *)
(***************************************************************************)
\* No more buffers are pinned when none becomes pinned.
LEMMA PinnedFewer ==
  ASSUME PinInv, Pinned' \subseteq Pinned
  PROVE  PinInv'
<1>1. Pinned \in SUBSET Bufs /\ Pinned' \in SUBSET Pinned
  BY Zenon DEF Pinned
<1>2. IsFiniteSet(Pinned) /\ IsFiniteSet(Pinned')
  BY <1>1, DiskAssumption, FS_Subset, Zenon
<1>3. Cardinality(Pinned') <= Cardinality(Pinned)
      /\ Cardinality(Pinned) \in Nat /\ Cardinality(Pinned') \in Nat
  BY <1>1, <1>2, FS_Subset, FS_CardinalityType, Zenon
<1> QED
  BY <1>3, DiskAssumption DEF PinInv

(***************************************************************************)
(* Buffers.                                                                *)
(***************************************************************************)
\* One buffer changes.
LEMMA OneBuf ==
  ASSUME Types, NEW b \in Bufs, NEW r \in BufType,
         buf' = [buf EXCEPT ![b] = r]
  PROVE  /\ buf' \in [Bufs -> BufType]
         /\ buf'[b] = r
         /\ \A c \in Bufs : c # b => buf'[c] = buf[c]
BY Zenon DEF Types

\* Fields of a buffer.
LEMMA Fields ==
  ASSUME NEW r \in BufType
  PROVE  /\ r.blockno \in Blocks \cup {None} /\ r.refcnt \in Nat
         /\ r.pid \in Procs \cup {None} /\ r.data \in Vals
         /\ r.valid \in BOOLEAN /\ r.dirty \in BOOLEAN
BY Zenon DEF BufType

\* bget() and brelse() change the count.
LEMMA SetRef ==
  ASSUME Types, NEW b \in Bufs, NEW k \in Nat,
         buf' = [buf EXCEPT ![b].refcnt = k]
  PROVE  /\ buf' \in [Bufs -> BufType]
         /\ buf'[b].refcnt = k
         /\ \A c \in Bufs :
              /\ buf'[c].blockno = buf[c].blockno /\ buf'[c].pid = buf[c].pid
              /\ buf'[c].valid = buf[c].valid /\ buf'[c].dirty = buf[c].dirty
              /\ buf'[c].data = buf[c].data
              /\ c # b => buf'[c].refcnt = buf[c].refcnt
<1> DEFINE r == [buf[b] EXCEPT !.refcnt = k]
<1>1. buf[b] \in BufType
  BY Zenon DEF Types
<1>2. /\ r \in BufType /\ r.refcnt = k
      /\ r.blockno = buf[b].blockno /\ r.pid = buf[b].pid
      /\ r.valid = buf[b].valid /\ r.dirty = buf[b].dirty
      /\ r.data = buf[b].data
  BY <1>1, Zenon DEF BufType
<1>3. buf' = [buf EXCEPT ![b] = r]
  BY Zenon
<1> HIDE DEF r
<1> QED
  BY <1>2, <1>3, OneBuf, Zenon

\* acquiresleep() and releasesleep() change the holder of the lock.
LEMMA SetPid ==
  ASSUME Types, NEW b \in Bufs, NEW k \in Procs \cup {None},
         buf' = [buf EXCEPT ![b].pid = k]
  PROVE  /\ buf' \in [Bufs -> BufType]
         /\ buf'[b].pid = k
         /\ \A c \in Bufs :
              /\ buf'[c].blockno = buf[c].blockno
              /\ buf'[c].refcnt = buf[c].refcnt
              /\ buf'[c].valid = buf[c].valid /\ buf'[c].dirty = buf[c].dirty
              /\ buf'[c].data = buf[c].data
              /\ c # b => buf'[c].pid = buf[c].pid
<1> DEFINE r == [buf[b] EXCEPT !.pid = k]
<1>1. buf[b] \in BufType
  BY Zenon DEF Types
<1>2. /\ r \in BufType /\ r.pid = k
      /\ r.blockno = buf[b].blockno /\ r.refcnt = buf[b].refcnt
      /\ r.valid = buf[b].valid /\ r.dirty = buf[b].dirty
      /\ r.data = buf[b].data
  BY <1>1, Zenon DEF BufType
<1>3. buf' = [buf EXCEPT ![b] = r]
  BY Zenon
<1> HIDE DEF r
<1> QED
  BY <1>2, <1>3, OneBuf, Zenon

\* What the invariant says of a process that has a buffer.
LEMMA HasBuf ==
  ASSUME IInv, NEW p \in Procs, pc[p] # "idle"
  PROVE  bp[p] \in Bufs /\ bp[p] # None /\ buf[bp[p]].blockno \in Blocks
         /\ buf[bp[p]] \in BufType
BY Zenon DEF IInv, Types, BlockInv, BufType

(***************************************************************************)
(* The queue.                                                              *)
(***************************************************************************)
\* The request the controller works on is as it was when it was started.
LEMMA StartKeeps ==
  ASSUME NEW q \in Seq(Bufs), NEW bs, NEW cs,
         q # <<>> =>
           /\ cs[Head(q)].dirty = bs[Head(q)].dirty
           /\ cs[Head(q)].blockno = bs[Head(q)].blockno
           /\ cs[Head(q)].data = bs[Head(q)].data
  PROVE  Start(q, cs) = Start(q, bs)
BY Zenon DEF Start

\* Nobody enters or leaves the queue.
LEMMA QueueKeeps ==
  ASSUME Types, QueueInv, UNCHANGED <<idequeue, cmd>>,
         \A c \in Bufs : Queued(c) =>
           /\ buf'[c].blockno = buf[c].blockno /\ buf'[c].data = buf[c].data
           /\ buf'[c].valid = buf[c].valid /\ buf'[c].dirty = buf[c].dirty,
         \A q \in Procs : pc'[q] = "sleep_b" <=> pc[q] = "sleep_b",
         \A q \in Procs : pc[q] = "sleep_b" => bp'[q] = bp[q]
  PROVE  QueueInv'
<1>1. \A c : Queued(c)' <=> Queued(c)
  BY Zenon DEF Queued
<1>2. cmd' = Start(idequeue', buf')
  <2>1. idequeue # <<>> => Head(idequeue) \in Bufs /\ Queued(Head(idequeue))
    BY DEF Types, Queued
  <2>2. Start(idequeue, buf') = Start(idequeue, buf)
    BY <2>1, StartKeeps, Zenon DEF Types
  <2> QED
    BY <2>2, Zenon DEF QueueInv
<1> QED
  BY <1>1, <1>2 DEF QueueInv

\* Steps that leave data, flags, the queue and the disk alone.
LEMMA Quiet ==
  ASSUME IInv, UNCHANGED <<idequeue, cmd, platter, latest, junk>>,
         \A c \in Bufs :
           /\ buf'[c].blockno = buf[c].blockno /\ buf'[c].data = buf[c].data
           /\ buf'[c].valid = buf[c].valid /\ buf'[c].dirty = buf[c].dirty,
         \A q \in Procs : pc'[q] = "sleep_b" <=> pc[q] = "sleep_b",
         \A q \in Procs : pc[q] = "sleep_b" => bp'[q] = bp[q]
  PROVE  QueueInv' /\ DataInv' /\ PinInv'
<1>1. QueueInv'
  BY QueueKeeps, Zenon DEF IInv
<1>2. DataInv'
  BY Zenon DEF IInv, DataInv
<1>3. Pinned' \subseteq Pinned
  BY Zenon DEF Pinned, Queued
<1> QED
  BY <1>1, <1>2, <1>3, PinnedFewer, Zenon DEF IInv

(***************************************************************************)
(* The steps.                                                              *)
(***************************************************************************)
\* bget() finds the block in the cache.
LEMMA BgetHitStep ==
  ASSUME IInv, NEW p \in Procs, NEW n \in Blocks, BgetHit(p, n)
  PROVE  IInv'
<1>1. PICK b \in Bufs : /\ buf[b].blockno = n
                        /\ buf' = [buf EXCEPT ![b].refcnt = buf[b].refcnt + 1]
                        /\ bp' = [bp EXCEPT ![p] = b]
  BY Zenon DEF BgetHit, Holds
<1>2. /\ pc[p] = "idle" /\ bp[p] = None
      /\ pc' = [pc EXCEPT ![p] = "acquiresleep"]
      /\ UNCHANGED <<lru, idequeue, cmd, platter, panicked, latest, junk>>
  BY Zenon DEF BgetHit, At, Goto, IInv, BlockInv
<1>3. /\ buf' \in [Bufs -> BufType]
      /\ buf'[b].refcnt = buf[b].refcnt + 1
      /\ \A c \in Bufs :
           /\ buf'[c].blockno = buf[c].blockno /\ buf'[c].pid = buf[c].pid
           /\ buf'[c].valid = buf[c].valid /\ buf'[c].dirty = buf[c].dirty
           /\ buf'[c].data = buf[c].data
           /\ c # b => buf'[c].refcnt = buf[c].refcnt
  <2>1. buf[b].refcnt + 1 \in Nat
    BY Fields DEF IInv, Types
  <2> QED
    BY <2>1, <1>1, SetRef, Zenon DEF IInv
<1>4. None \notin Bufs \cup Blocks \cup Procs
  BY DiskAssumption, Zenon
<1>5. Types'
  BY <1>1, <1>2, <1>3, Zenon DEF IInv, Types, Labels
<1>6. LruInv'
  BY <1>2, Zenon DEF IInv, LruInv
<1>7. RefInv'
  <2>1. \A c \in Bufs : buf'[c].refcnt = IF c = b THEN buf[c].refcnt + 1
                                                  ELSE buf[c].refcnt
    BY <1>3, Zenon
  <2>2. Types /\ RefInv
    BY Zenon DEF IInv
  <2> QED
    BY <2>1, <2>2, <1>1, <1>2, RefTakes, Zenon
<1>8. BlockInv'
  BY <1>1, <1>2, <1>3, <1>4 DEF IInv, Types, BlockInv
<1>9. LockInv'
  BY <1>1, <1>2, <1>3, <1>4 DEF IInv, Types, LockInv, Owner
<1>10. FlagInv'
  BY <1>1, <1>2, <1>3, <1>4 DEF IInv, Types, FlagInv
<1>11. QueueInv' /\ DataInv' /\ PinInv'
  BY <1>1, <1>2, <1>3, Quiet, Zenon DEF IInv, Types
<1> QED
  BY <1>5, <1>6, <1>7, <1>8, <1>9, <1>10, <1>11, Zenon DEF IInv

\* acquiresleep() sleeps.
LEMMA SleepLkStep ==
  ASSUME IInv, NEW p \in Procs, AcquireSleep(p), buf[bp[p]].pid # None
  PROVE  IInv'
<1>1. /\ pc[p] = "acquiresleep" /\ bp[p] \in Bufs
      /\ pc' = [pc EXCEPT ![p] = "sleep_lk"]
      /\ UNCHANGED <<buf, lru, idequeue, cmd, platter, bp, panicked, latest, junk>>
  BY HasBuf, Zenon DEF AcquireSleep, At, Goto
<1>2. Types'
  BY <1>1, Zenon DEF IInv, Types, Labels
<1>3. LruInv' /\ RefInv'
  BY <1>1, RefKeeps, Zenon DEF IInv, LruInv
<1>4. BlockInv'
  BY <1>1, Zenon DEF IInv, Types, BlockInv
<1>5. LockInv'
  BY <1>1 DEF IInv, Types, LockInv, Owner
<1>6. FlagInv'
  BY <1>1, Zenon DEF IInv, Types, FlagInv
<1>7. QueueInv' /\ DataInv' /\ PinInv'
  BY <1>1, Quiet, Zenon DEF IInv, Types
<1> QED
  BY <1>2, <1>3, <1>4, <1>5, <1>6, <1>7, Zenon DEF IInv

\* acquiresleep() takes the lock.
LEMMA AcquireSleepStep ==
  ASSUME IInv, NEW p \in Procs, AcquireSleep(p), buf[bp[p]].pid = None
  PROVE  IInv'
<1>1. /\ pc[p] = "acquiresleep" /\ bp[p] \in Bufs
      /\ pc' = [pc EXCEPT ![p] = "bread"]
      /\ buf' = [buf EXCEPT ![bp[p]].pid = p]
      /\ UNCHANGED <<lru, idequeue, cmd, platter, bp, panicked, latest, junk>>
  BY HasBuf, Zenon DEF AcquireSleep, At, Goto
<1>2. PICK b \in Bufs : b = bp[p]
  BY <1>1, Zenon
<1>3. /\ buf' \in [Bufs -> BufType]
      /\ buf'[b].pid = p
      /\ \A c \in Bufs :
           /\ buf'[c].blockno = buf[c].blockno /\ buf'[c].refcnt = buf[c].refcnt
           /\ buf'[c].valid = buf[c].valid /\ buf'[c].dirty = buf[c].dirty
           /\ buf'[c].data = buf[c].data
           /\ c # b => buf'[c].pid = buf[c].pid
  <2>1. Types /\ p \in Procs \cup {None} /\ buf' = [buf EXCEPT ![b].pid = p]
    BY <1>1, <1>2, Zenon DEF IInv
  <2> QED
    BY <2>1, SetPid, Zenon
<1>4. None \notin Bufs \cup Blocks \cup Procs
  BY DiskAssumption, Zenon
<1>5. Types'
  BY <1>1, <1>3, Zenon DEF IInv, Types, Labels
<1>6. LruInv' /\ RefInv'
  BY <1>1, <1>3, RefKeeps, Zenon DEF IInv, LruInv
<1>7. BlockInv'
  BY <1>1, <1>3, <1>4 DEF IInv, Types, BlockInv
<1>8. LockInv'
  BY <1>1, <1>2, <1>3, <1>4 DEF IInv, Types, LockInv, Owner
<1>9. FlagInv'
  BY <1>1, <1>3, <1>4 DEF IInv, Types, FlagInv, BlockInv
<1>10. QueueInv' /\ DataInv' /\ PinInv'
  BY <1>1, <1>3, Quiet, Zenon DEF IInv, Types
<1> QED
  BY <1>5, <1>6, <1>7, <1>8, <1>9, <1>10, Zenon DEF IInv

\* bread() finds the data in the buffer.
LEMMA BreadHitStep ==
  ASSUME IInv, NEW p \in Procs, BreadHit(p)
  PROVE  IInv'
<1>1. /\ pc[p] = "bread" /\ bp[p] \in Bufs /\ buf[bp[p]].valid
      /\ pc' = [pc EXCEPT ![p] = "have"]
      /\ UNCHANGED <<buf, lru, idequeue, cmd, platter, bp, panicked, latest, junk>>
  BY HasBuf, Zenon DEF BreadHit, At, Goto
<1>2. Types'
  BY <1>1, Zenon DEF IInv, Types, Labels
<1>3. LruInv' /\ RefInv'
  BY <1>1, RefKeeps, Zenon DEF IInv, LruInv
<1>4. BlockInv'
  BY <1>1, Zenon DEF IInv, Types, BlockInv
<1>5. LockInv'
  BY <1>1 DEF IInv, Types, LockInv, Owner
<1>6. FlagInv'
  BY <1>1, Zenon DEF IInv, Types, FlagInv
<1>7. QueueInv' /\ DataInv' /\ PinInv'
  BY <1>1, Quiet, Zenon DEF IInv, Types
<1> QED
  BY <1>2, <1>3, <1>4, <1>5, <1>6, <1>7, Zenon DEF IInv

\* iderw() finds its request done.
LEMMA IderwWokenStep ==
  ASSUME IInv, NEW p \in Procs, IderwWoken(p)
  PROVE  IInv'
<1>1. pc[p] = "woken"
  BY Zenon DEF IderwWoken, At
<1>2. bp[p] \in Bufs /\ buf[bp[p]].valid /\ ~ buf[bp[p]].dirty
  BY <1>1, HasBuf, Zenon DEF IInv, FlagInv
<1>3. /\ pc' = [pc EXCEPT ![p] = "have"]
      /\ UNCHANGED <<buf, lru, idequeue, cmd, platter, bp, panicked, latest, junk>>
  BY <1>2, Zenon DEF IderwWoken, Goto
<1>4. Types'
  BY <1>3, Zenon DEF IInv, Types, Labels
<1>5. LruInv' /\ RefInv'
  BY <1>3, RefKeeps, Zenon DEF IInv, LruInv
<1>6. BlockInv'
  BY <1>1, <1>3, Zenon DEF IInv, Types, BlockInv
<1>7. LockInv'
  BY <1>1, <1>3 DEF IInv, Types, LockInv, Owner
<1>8. FlagInv'
  BY <1>1, <1>2, <1>3, Zenon DEF IInv, Types, FlagInv
<1>9. QueueInv' /\ DataInv' /\ PinInv'
  BY <1>1, <1>3, Quiet, Zenon DEF IInv, Types
<1> QED
  BY <1>4, <1>5, <1>6, <1>7, <1>8, <1>9, Zenon DEF IInv

\* The owner of a buffer holds its lock.
LEMMA OwnerHolds ==
  ASSUME IInv, NEW p \in Procs, Owner(p)
  PROVE  Holding(p)
BY Zenon DEF IInv, LockInv, Holding

\* releasesleep() wakes everybody who sleeps for the lock.
LEMMA ReleaseSleepStep ==
  ASSUME IInv, NEW p \in Procs, ReleaseSleep(p)
  PROVE  IInv'
<1>1. pc[p] \in {"have", "brelse"} /\ Owner(p) /\ bp[p] \in Bufs /\ Holding(p)
  BY HasBuf, OwnerHolds, Zenon DEF ReleaseSleep, Owner
<1>2. PICK b \in Bufs : b = bp[p]
  BY <1>1, Zenon
<1>3. /\ buf' = [buf EXCEPT ![b].pid = None]
      /\ pc' = [Wakeup(b, "sleep_lk", "acquiresleep") EXCEPT ![p] = "refcnt"]
      /\ UNCHANGED <<lru, idequeue, cmd, platter, bp, panicked, latest, junk>>
  BY <1>1, <1>2, Zenon DEF ReleaseSleep
<1>4. \A q \in Procs :
        pc'[q] = IF q = p THEN "refcnt"
                 ELSE IF pc[q] = "sleep_lk" /\ bp[q] = b THEN "acquiresleep"
                 ELSE pc[q]
  BY <1>3, Zenon DEF Wakeup
<1>5. /\ buf' \in [Bufs -> BufType]
      /\ buf'[b].pid = None
      /\ \A c \in Bufs :
           /\ buf'[c].blockno = buf[c].blockno /\ buf'[c].refcnt = buf[c].refcnt
           /\ buf'[c].valid = buf[c].valid /\ buf'[c].dirty = buf[c].dirty
           /\ buf'[c].data = buf[c].data
           /\ c # b => buf'[c].pid = buf[c].pid
  <2>1. Types /\ None \in Procs \cup {None}
    BY Zenon DEF IInv
  <2> QED
    BY <2>1, <1>3, SetPid, Zenon
<1>6. None \notin Bufs \cup Blocks \cup Procs
  BY DiskAssumption, Zenon
<1>7. Types'
  <2>1. pc' \in [Procs -> Labels]
    BY <1>3, Zenon DEF IInv, Types, Labels, Wakeup
  <2> QED
    BY <2>1, <1>3, <1>5, Zenon DEF IInv, Types
<1>8. LruInv' /\ RefInv'
  BY <1>3, <1>5, RefKeeps, Zenon DEF IInv, LruInv
<1>9. BlockInv'
  BY <1>1, <1>3, <1>4, <1>5 DEF IInv, Types, BlockInv
<1>10. LockInv'
  <2>1. \A q \in Procs : Owner(q)' <=> Owner(q) /\ q # p
    BY <1>4, Zenon DEF Owner
  <2>2. \A q \in Procs : Owner(q) /\ q # p => bp[q] \in Bufs /\ bp[q] # b
    BY <1>1, <1>2, HasBuf, Zenon DEF IInv, LockInv, Owner
  <2>3. ASSUME NEW q \in Procs, pc'[q] = "sleep_lk"
        PROVE  bp[q] \in Bufs /\ bp[q] # b /\ pc[q] = "sleep_lk"
    BY <2>3, <1>4, HasBuf, Zenon
  <2> QED
    BY <2>1, <2>2, <2>3, <1>2, <1>3, <1>5, <1>6 DEF IInv, LockInv
<1>11. FlagInv'
  BY <1>3, <1>4, <1>5, HasBuf DEF IInv, FlagInv
<1>12. QueueInv' /\ DataInv' /\ PinInv'
  BY <1>1, <1>3, <1>4, <1>5, Quiet
<1> QED
  BY <1>7, <1>8, <1>9, <1>10, <1>11, <1>12, Zenon DEF IInv

\* brelse() returns the buffer.
LEMMA BrelseStep ==
  ASSUME IInv, NEW p \in Procs, Brelse(p)
  PROVE  IInv'
<1>1. pc[p] = "refcnt" /\ bp[p] \in Bufs
  BY HasBuf, Zenon DEF Brelse, At
<1>2. PICK b \in Bufs : b = bp[p]
  BY <1>1, Zenon
<1>3. /\ buf' = [buf EXCEPT ![b].refcnt = buf[b].refcnt - 1]
      /\ lru' = ToFront(b) \/ lru' = lru
      /\ bp' = [bp EXCEPT ![p] = None]
      /\ pc' = [pc EXCEPT ![p] = "idle"]
      /\ UNCHANGED <<idequeue, cmd, platter, panicked, latest, junk>>
  BY <1>2, Zenon DEF Brelse, Goto
<1>4. Types /\ RefInv /\ buf[b].refcnt - 1 \in Nat
  <2>1. buf[b].refcnt \in Nat /\ buf[b].refcnt >= 1 /\ Types /\ RefInv
    BY <1>2, Counted, Fields, Zenon DEF IInv, Types
  <2> QED
    BY <2>1
<1>5. /\ buf' \in [Bufs -> BufType]
      /\ buf'[b].refcnt = buf[b].refcnt - 1
      /\ \A c \in Bufs :
           /\ buf'[c].blockno = buf[c].blockno /\ buf'[c].pid = buf[c].pid
           /\ buf'[c].valid = buf[c].valid /\ buf'[c].dirty = buf[c].dirty
           /\ buf'[c].data = buf[c].data
           /\ c # b => buf'[c].refcnt = buf[c].refcnt
  BY <1>3, <1>4, SetRef, Zenon
<1>6. None \notin Bufs \cup Blocks \cup Procs
  BY DiskAssumption, Zenon
<1>7. Types'
  BY <1>3, <1>5, Zenon DEF IInv, Types, Labels
<1>8. LruInv'
  BY <1>3, ToFrontList, Zenon DEF IInv, LruInv
<1>9. RefInv'
  <2>1. \A c \in Bufs : buf'[c].refcnt = IF c = b THEN buf[c].refcnt - 1
                                                  ELSE buf[c].refcnt
    BY <1>5, Zenon
  <2> QED
    BY <2>1, <1>2, <1>3, <1>4, RefDrops, Zenon
<1>10. BlockInv'
  BY <1>1, <1>3, <1>5, <1>6 DEF IInv, Types, BlockInv
<1>11. LockInv'
  BY <1>1, <1>3, <1>5, <1>6 DEF IInv, Types, LockInv, Owner
<1>12. FlagInv'
  BY <1>1, <1>3, <1>5, <1>6 DEF IInv, Types, FlagInv
<1>13. QueueInv' /\ DataInv' /\ PinInv'
  BY <1>1, <1>3, <1>5, Quiet, Zenon DEF IInv, Types
<1> QED
  BY <1>7, <1>8, <1>9, <1>10, <1>11, <1>12, <1>13, Zenon DEF IInv

\* bget() takes a buffer that nobody uses for another block.
LEMMA BgetRecycleStep ==
  ASSUME IInv, NEW p \in Procs, NEW n \in Blocks, BgetRecycle(p, n),
         Unused # {}
  PROVE  IInv'
<1>1. /\ pc[p] = "idle" /\ bp[p] = None /\ Holds(n) = {}
      /\ pc' = [pc EXCEPT ![p] = "acquiresleep"]
      /\ UNCHANGED <<lru, idequeue, cmd, platter, panicked, latest>>
  BY Zenon DEF BgetRecycle, At, Goto, IInv, BlockInv
<1>2. PICK b \in Bufs : b = Victim /\ buf[b].refcnt = 0 /\ ~ buf[b].dirty
  BY VictimUnused, Zenon DEF IInv
<1> DEFINE r == [buf[b] EXCEPT !.blockno = n, !.refcnt = 1, !.valid = FALSE,
                               !.dirty = FALSE]
<1>3. /\ buf' = [buf EXCEPT ![b] = r]
      /\ bp' = [bp EXCEPT ![p] = b]
      /\ junk' = junk \ {b}
  BY <1>2, Zenon DEF BgetRecycle
<1>4. Types /\ RefInv /\ buf[b] \in BufType
  BY Zenon DEF IInv, Types
<1>5. /\ r \in BufType
      /\ r.blockno = n /\ r.refcnt = 1 /\ r.pid = buf[b].pid
      /\ ~ r.valid /\ ~ r.dirty
  BY <1>4, Zenon DEF BufType
<1>6. /\ buf' \in [Bufs -> BufType]
      /\ buf'[b].blockno = n /\ buf'[b].refcnt = 1 /\ buf'[b].pid = buf[b].pid
      /\ ~ buf'[b].valid /\ ~ buf'[b].dirty
      /\ \A c \in Bufs : c # b => buf'[c] = buf[c]
  <2> HIDE DEF r
  <2> QED
    BY <1>3, <1>4, <1>5, OneBuf, Zenon
<1>7. \A q \in Procs : bp[q] # b
  BY <1>2, UsersFinite, Zenon DEF IInv, RefInv, Users
<1>8. buf[b].pid = None
  BY <1>7, <1>4, Fields DEF IInv, LockInv
<1>9. ~ Queued(b)
  BY <1>7, Zenon DEF IInv, QueueInv
<1>10. None \notin Bufs \cup Blocks \cup Procs
  BY DiskAssumption, Zenon
<1>11. \A c \in Bufs : buf[c].blockno # n
  BY <1>1, Zenon DEF Holds
<1>12. Types'
  BY <1>1, <1>3, <1>6, Zenon DEF IInv, Types, Labels
<1>13. LruInv'
  BY <1>1, Zenon DEF IInv, LruInv
<1>14. RefInv'
  <2>1. \A c \in Bufs : buf'[c].refcnt = IF c = b THEN buf[c].refcnt + 1
                                                  ELSE buf[c].refcnt
    BY <1>2, <1>6
  <2> QED
    BY <2>1, <1>1, <1>3, <1>4, RefTakes, Zenon
<1>15. \A q \in Procs : q # p => bp'[q] = bp[q] /\ pc'[q] = pc[q]
  BY <1>1, <1>3, <1>4, Zenon DEF Types
<1>16. bp'[p] = b /\ pc'[p] = "acquiresleep"
  BY <1>1, <1>3, <1>4, Zenon DEF Types
<1>17. BlockInv'
  BY <1>6, <1>7, <1>10, <1>11, <1>15, <1>16 DEF IInv, Types, BlockInv
<1>18. LockInv'
  BY <1>1, <1>6, <1>7, <1>8, <1>10, <1>15, <1>16, HasBuf
  DEF IInv, LockInv, Owner
<1>19. FlagInv'
  BY <1>3, <1>6, <1>7, <1>15, <1>16, HasBuf DEF IInv, FlagInv
<1>20. QueueInv'
  <2>1. \A c \in Bufs : Queued(c) =>
           /\ buf'[c].blockno = buf[c].blockno /\ buf'[c].data = buf[c].data
           /\ buf'[c].valid = buf[c].valid /\ buf'[c].dirty = buf[c].dirty
    BY <1>6, <1>9, Zenon
  <2> QED
    BY <2>1, <1>1, <1>4, <1>15, <1>16, QueueKeeps, Zenon DEF IInv
<1>21. DataInv'
  BY <1>1, <1>2, <1>3, <1>6, <1>11, Zenon DEF IInv, DataInv
<1>22. PinInv'
  <2>1. Pinned' \subseteq Pinned
    BY <1>1, <1>6, Zenon DEF Pinned, Queued
  <2> QED
    BY <2>1, PinnedFewer, Zenon DEF IInv
<1> QED
  BY <1>12, <1>13, <1>14, <1>17, <1>18, <1>19, <1>20, <1>21, <1>22, Zenon DEF
     IInv

\* No two processes own a buffer.
LEMMA OneOwner ==
  ASSUME IInv, NEW p \in Procs, NEW q \in Procs, Owner(p), Owner(q),
         bp[p] = bp[q]
  PROVE  p = q
BY Zenon DEF IInv, LockInv

\* The buffer of an owner that does not sleep in iderw() is not queued.
LEMMA OwnerNotQueued ==
  ASSUME IInv, NEW p \in Procs, Owner(p), pc[p] # "sleep_b"
  PROVE  ~ Queued(bp[p])
<1>1. bp[p] \in Bufs
  BY HasBuf, Zenon DEF Owner
<1> SUFFICES ASSUME Queued(bp[p]) PROVE FALSE
  BY Zenon
<1>2. PICK q \in Procs : pc[q] = "sleep_b" /\ bp[q] = bp[p]
  BY <1>1, Zenon DEF IInv, QueueInv
<1>3. Owner(q)
  BY <1>2, Zenon DEF Owner
<1> QED
  BY <1>2, <1>3, OneOwner, Zenon

\* iderw() adds a request at the end of the queue, and starts it when it is
\* the only one.
LEMMA QueueGrows ==
  ASSUME Types, QueueInv, NEW p \in Procs, NEW b \in Bufs, bp[p] = b,
         ~ Queued(b), bp' = bp, pc' = [pc EXCEPT ![p] = "sleep_b"],
         pc[p] # "sleep_b",
         idequeue' = Append(idequeue, b),
         cmd' = IF idequeue = <<>> THEN Start(idequeue', buf') ELSE cmd,
         \A c \in Bufs : c # b => buf'[c] = buf[c],
         ~ buf'[b].valid \/ buf'[b].dirty
  PROVE  QueueInv' /\ \A c : Queued(c)' <=> Queued(c) \/ c = b
<1>1. idequeue \in Seq(Bufs) /\ Len(idequeue) \in Nat
  BY DEF Types
<1>2. /\ Len(idequeue') = Len(idequeue) + 1
      /\ idequeue'[Len(idequeue) + 1] = b
      /\ \A i \in 1..Len(idequeue) : idequeue'[i] = idequeue[i]
      /\ idequeue' \in Seq(Bufs)
  BY <1>1
<1>3. \A c : Queued(c)' <=> Queued(c) \/ c = b
  BY <1>1, <1>2 DEF Queued
<1>4. cmd' = Start(idequeue', buf')
  <2>1. CASE idequeue # <<>>
    <3>1. Head(idequeue') = Head(idequeue) /\ idequeue' # <<>>
      BY <1>1, <2>1
    <3>2. Head(idequeue) \in Bufs /\ Queued(Head(idequeue))
      BY <1>1, <2>1 DEF Queued
    <3>3. Start(idequeue', buf') = Start(idequeue, buf)
      BY <2>1, <3>1, <3>2, Zenon DEF Start
    <3> QED
      BY <2>1, <3>3, Zenon DEF QueueInv
  <2> QED
    BY <2>1, Zenon
<1>5. \A i, j \in 1..Len(idequeue') : idequeue'[i] = idequeue'[j] => i = j
  BY <1>1, <1>2 DEF QueueInv, Queued
<1>6. \A q \in Procs : pc'[q] = "sleep_b" <=> pc[q] = "sleep_b" \/ q = p
  BY Zenon DEF Types
<1> QED
  BY <1>3, <1>4, <1>5, <1>6 DEF QueueInv

\* bread() asks for the block.
LEMMA BreadMissStep ==
  ASSUME IInv, NEW p \in Procs, BreadMiss(p)
  PROVE  IInv'
<1>1. pc[p] = "bread" /\ Owner(p) /\ bp[p] \in Bufs /\ Holding(p)
      /\ ~ buf[bp[p]].valid
  BY HasBuf, OwnerHolds, Zenon DEF BreadMiss, Owner, At
<1>2. PICK b \in Bufs : b = bp[p] /\ ~ Queued(b)
  BY <1>1, OwnerNotQueued, Zenon
<1>3. /\ idequeue' = Append(idequeue, b)
      /\ cmd' = IF idequeue = <<>> THEN Start(idequeue', buf') ELSE cmd
      /\ pc' = [pc EXCEPT ![p] = "sleep_b"]
      /\ UNCHANGED <<buf, lru, platter, bp, panicked, latest, junk>>
  BY <1>1, <1>2, Zenon DEF BreadMiss, Refused, IderwWith, Goto
<1>4. Types'
  BY <1>3 DEF IInv, Types, Labels
<1>5. LruInv' /\ RefInv'
  BY <1>3, RefKeeps, Zenon DEF IInv, LruInv
<1>6. BlockInv'
  BY <1>1, <1>3, Zenon DEF IInv, Types, BlockInv
<1>7. LockInv'
  BY <1>1, <1>3 DEF IInv, Types, LockInv, Owner
<1>8. FlagInv'
  BY <1>1, <1>3, Zenon DEF IInv, Types, FlagInv
<1>9. QueueInv' /\ \A c : Queued(c)' <=> Queued(c) \/ c = b
  BY <1>1, <1>2, <1>3, QueueGrows, Zenon DEF IInv
<1>10. DataInv'
  BY <1>3, Zenon DEF IInv, DataInv
<1>11. PinInv'
  <2>1. Pinned' \subseteq Pinned
    BY <1>3, <1>9, Zenon DEF Pinned
  <2> QED
    BY <2>1, PinnedFewer, Zenon DEF IInv
<1> QED
  BY <1>4, <1>5, <1>6, <1>7, <1>8, <1>9, <1>10, <1>11, Zenon DEF IInv

\* The owner of a buffer fills it: what bwrite() and log_write() have in
\* common.
LEMMA Filled ==
  ASSUME IInv, NEW p \in Procs, NEW b \in Bufs, b = bp[p], pc[p] = "have",
         NEW v \in Vals, NEW l \in {"sleep_b", "brelse"},
         buf' = [buf EXCEPT ![b] = [buf[b] EXCEPT !.data = v, !.dirty = TRUE]],
         pc' = [pc EXCEPT ![p] = l],
         latest' = [latest EXCEPT ![buf[b].blockno] = v],
         junk' = junk \ {b},
         UNCHANGED <<lru, bp, platter, panicked>>
  PROVE  /\ buf' \in [Bufs -> BufType]
         /\ buf'[b].dirty /\ buf'[b].blockno = buf[b].blockno
         /\ \A c \in Bufs : c # b => buf'[c] = buf[c]
         /\ idequeue' \in Seq(Bufs) => Types'
         /\ LruInv' /\ RefInv' /\ BlockInv' /\ LockInv' /\ FlagInv' /\ DataInv'
<1> DEFINE r == [buf[b] EXCEPT !.data = v, !.dirty = TRUE]
<1>1. Types /\ buf[b] \in BufType
  BY Zenon DEF IInv, Types
<1>2. /\ r \in BufType /\ r.data = v /\ r.dirty = TRUE
      /\ r.blockno = buf[b].blockno /\ r.refcnt = buf[b].refcnt
      /\ r.pid = buf[b].pid /\ r.valid = buf[b].valid
  BY <1>1, Zenon DEF BufType
<1>3. /\ buf' \in [Bufs -> BufType]
      /\ buf'[b].data = v /\ buf'[b].dirty
      /\ buf'[b].blockno = buf[b].blockno /\ buf'[b].refcnt = buf[b].refcnt
      /\ buf'[b].pid = buf[b].pid /\ buf'[b].valid = buf[b].valid
      /\ \A c \in Bufs : c # b => buf'[c] = buf[c]
  <2>1. buf' = [buf EXCEPT ![b] = r]
    BY Zenon
  <2> HIDE DEF r
  <2> QED
    BY <2>1, <1>1, <1>2, OneBuf, Zenon
<1>4. /\ \A c \in Bufs : /\ buf'[c].blockno = buf[c].blockno
                         /\ buf'[c].refcnt = buf[c].refcnt
                         /\ buf'[c].pid = buf[c].pid
                         /\ buf'[c].valid = buf[c].valid
  BY <1>3, Zenon
<1>5. buf[b].blockno \in Blocks /\ buf[b].valid
  BY HasBuf, Zenon DEF IInv, FlagInv
<1>6. ASSUME idequeue' \in Seq(Bufs) PROVE Types'
  BY <1>1, <1>3, <1>5, <1>6, Zenon DEF Types, Labels
<1>7. LruInv' /\ RefInv'
  BY <1>4, RefKeeps, Zenon DEF IInv, LruInv
<1>8. \A q \in Procs : pc'[q] = IF q = p THEN l ELSE pc[q]
  BY <1>1, Zenon DEF Types
<1>9. BlockInv'
  BY <1>1, <1>4, <1>8 DEF IInv, Types, BlockInv
<1>10. LockInv'
  BY <1>1, <1>4, <1>8, HasBuf DEF IInv, LockInv, Owner
<1>11. FlagInv'
  <2>1. \A q \in Procs : pc[q] = "woken" => bp[q] \in Bufs /\ bp[q] # b
    BY HasBuf, OneOwner, Zenon DEF Owner
  <2> QED
    BY <2>1, <1>3, <1>4, <1>5, <1>8, HasBuf DEF IInv, FlagInv
<1>12. DataInv'
  <2>1. \A c \in Bufs : c # b => buf[c].blockno # buf[b].blockno
    BY <1>5, DiskAssumption, Zenon DEF IInv, BlockInv
  <2>2. latest'[buf[b].blockno] = v
        /\ \A n \in Blocks : n # buf[b].blockno => latest'[n] = latest[n]
    BY <1>1, <1>5, Zenon DEF Types
  <2>3. ASSUME NEW c \in Bufs, buf'[c].valid, c \notin junk'
        PROVE  buf'[c].data = latest'[buf'[c].blockno]
    <3>1. CASE c = b
      BY <3>1, <1>3, <2>2, Zenon
    <3>2. CASE c # b
      <4>1. buf[c].valid /\ c \notin junk /\ buf[c].blockno \in Blocks
        BY <3>2, <2>3, <1>1, <1>3, Fields DEF IInv, FlagInv, Types
      <4> QED
        BY <3>2, <4>1, <1>3, <2>1, <2>2 DEF IInv, DataInv
    <3> QED
      BY <3>1, <3>2, Zenon
  <2>4. ASSUME NEW n \in Blocks,
               \A c \in Bufs : buf'[c].blockno = n => ~ buf'[c].dirty
        PROVE  platter'[n] = latest'[n]
    <3>1. n # buf[b].blockno
      BY <2>4, <1>3, Zenon
    <3>2. \A c \in Bufs : buf[c].blockno = n => ~ buf[c].dirty
      BY <2>4, <3>1, <1>3, Zenon
    <3> QED
      BY <3>1, <3>2, <2>2, Zenon DEF IInv, DataInv
  <2> QED
    BY <2>3, <2>4, Zenon DEF DataInv
<1> QED
  BY <1>3, <1>6, <1>7, <1>9, <1>10, <1>11, <1>12, Zenon

\* bwrite() fills a buffer and asks for it to be written.
LEMMA BwriteStep ==
  ASSUME IInv, NEW p \in Procs, NEW v \in Vals, Bwrite(p, v)
  PROVE  IInv'
<1>1. pc[p] = "have" /\ Owner(p) /\ bp[p] \in Bufs /\ Holding(p)
      /\ buf[bp[p]] \in BufType
  BY HasBuf, OwnerHolds, Zenon DEF Bwrite, Owner, At
<1>2. PICK b \in Bufs : b = bp[p] /\ ~ Queued(b)
  BY <1>1, OwnerNotQueued, Zenon
<1> DEFINE r == [buf[b] EXCEPT !.data = v, !.dirty = TRUE]
<1>3. ~ Refused(p, r) /\ r.blockno = buf[b].blockno
  BY <1>1, <1>2, Zenon DEF Refused, BufType
<1>4. /\ buf' = [buf EXCEPT ![b] = r]
      /\ idequeue' = Append(idequeue, b)
      /\ cmd' = IF idequeue = <<>> THEN Start(idequeue', buf') ELSE cmd
      /\ pc' = [pc EXCEPT ![p] = "sleep_b"]
      /\ latest' = [latest EXCEPT ![buf[b].blockno] = v]
      /\ junk' = junk \ {b}
      /\ UNCHANGED <<lru, bp, platter, panicked>>
  BY <1>2, <1>3, Zenon DEF Bwrite, IderwWith, Goto
<1> HIDE DEF r
<1>5. /\ buf'[b].dirty
      /\ \A c \in Bufs : c # b => buf'[c] = buf[c]
      /\ idequeue' \in Seq(Bufs) => Types'
      /\ LruInv' /\ RefInv' /\ BlockInv' /\ LockInv' /\ FlagInv' /\ DataInv'
  BY <1>1, <1>2, <1>4, Filled, Zenon DEF r
<1>6. Types'
  BY <1>4, <1>5 DEF IInv, Types
<1>7. QueueInv' /\ \A c : Queued(c)' <=> Queued(c) \/ c = b
  <2>1. Types /\ QueueInv
    BY Zenon DEF IInv
  <2> QED
    BY <2>1, <1>1, <1>2, <1>4, <1>5, QueueGrows, Zenon
<1>8. PinInv'
  <2>1. Pinned' \subseteq Pinned
    BY <1>5, <1>7, Zenon DEF Pinned
  <2> QED
    BY <2>1, PinnedFewer, Zenon DEF IInv
<1> QED
  BY <1>5, <1>6, <1>7, <1>8, Zenon DEF IInv

\* log_write() fills a buffer and keeps it in memory.
LEMMA LogWriteStep ==
  ASSUME IInv, NEW p \in Procs, NEW v \in Vals, LogWrite(p, v)
  PROVE  IInv'
<1>1. pc[p] = "have" /\ Owner(p) /\ bp[p] \in Bufs
      /\ buf[bp[p]] \in BufType
  BY HasBuf, Zenon DEF LogWrite, Owner, At
<1>2. PICK b \in Bufs : b = bp[p] /\ ~ Queued(b)
  BY <1>1, OwnerNotQueued, Zenon
<1> DEFINE r == [buf[b] EXCEPT !.data = v, !.dirty = TRUE]
<1>3. /\ buf' = [buf EXCEPT ![b] = r]
      /\ pc' = [pc EXCEPT ![p] = "brelse"]
      /\ latest' = [latest EXCEPT ![buf[b].blockno] = v]
      /\ junk' = junk \ {b}
      /\ Cardinality(Pins \cup {b}) <= MaxPins
      /\ UNCHANGED <<lru, idequeue, cmd, bp, platter, panicked>>
  BY <1>2, Zenon DEF LogWrite, Goto, IInv, Types
<1> HIDE DEF r
<1>4. /\ buf'[b].dirty
      /\ \A c \in Bufs : c # b => buf'[c] = buf[c]
      /\ idequeue' \in Seq(Bufs) => Types'
      /\ LruInv' /\ RefInv' /\ BlockInv' /\ LockInv' /\ FlagInv' /\ DataInv'
  BY <1>1, <1>2, <1>3, Filled, Zenon DEF r
<1>5. Types'
  BY <1>3, <1>4, Zenon DEF IInv, Types
<1>6. QueueInv'
  <2>1. \A c \in Bufs : Queued(c) =>
           /\ buf'[c].blockno = buf[c].blockno /\ buf'[c].data = buf[c].data
           /\ buf'[c].valid = buf[c].valid /\ buf'[c].dirty = buf[c].dirty
    BY <1>2, <1>4, Zenon
  <2>2. \A q \in Procs : pc'[q] = "sleep_b" <=> pc[q] = "sleep_b"
    BY <1>1, <1>3, Zenon DEF IInv, Types
  <2> QED
    BY <2>1, <2>2, <1>3, QueueKeeps, Zenon DEF IInv
<1>7. PinInv'
  <2>1. Pinned' \in SUBSET (Pins \cup {b})
    BY <1>4, Zenon DEF Pinned, Pins
  <2>2. Pins \cup {b} \in SUBSET Bufs
    BY Zenon DEF Pins
  <2>3. IsFiniteSet(Pins \cup {b})
    BY <2>2, DiskAssumption, FS_Subset, Zenon
  <2>4. Cardinality(Pinned') <= Cardinality(Pins \cup {b})
        /\ IsFiniteSet(Pinned')
    BY <2>1, <2>3, FS_Subset, Zenon
  <2>5. Cardinality(Pinned') \in Nat /\ Cardinality(Pins \cup {b}) \in Nat
    BY <2>3, <2>4, FS_CardinalityType, Zenon
  <2> QED
    BY <2>4, <2>5, <1>3, DiskAssumption DEF PinInv
<1> QED
  BY <1>4, <1>5, <1>6, <1>7, Zenon DEF IInv

\* The first request leaves the queue and the next one is started.
LEMMA QueueShrinks ==
  ASSUME IInv, idequeue # <<>>, idequeue' = Tail(idequeue), NEW bs,
         \A c \in Bufs : c # Head(idequeue) =>
                           bs[c] = buf[c] /\ buf'[c] = buf[c],
         cmd' = Start(idequeue', bs), bp' = bp,
         \A q \in Procs :
           pc'[q] = "sleep_b" <=> pc[q] = "sleep_b" /\ bp[q] # Head(idequeue)
  PROVE  /\ QueueInv' /\ idequeue' \in Seq(Bufs)
         /\ Head(idequeue) \in Bufs /\ Queued(Head(idequeue))
         /\ \A c : Queued(c)' <=> Queued(c) /\ c # Head(idequeue)
<1> DEFINE b == Head(idequeue)
<1>1. idequeue \in Seq(Bufs) /\ Len(idequeue) \in Nat \ {0}
  BY DEF IInv, Types
<1>2. /\ Len(idequeue') = Len(idequeue) - 1 /\ idequeue' \in Seq(Bufs)
      /\ \A i \in 1..(Len(idequeue) - 1) : idequeue'[i] = idequeue[i + 1]
      /\ b = idequeue[1] /\ b \in Bufs
  BY <1>1
<1>3. \A i, j \in 1..Len(idequeue) : idequeue[i] = idequeue[j] => i = j
  BY Zenon DEF IInv, QueueInv
<1> HIDE DEF b
<1>4. ASSUME NEW c PROVE Queued(c)' <=> Queued(c) /\ c # b
  <2>1. ASSUME Queued(c)' PROVE Queued(c) /\ c # b
    <3>1. PICK i \in 1..(Len(idequeue) - 1) : idequeue'[i] = c
      BY <2>1, <1>2, Zenon DEF Queued
    <3>2. i + 1 \in 1..Len(idequeue) /\ 1 \in 1..Len(idequeue) /\ i + 1 # 1
      BY <1>1
    <3>3. idequeue[i + 1] = c
      BY <3>1, <1>2, Zenon
    <3> QED
      BY <3>2, <3>3, <1>2, <1>3, Zenon DEF Queued
  <2>2. ASSUME Queued(c), c # b PROVE Queued(c)'
    <3>1. PICK i \in 1..Len(idequeue) : idequeue[i] = c
      BY <2>2, Zenon DEF Queued
    <3>2. i - 1 \in 1..(Len(idequeue) - 1) /\ (i - 1) + 1 = i
      BY <3>1, <2>2, <1>1, <1>2
    <3>3. idequeue'[i - 1] = c
      BY <3>1, <3>2, <1>2, Zenon
    <3> QED
      BY <3>2, <3>3, <1>2, Zenon DEF Queued
  <2> QED
    BY <2>1, <2>2, Zenon
<1>5. \A i, j \in 1..Len(idequeue') : idequeue'[i] = idequeue'[j] => i = j
  <2> SUFFICES ASSUME NEW i \in 1..Len(idequeue'), NEW j \in 1..Len(idequeue'),
                      idequeue'[i] = idequeue'[j]
               PROVE  i = j
    BY Zenon
  <2>1. i + 1 \in 1..Len(idequeue) /\ j + 1 \in 1..Len(idequeue)
    BY <1>1, <1>2
  <2>2. idequeue[i + 1] = idequeue[j + 1]
    BY <1>1, <1>2, Zenon
  <2>3. i + 1 = j + 1
    BY <2>1, <2>2, <1>3, Zenon
  <2> QED
    BY <2>3, <1>1, <1>2
<1>6. cmd' = Start(idequeue', buf')
  <2>1. ASSUME idequeue' # <<>>
        PROVE  bs[Head(idequeue')] = buf'[Head(idequeue')]
    <3>1. PICK h : h = Head(idequeue')
      BY Zenon
    <3>2. 1 \in 1..Len(idequeue') /\ idequeue'[1] = h /\ h \in Bufs
      BY <2>1, <3>1, <1>2
    <3>3. Queued(h)'
      BY <3>2, Zenon DEF Queued
    <3>4. h # b
      BY <3>3, <1>4, Zenon
    <3> QED
      BY <3>1, <3>2, <3>4, Zenon DEF b
  <2> QED
    BY <2>1, Zenon DEF Start
<1>7. Queued(b)
  BY <1>1, <1>2 DEF Queued
<1>8. QueueInv'
  <2>1. ASSUME NEW q \in Procs, pc'[q] = "sleep_b" PROVE Queued(bp[q])'
    <3>1. PICK c : c = bp[q]
      BY Zenon
    <3>2. Queued(c) /\ c # b
      BY <2>1, <3>1, Zenon DEF IInv, QueueInv, b
    <3>3. Queued(c)'
      BY <3>2, <1>4, Zenon
    <3> QED
      BY <3>1, <3>3, Zenon DEF Queued
  <2>2. ASSUME NEW c \in Bufs, Queued(c)'
        PROVE  /\ \E q \in Procs : pc'[q] = "sleep_b" /\ bp'[q] = c
               /\ ~ buf'[c].valid \/ buf'[c].dirty
    <3>1. Queued(c) /\ c # b
      BY <2>2, <1>4, Zenon
    <3>2. PICK q \in Procs : pc[q] = "sleep_b" /\ bp[q] = c
      BY <3>1, Zenon DEF IInv, QueueInv
    <3>3. pc'[q] = "sleep_b" /\ bp'[q] = c
      BY <3>1, <3>2, Zenon DEF b
    <3>4. buf'[c] = buf[c]
      BY <3>1, Zenon DEF b
    <3> QED
      BY <3>1, <3>3, <3>4, Zenon DEF IInv, QueueInv
  <2> QED
    BY <2>1, <2>2, <1>5, <1>6, Zenon DEF QueueInv
<1> QED
  BY <1>2, <1>4, <1>7, <1>8, Zenon DEF b

\* The disk has finished.
LEMMA IdeintrStep ==
  ASSUME IInv, NEW ok \in BOOLEAN, Ideintr(ok)
  PROVE  IInv'
<1>1. idequeue # <<>>
  BY Zenon DEF Ideintr, IInv, QueueInv, Start
<1>2. PICK b \in Bufs : b = Head(idequeue) /\ Queued(b)
  BY <1>1 DEF IInv, Types, Queued
<1>3. PICK p \in Procs : pc[p] = "sleep_b" /\ bp[p] = b
  BY <1>2, Zenon DEF IInv, QueueInv
<1>4. Types /\ buf[b] \in BufType /\ buf[b].blockno \in Blocks
  BY <1>3, HasBuf, Zenon DEF IInv
<1> DEFINE n == buf[b].blockno
           rd == ~ buf[b].dirty
           d == IF rd /\ ok THEN platter[n] ELSE buf[b].data
           bs == [buf EXCEPT ![b].valid = TRUE, ![b].dirty = FALSE]
           r == [buf[b] EXCEPT !.valid = TRUE, !.dirty = FALSE, !.data = d]
<1>5. /\ cmd.block = n /\ cmd.data = buf[b].data
      /\ cmd.op = "write" <=> buf[b].dirty
  BY <1>1, <1>2, Zenon DEF IInv, QueueInv, Start
<1>6. /\ buf' = [buf EXCEPT ![b] = r]
      /\ platter' = IF rd THEN platter ELSE [platter EXCEPT ![n] = buf[b].data]
      /\ junk' = IF ok THEN junk ELSE junk \cup {b}
      /\ ok \/ rd
      /\ UNCHANGED <<lru, bp, panicked, latest>>
  BY <1>2, <1>4, <1>5, Zenon DEF Ideintr, Types, BufType
<1>7. /\ idequeue' = Tail(idequeue) /\ cmd' = Start(idequeue', bs)
      /\ pc' = Wakeup(b, "sleep_b", "woken")
  BY <1>2, Zenon DEF Ideintr
<1>8. d \in Vals
  BY <1>4, Zenon DEF Types, BufType
<1>9. /\ r \in BufType /\ r.data = d /\ r.dirty = FALSE /\ r.valid = TRUE
      /\ r.blockno = n /\ r.refcnt = buf[b].refcnt /\ r.pid = buf[b].pid
  BY <1>4, <1>8, Zenon DEF BufType
<1>10. /\ buf' \in [Bufs -> BufType]
       /\ buf'[b].data = d /\ ~ buf'[b].dirty /\ buf'[b].valid
       /\ buf'[b].blockno = n /\ buf'[b].refcnt = buf[b].refcnt
       /\ buf'[b].pid = buf[b].pid
       /\ \A c \in Bufs : c # b => buf'[c] = buf[c]
  <2> HIDE DEF r, d, rd, n
  <2> QED
    BY <1>4, <1>6, <1>9, OneBuf, Zenon
<1>11. \A c \in Bufs : c # b => bs[c] = buf[c]
  BY <1>4, Zenon DEF Types
<1>12. \A c \in Bufs : /\ buf'[c].blockno = buf[c].blockno
                       /\ buf'[c].refcnt = buf[c].refcnt
                       /\ buf'[c].pid = buf[c].pid
  <2> HIDE DEF d, rd
  <2> QED
    BY <1>10, Zenon
<1>13. \A q \in Procs : pc'[q] = IF q = p THEN "woken" ELSE pc[q]
  <2>1. \A q \in Procs : pc[q] = "sleep_b" /\ bp[q] = b => q = p
    BY <1>3, OneOwner, Zenon DEF Owner
  <2> QED
    BY <2>1, <1>3, <1>7, Zenon DEF Wakeup
<1> HIDE DEF bs, r
<1>14. /\ QueueInv' /\ idequeue' \in Seq(Bufs)
       /\ \A c : Queued(c)' <=> Queued(c) /\ c # b
  <2>1. \A q \in Procs :
           pc'[q] = "sleep_b" <=> pc[q] = "sleep_b" /\ bp[q] # b
    BY <1>3, <1>13, OneOwner, Zenon DEF Owner
  <2> HIDE DEF d, rd, n
  <2> QED
    BY <2>1, <1>1, <1>2, <1>6, <1>7, <1>10, <1>11, QueueShrinks
<1>15. Types'
  <2>1. pc' \in [Procs -> Labels]
    BY <1>4, <1>7, Zenon DEF Types, Wakeup, Labels
  <2>2. platter' \in [Blocks -> Vals] /\ junk' \subseteq Bufs
    BY <1>4, <1>6, Zenon DEF Types, BufType
  <2> QED
    BY <2>1, <2>2, <1>4, <1>6, <1>10, <1>14, Zenon DEF Types
<1>16. LruInv' /\ RefInv'
  BY <1>6, <1>12, RefKeeps, Zenon DEF IInv, LruInv
<1>17. BlockInv'
  BY <1>3, <1>6, <1>12, <1>13, HasBuf DEF IInv, BlockInv
<1>18. LockInv'
  BY <1>3, <1>6, <1>12, <1>13, HasBuf DEF IInv, LockInv, Owner
<1>19. FlagInv'
  <2>1. \A c \in Bufs : c = b \/ buf'[c] = buf[c]
    BY <1>10, Zenon
  <2>2. b \in Bufs /\ buf'[b].valid /\ ~ buf'[b].dirty /\ buf'[b].blockno # None
    BY <1>4, <1>10, DiskAssumption, Zenon
  <2>3. \A c \in junk' : c = b \/ c \in junk
    BY <1>6, Zenon
  <2>4. junk \subseteq Bufs /\ junk' \subseteq Bufs
    BY <1>4, <1>15, Zenon DEF Types
  <2> HIDE DEF d, rd, n
  <2> QED
    BY <2>1, <2>2, <2>3, <2>4, <1>3, <1>6, <1>13, HasBuf DEF IInv, FlagInv
<1>20. DataInv'
  <2>1. \A c \in Bufs : c # b => buf[c].blockno # n
    BY <1>4, DiskAssumption, Zenon DEF IInv, BlockInv
  <2>2. rd => platter[n] = latest[n]
    BY <2>1, <1>4, Zenon DEF IInv, DataInv
  <2>3. ~ rd => buf[b].data = latest[n]
    BY Zenon DEF IInv, FlagInv, DataInv
  <2>4. platter'[n] = latest[n]
        /\ \A m \in Blocks : m # n => platter'[m] = platter[m]
    BY <2>2, <2>3, <1>4, <1>6, Zenon DEF Types
  <2>5. ASSUME NEW c \in Bufs, buf'[c].valid, c \notin junk'
        PROVE  buf'[c].data = latest'[buf'[c].blockno]
    <3>1. CASE c = b
      <4>1. ok
        BY <2>5, <3>1, <1>6, Zenon
      <4> QED
        BY <3>1, <4>1, <2>2, <2>3, <1>6, <1>10, Zenon
    <3>2. CASE c # b
      <4>1. buf'[c] = buf[c] /\ c \notin junk
        BY <3>2, <2>5, <1>6, <1>10, Zenon
      <4> QED
        BY <4>1, <2>5, <1>6, Zenon DEF IInv, DataInv
    <3> QED
      BY <3>1, <3>2, Zenon
  <2>6. ASSUME NEW m \in Blocks,
               \A c \in Bufs : buf'[c].blockno = m => ~ buf'[c].dirty
        PROVE  platter'[m] = latest'[m]
    <3>1. CASE m = n
      BY <3>1, <2>4, <1>6, Zenon
    <3>2. CASE m # n
      <4>1. \A c \in Bufs : buf[c].blockno = m => ~ buf[c].dirty
        BY <3>2, <2>6, <1>10, Zenon
      <4> QED
        BY <3>2, <4>1, <2>4, <1>6, Zenon DEF IInv, DataInv
    <3> QED
      BY <3>1, <3>2, Zenon
  <2> QED
    BY <2>5, <2>6, Zenon DEF DataInv
<1>21. PinInv'
  <2>1. Pinned' \subseteq Pinned
    BY <1>10, <1>14, Zenon DEF Pinned
  <2> QED
    BY <2>1, PinnedFewer, Zenon DEF IInv
<1> QED
  BY <1>14, <1>15, <1>16, <1>17, <1>18, <1>19, <1>20, <1>21, Zenon DEF IInv

(***************************************************************************)
(* The theorems.                                                           *)
(***************************************************************************)
\* A panic changes nothing else.
LEMMA PanicStep ==
  ASSUME IInv, Panic
  PROVE  IInv'
<1>1. panicked' \in BOOLEAN
      /\ UNCHANGED <<buf, lru, idequeue, cmd, platter, pc, bp, latest, junk>>
  BY Zenon DEF Panic
<1>2. Types' /\ LruInv' /\ BlockInv' /\ LockInv'
  BY <1>1 DEF IInv, Types, LruInv, BlockInv, LockInv, Owner
<1>3. RefInv' /\ FlagInv'
  BY <1>1, RefKeeps, Zenon DEF IInv, FlagInv
<1>4. QueueInv' /\ DataInv' /\ PinInv'
  BY <1>1, Quiet, Zenon
<1> QED
  BY <1>2, <1>3, <1>4, Zenon DEF IInv

\* The state after binit().
LEMMA InitInv == Init => IInv
<1> SUFFICES ASSUME Init PROVE IInv
  BY Zenon
<1>1. PICK v \in Vals :
        /\ platter = [n \in Blocks |-> v]
        /\ buf = [b \in Bufs |->
                    [blockno |-> None, refcnt |-> 0, pid |-> None,
                     valid |-> FALSE, dirty |-> FALSE, data |-> v]]
  BY Zenon DEF Init
<1>2. /\ idequeue = <<>> /\ cmd = None /\ panicked = FALSE
      /\ pc = [p \in Procs |-> "idle"] /\ bp = [p \in Procs |-> None]
      /\ latest = platter /\ junk = {}
      /\ lru \in Injection(1..Cardinality(Bufs), Bufs)
  BY Zenon DEF Init
<1>3. \A b \in Bufs :
        /\ buf[b].blockno = None /\ buf[b].refcnt = 0 /\ buf[b].pid = None
        /\ buf[b].valid = FALSE /\ buf[b].dirty = FALSE
  BY <1>1, Zenon
<1>4. None \notin Bufs \cup Blocks \cup Procs
  BY DiskAssumption, Zenon
<1>5. Types
  <2>1. [blockno |-> None, refcnt |-> 0, pid |-> None, valid |-> FALSE,
         dirty |-> FALSE, data |-> v] \in BufType
    BY Zenon DEF BufType
  <2>2. buf \in [Bufs -> BufType]
    BY <2>1, <1>1, Zenon
  <2>3. platter \in [Blocks -> Vals] /\ latest \in [Blocks -> Vals]
    BY <1>1, <1>2, Zenon
  <2>4. idequeue \in Seq(Bufs)
    BY <1>2
  <2> QED
    BY <2>2, <2>3, <2>4, <1>2, Zenon DEF Types, Labels
<1>6. LruInv
  <2>1. Cardinality(Bufs) \in Nat
    BY DiskAssumption, FS_CardinalityType, Zenon
  <2> QED
    BY <2>1, <1>2 DEF Injection, IsInjective, LruInv
<1>7. RefInv
  <2>1. \A b \in Bufs : Users(b) = {}
    BY <1>2, <1>4, Zenon DEF Users
  <2> QED
    BY <2>1, <1>3, FS_EmptySet, Zenon DEF RefInv
<1>8. BlockInv /\ LockInv /\ FlagInv
  BY <1>2, <1>3, <1>4, Zenon DEF BlockInv, LockInv, FlagInv, Owner
<1>9. QueueInv
  BY <1>2 DEF QueueInv, Queued, Start
<1>10. DataInv
  BY <1>2, <1>3, Zenon DEF DataInv
<1>11. PinInv
  <2>1. Pinned = {}
    BY <1>3, Zenon DEF Pinned
  <2> QED
    BY <2>1, FS_EmptySet, DiskAssumption DEF PinInv
<1> QED
  BY <1>5, <1>6, <1>7, <1>8, <1>9, <1>10, <1>11, Zenon DEF IInv

\* Every step keeps the invariant.
LEMMA NextInv == IInv /\ [Next]_vars => IInv'
<1> SUFFICES ASSUME IInv, [Next]_vars PROVE IInv'
  BY Zenon
<1>1. CASE UNCHANGED vars
  <2>1. UNCHANGED <<buf, lru, idequeue, cmd, platter, pc, bp, latest, junk>>
        /\ panicked' = panicked
    BY <1>1, Zenon DEF vars
  <2>2. Types' /\ LruInv' /\ BlockInv' /\ LockInv'
    BY <2>1 DEF IInv, Types, LruInv, BlockInv, LockInv, Owner
  <2>3. RefInv' /\ FlagInv'
    BY <2>1, RefKeeps, Zenon DEF IInv, FlagInv
  <2>4. QueueInv' /\ DataInv' /\ PinInv'
    BY <2>1, Quiet, Zenon
  <2> QED
    BY <2>2, <2>3, <2>4, Zenon DEF IInv
<1>2. ASSUME NEW p \in Procs, Bget(p) PROVE IInv'
  <2>1. ASSUME NEW n \in Blocks, BgetRecycle(p, n) PROVE IInv'
    <3>1. CASE Unused = {}
      BY <2>1, <3>1, PanicStep, Zenon DEF BgetRecycle
    <3> QED
      BY <2>1, <3>1, BgetRecycleStep, Zenon
  <2> QED
    BY <1>2, <2>1, BgetHitStep, Zenon DEF Bget
<1>3. ASSUME NEW p \in Procs, Step(p) PROVE IInv'
  BY <1>3, SleepLkStep, AcquireSleepStep, BreadHitStep, BreadMissStep,
     IderwWokenStep, ReleaseSleepStep, BrelseStep, Zenon
  DEF Step
<1>4. ASSUME NEW p \in Procs, Write(p) PROVE IInv'
  BY <1>4, BwriteStep, LogWriteStep, Zenon DEF Write
<1>5. ASSUME NEW ok \in BOOLEAN, Ideintr(ok) PROVE IInv'
  BY <1>5, IdeintrStep, Zenon
<1> QED
  BY <1>1, <1>2, <1>3, <1>4, <1>5, Zenon DEF Next, Halted

\* bget(), bread(), bwrite(), log_write(), brelse(), iderw() and ideintr()
\* preserve the invariant in any interleaving, for any number of processes,
\* buffers and blocks.
THEOREM InvAlways == Spec => []IInv
BY InitInv, NextInv, PTL DEF Spec

\* The cache is coherent: whoever has a block locked sees what was last written
\* to it.
THEOREM CoherentAlways == Spec => []Coherent
<1>1. IInv => Coherent
  <2> SUFFICES ASSUME IInv PROVE Coherent
    BY Zenon
  <2>1. Len(lru) = Cardinality(Bufs) /\ Range(lru) = Bufs
    BY LruAll DEF IInv, LruInv, Range
  <2>2. \A p \in Procs : pc[p] = "have" /\ bp[p] \notin junk =>
          buf[bp[p]].data = latest[buf[bp[p]].blockno]
    BY HasBuf, Zenon DEF IInv, FlagInv, DataInv
  <2>3. \A p, q \in Procs : Owner(p) /\ Owner(q) /\ bp[p] = bp[q] => p = q
    BY OneOwner, Zenon
  <2> QED
    BY <2>1, <2>2, <2>3, Zenon DEF Coherent, IInv, BlockInv
<1> QED
  BY <1>1, InvAlways, PTL

\* A process asleep for a buffer's lock or in iderw() has somebody to wake it.
THEOREM SleepersAlways == Spec => []SleepersHaveWakers
<1>1. IInv => SleepersHaveWakers
  <2> SUFFICES ASSUME IInv PROVE SleepersHaveWakers
    BY Zenon
  <2>1. ASSUME idequeue # <<>>
        PROVE  cmd # None /\ cmd.block = buf[Head(idequeue)].blockno
    <3>1. PICK b \in Bufs : b = Head(idequeue) /\ Queued(b)
      BY <2>1 DEF IInv, Types, Queued
    <3>2. PICK p \in Procs : pc[p] = "sleep_b" /\ bp[p] = b
      BY <3>1, Zenon DEF IInv, QueueInv
    <3>3. buf[b].blockno \in Blocks /\ buf[b].data \in Vals
      BY <3>2, HasBuf, Fields, Zenon
    <3>4. cmd = [op    |-> IF buf[b].dirty THEN "write" ELSE "read",
                 block |-> buf[b].blockno, data |-> buf[b].data]
      BY <2>1, <3>1, Zenon DEF IInv, QueueInv, Start
    <3>5. cmd \in [op: {"read", "write"}, block: Blocks, data: Vals]
      BY <3>3, <3>4, Zenon
    <3> QED
      BY <3>1, <3>4, <3>5, DiskAssumption, Zenon
  <2> QED
    BY <2>1, Zenon DEF SleepersHaveWakers, IInv, LockInv, QueueInv, Queued
<1> QED
  BY <1>1, InvAlways, PTL

\* bget() finds no buffer only when all are in use or pinned.
LEMMA AllTaken ==
  ASSUME IInv, Unused = {}
  PROVE  Cardinality(InUse) + Cardinality(Pinned) >= Cardinality(Bufs)
<1> DEFINE T == {bp[q] : q \in InUse}
<1>1. /\ IsFiniteSet(InUse) /\ Cardinality(InUse) \in Nat
      /\ Cardinality(Bufs) \in Nat
  <2>1. InUse \in SUBSET Procs
    BY Zenon DEF InUse
  <2> QED
    BY <2>1, DiskAssumption, FS_Subset, FS_CardinalityType, Zenon
<1>2. IsFiniteSet(T) /\ Cardinality(T) <= Cardinality(InUse)
  <2>1. [q \in InUse |-> bp[q]] \in Surjection(InUse, T)
    BY Zenon DEF Surjection
  <2> QED
    BY <2>1, <1>1, FS_Surjection, Zenon
<1>3. IsFiniteSet(Pinned)
  <2>1. Pinned \in SUBSET Bufs
    BY Zenon DEF Pinned
  <2> QED
    BY <2>1, DiskAssumption, FS_Subset, Zenon
<1>4. /\ IsFiniteSet(T \cup Pinned)
      /\ Cardinality(T \cup Pinned) <= Cardinality(T) + Cardinality(Pinned)
  <2>1. IsFiniteSet(T \cap Pinned) /\ Cardinality(T \cap Pinned) \in Nat
    BY <1>2, FS_Intersection, FS_CardinalityType, Zenon
  <2>2. Cardinality(T) \in Nat /\ Cardinality(Pinned) \in Nat
    BY <1>2, <1>3, FS_CardinalityType, Zenon
  <2>3. /\ IsFiniteSet(T \cup Pinned)
        /\ Cardinality(T \cup Pinned) =
             Cardinality(T) + Cardinality(Pinned) - Cardinality(T \cap Pinned)
    BY <1>2, <1>3, FS_Union, Zenon
  <2> QED
    BY <2>1, <2>2, <2>3
<1>5. Bufs \in SUBSET (T \cup Pinned)
  <2> SUFFICES ASSUME NEW b \in Bufs PROVE b \in T \cup Pinned
    BY Zenon
  <2>1. None \notin Bufs
    BY DiskAssumption, Zenon
  <2>2. CASE buf[b].refcnt = 0
    <3>1. buf[b].dirty
      BY <2>2, Zenon DEF Unused
    <3>2. \A q \in Procs : bp[q] # b
      BY <2>2, UsersFinite, Zenon DEF IInv, RefInv, Users
    <3>3. ~ Queued(b)
      BY <3>2, Zenon DEF IInv, QueueInv
    <3> QED
      BY <3>1, <3>3, Zenon DEF Pinned
  <2>3. CASE buf[b].refcnt # 0
    <3>1. Users(b) # {}
      BY <2>3, UsersFinite, Zenon DEF IInv, RefInv
    <3>2. PICK q \in Procs : bp[q] = b
      BY <3>1, Zenon DEF Users
    <3>3. q \in InUse
      BY <3>2, <2>1, Zenon DEF InUse, IInv, BlockInv
    <3> QED
      BY <3>2, <3>3, Zenon
  <2> QED
    BY <2>2, <2>3, Zenon
<1>6. Cardinality(Bufs) <= Cardinality(T \cup Pinned)
  BY <1>4, <1>5, FS_Subset, Zenon
<1>7. /\ Cardinality(T) \in Nat /\ Cardinality(Pinned) \in Nat
      /\ Cardinality(T \cup Pinned) \in Nat
  BY <1>2, <1>3, <1>4, FS_CardinalityType, Zenon
<1> HIDE DEF T
<1> QED
  BY <1>1, <1>2, <1>4, <1>6, <1>7

\* A step that does not panic.
LEMMA Calm == ASSUME panicked' = panicked, ~ panicked PROVE PanicMeansFull'
BY Zenon DEF PanicMeansFull

\* bget() panics only when the uses in progress and the pinned blocks take up
\* the whole cache; iderw() and releasesleep() never do, since their callers
\* hold the lock.
THEOREM FullAlways == Spec => []PanicMeansFull
<1>1. Init => PanicMeansFull
  BY Zenon DEF Init, PanicMeansFull
<1>2. IInv /\ PanicMeansFull /\ [Next]_vars => PanicMeansFull'
  <2> SUFFICES ASSUME IInv, PanicMeansFull, [Next]_vars PROVE PanicMeansFull'
    BY Zenon
  <2>1. CASE UNCHANGED vars
    BY <2>1, Zenon DEF vars, PanicMeansFull, InUse, Pinned, Queued
  <2>2. ASSUME NEW p \in Procs, Bget(p) PROVE PanicMeansFull'
    <3>1. CASE Unused = {} /\ Panic
      <4>1. Cardinality(InUse) + Cardinality(Pinned) >= Cardinality(Bufs)
        BY <3>1, AllTaken, Zenon
      <4>2. InUse' = InUse /\ Pinned' = Pinned
        BY <3>1, Zenon DEF Panic, InUse, Pinned, Queued
      <4> QED
        BY <4>1, <4>2, Zenon DEF PanicMeansFull
    <3>2. CASE ~ (Unused = {} /\ Panic)
      <4>1. panicked' = panicked /\ ~ panicked
        BY <2>2, <3>2, Zenon DEF Bget, BgetHit, BgetRecycle, At
      <4> QED
        BY <4>1, Calm, Zenon
    <3> QED
      BY <3>1, <3>2, Zenon
  <2>3. ASSUME NEW p \in Procs, Owner(p) PROVE Holding(p)
    BY <2>3, OwnerHolds, Zenon
  <2>4. ASSUME NEW p \in Procs, Step(p) PROVE PanicMeansFull'
    <3>1. CASE BreadMiss(p)
      <4>1. ~ Refused(p, buf[bp[p]])
        BY <2>3, <3>1, Zenon DEF BreadMiss, At, Owner, Refused
      <4>2. panicked' = panicked /\ ~ panicked
        BY <3>1, <4>1, Zenon DEF BreadMiss, IderwWith, At
      <4> QED
        BY <4>2, Calm, Zenon
    <3>2. CASE ReleaseSleep(p)
      <4>1. panicked' = panicked /\ ~ panicked
        BY <2>3, <3>2, Zenon DEF ReleaseSleep, Owner
      <4> QED
        BY <4>1, Calm, Zenon
    <3>3. CASE AcquireSleep(p) \/ BreadHit(p) \/ IderwWoken(p) \/ Brelse(p)
      <4>1. panicked' = panicked /\ ~ panicked
        BY <3>3, Zenon DEF AcquireSleep, BreadHit, IderwWoken, Brelse, At
      <4> QED
        BY <4>1, Calm, Zenon
    <3> QED
      BY <2>4, <3>1, <3>2, <3>3, Zenon DEF Step
  <2>5. ASSUME NEW p \in Procs, Write(p) PROVE PanicMeansFull'
    <3>1. PICK v \in Vals : Bwrite(p, v) \/ LogWrite(p, v)
      BY <2>5, Zenon DEF Write
    <3>2. CASE Bwrite(p, v)
      <4> DEFINE r == [buf[bp[p]] EXCEPT !.data = v, !.dirty = TRUE]
      <4>1. pc[p] = "have" /\ Holding(p) /\ buf[bp[p]] \in BufType
        BY <2>3, <3>2, HasBuf, Zenon DEF Bwrite, At, Owner
      <4>2. ~ Refused(p, r)
        BY <4>1, Zenon DEF Refused, BufType
      <4>3. panicked' = panicked /\ ~ panicked
        BY <3>2, <4>2, Zenon DEF Bwrite, IderwWith, At
      <4> QED
        BY <4>3, Calm, Zenon
    <3>3. CASE LogWrite(p, v)
      <4>1. panicked' = panicked /\ ~ panicked
        BY <3>3, Zenon DEF LogWrite, At
      <4> QED
        BY <4>1, Calm, Zenon
    <3> QED
      BY <3>1, <3>2, <3>3, Zenon
  <2>6. ASSUME NEW ok \in BOOLEAN, Ideintr(ok) PROVE PanicMeansFull'
    <3>1. panicked' = panicked /\ ~ panicked
      BY <2>6, Zenon DEF Ideintr
    <3> QED
      BY <3>1, Calm, Zenon
  <2> QED
    BY <2>1, <2>2, <2>4, <2>5, <2>6, Zenon DEF Next, Halted
<1> QED
  BY <1>1, <1>2, InvAlways, PTL DEF Spec
=============================================================================
