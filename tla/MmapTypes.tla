----------------------------- MODULE MmapTypes -----------------------------
(***************************************************************************)
(* Type correctness of Mmap for every number of processes, pages and calls. *)
(* First facts about the operators of Vma and about the pieces the actions *)
(* of Mmap are made of: what the searches return, that every list operation *)
(* yields a list of areas, and what a handler may do to its local          *)
(* variables; then one lemma per action, and the theorem.                  *)
(***************************************************************************)
EXTENDS Mmap, TLAPS

(***************************************************************************)
(* Arithmetic of the scaled-down machine words.                            *)
(***************************************************************************)
\* A uint is an integer, whatever is stored in it.
LEMMA UintType == \A x \in Int : uint(x) \in Int
BY LayoutAssumption DEF uint, WORD

\* So is an int.
LEMMA IntType == \A x \in Int : int(x) \in Int
BY UintType, LayoutAssumption DEF int, WORD

\* Rounding up to a page gives an integer.
LEMMA RoundType == \A x \in Int : PGROUNDUP(x) \in Int
<1> SUFFICES ASSUME NEW x \in Int PROVE PGROUNDUP(x) \in Int
  BY Zenon
<1>1. uint(x + PGSIZE - 1) \in Int
  BY UintType, LayoutAssumption
<1> QED
  BY <1>1, LayoutAssumption DEF PGROUNDUP

(***************************************************************************)
(* The searches stop at a node of the list.                                *)
(***************************************************************************)
\* A walk of the list stops at a node of the list, or runs to its end.
LEMMA StopRange ==
  ASSUME NEW l, Len(l) \in Nat, NEW S \in SUBSET Visited(l)
  PROVE  FirstOf(S) \in 0..Len(l)
<1> DEFINE first == {k \in S : \A j \in S : k <= j}
<1>1. first # {} => (CHOOSE k \in first : TRUE) \in first
  BY Zenon
<1>2. FirstOf(S) = IF first = {} THEN 0 ELSE CHOOSE k \in first : TRUE
  BY Zenon DEF FirstOf
<1>3. first \subseteq S
  BY Zenon
<1> HIDE DEF first
<1>4. FirstOf(S) = 0 \/ FirstOf(S) \in S
  BY <1>1, <1>2, <1>3, Zenon
<1>5. Visited(l) \subseteq 1..Len(l)
  BY Zenon DEF Visited
<1> QED
  BY <1>4, <1>5

\* The position sys_mmap links behind is 0 or one of the list.
LEMMA SlotRange ==
  ASSUME NEW l, Len(l) \in Nat, NEW addr, NEW length, NEW flags
  PROVE  Slot(l, addr, length, flags) \in 0..Len(l)
<1>1. FixedSlot(l, addr, length) \in 0..Len(l)
  <2> DEFINE stop == {i \in Visited(l) :
                 \/ Covers(l[i], addr)
                 \/ addr < NextStart(l, i) /\ l[i].space_after > length}
  <2>1. FirstOf(stop) \in 0..Len(l)
    BY StopRange, Zenon
  <2> QED
    BY <2>1 DEF FixedSlot
<1>2. AnySlot(l, length) \in 0..Len(l)
  BY StopRange, Zenon DEF AnySlot
<1> QED
  BY <1>1, <1>2, Zenon DEF Slot

\* The page-fault handler stops at a node of the list, or runs to its end.
LEMMA FaultSlotRange ==
  ASSUME NEW l, Len(l) \in Nat, NEW a
  PROVE  FaultSlot(l, a) \in 0..Len(l)
BY StopRange, Zenon DEF FaultSlot

(***************************************************************************)
(* What is done to a list keeps it a list of areas.                        *)
(***************************************************************************)
\* The nodes of a list are areas.
LEMMA NodeType ==
  ASSUME NEW l \in Seq(VmaType), NEW k \in 1..Len(l)
  PROVE  l[k] \in VmaType
OBVIOUS

\* The start of the node behind a node of the list is a number.
LEMMA NextStartType ==
  ASSUME NEW l \in Seq(VmaType), NEW k \in 1..Len(l)
  PROVE  NextStart(l, k) \in Int
<1>1. k < Len(l) => l[k + 1] \in VmaType
  BY NodeType
<1> QED
  BY <1>1, LayoutAssumption DEF NextStart, VmaType

\* Storing an area in place of another.
LEMMA ExceptType ==
  ASSUME NEW l \in Seq(VmaType), NEW k \in 1..Len(l), NEW vma \in VmaType
  PROVE  /\ [l EXCEPT ![k] = vma] \in Seq(VmaType)
         /\ Len([l EXCEPT ![k] = vma]) = Len(l)
OBVIOUS

\* create_vma builds an area.
LEMMA CreateType ==
  ASSUME NEW l \in Seq(VmaType), NEW k \in 1..Len(l), NEW start \in Int,
         NEW length \in Int, NEW prot \in Prots, NEW flags \in FlagSets
  PROVE  create_vma(l, k, start, length, prot, flags) \in VmaType
<1> DEFINE end == uint(PGROUNDUP(start + length) - 1)
<1>1. PGROUNDUP(start + length) \in Int
  BY RoundType
<1>2. end \in Int
  BY <1>1, UintType
<1>3. int(NextStart(l, k) - end) \in Int
  BY <1>2, NextStartType, IntType
<1> HIDE DEF end
<1>4. [valid |-> TRUE, start |-> start, end |-> end, pa |-> NoPage,
       guardstart |-> JUNK, prot |-> prot, flags |-> flags,
       space_after |-> int(NextStart(l, k) - end)] \in VmaType
  BY <1>2, <1>3 DEF VmaType, JUNK
<1> QED
  BY <1>4, Zenon DEF create_vma, end

\* Linking a node makes the list one longer, or replaces its first nodes.
LEMMA LinkedType ==
  ASSUME NEW l \in Seq(VmaType), NEW k \in 1..Len(l), NEW vma \in VmaType,
         NEW length \in Int
  PROVE  /\ Linked(l, k, vma, length) \in Seq(VmaType)
         /\ Len(Linked(l, k, vma, length)) =
              IF ReplacesHead(vma, vma.flags) THEN Len(l) - k + 1
              ELSE Len(l) + 1
<1> DEFINE rest == SubSeq(l, k + 1, Len(l))
           first == SubSeq(l, 1, k)
           upd == [first[k] EXCEPT !.space_after = int(@ - length)]
<1>1. rest \in Seq(VmaType) /\ Len(rest) = Len(l) - k
  OBVIOUS
<1>2. first \in Seq(VmaType) /\ Len(first) = k
  OBVIOUS
<1>3. <<vma>> \in Seq(VmaType) /\ Len(<<vma>>) = 1
  OBVIOUS
<1> HIDE DEF rest, first
<1>4. CASE ReplacesHead(vma, vma.flags)
  <2>1. <<vma>> \o rest \in Seq(VmaType) /\ Len(<<vma>> \o rest) = 1 + Len(rest)
    BY <1>1, <1>3
  <2> QED
    BY <1>4, <1>1, <2>1 DEF Linked, rest
<1>5. CASE ~ ReplacesHead(vma, vma.flags)
  <2>1. first[k] \in VmaType
    BY <1>2, NodeType
  <2>2. upd \in VmaType
    <3>1. int(first[k].space_after - length) \in Int
      <4>1. first[k].space_after - length \in Int
        BY SMTT(20), <2>1 DEF VmaType
      <4> QED
        BY SMTT(20), <4>1, IntType
    <3> QED
      BY Zenon, <2>1, <3>1 DEF VmaType
  <2> HIDE DEF upd
  <2>3. /\ [first EXCEPT ![k] = upd] \in Seq(VmaType)
        /\ Len([first EXCEPT ![k] = upd]) = k
    BY <1>2, <2>2, ExceptType
  <2> DEFINE changed == [first EXCEPT ![k] = upd]
  <2>4. [first EXCEPT ![k].space_after = int(@ - length)] = changed
    BY Zenon DEF upd
  <2> HIDE DEF changed
  <2>5. changed \in Seq(VmaType) /\ Len(changed) = k
    BY <2>3, Zenon DEF changed
  <2> DEFINE upto == changed \o <<vma>>
             all == upto \o rest
  <2>6. upto \in Seq(VmaType) /\ Len(upto) = k + 1
    BY <2>5, <1>3
  <2> HIDE DEF upto
  <2>7. all \in Seq(VmaType) /\ Len(all) = Len(upto) + Len(rest)
    BY <2>6, <1>1
  <2>8. Linked(l, k, vma, length) = all
    BY Zenon, <1>5, <2>4 DEF Linked, rest, first, upto
  <2> HIDE DEF all
  <2>9. Len(all) = Len(l) + 1
    BY <1>1, <2>6, <2>7
  <2> QED
    BY <1>5, <2>7, <2>8, <2>9, Zenon
<1> QED
  BY <1>4, <1>5, Zenon

\* Storing a guard page in a node.
LEMMA GuardFieldType ==
  ASSUME NEW l \in Seq(VmaType), NEW k \in 1..Len(l), NEW x \in Int
  PROVE  /\ [l EXCEPT ![k].guardstart = x] \in Seq(VmaType)
         /\ Len([l EXCEPT ![k].guardstart = x]) = Len(l)
<1> DEFINE vma == [l[k] EXCEPT !.guardstart = x]
<1>1. l[k] \in VmaType
  BY NodeType, Zenon
<1>2. vma \in VmaType
  BY Zenon, <1>1 DEF VmaType
<1>3. [l EXCEPT ![k].guardstart = x] = [l EXCEPT ![k] = vma]
  BY Zenon
<1> HIDE DEF vma
<1> QED
  BY <1>2, <1>3, ExceptType, Zenon

\* Storing the end of a node.
LEMMA EndFieldType ==
  ASSUME NEW l \in Seq(VmaType), NEW k \in 1..Len(l), NEW x \in Int
  PROVE  /\ [l EXCEPT ![k].end = x] \in Seq(VmaType)
         /\ Len([l EXCEPT ![k].end = x]) = Len(l)
<1> DEFINE vma == [l[k] EXCEPT !.end = x]
<1>1. l[k] \in VmaType
  BY NodeType, Zenon
<1>2. vma \in VmaType
  BY Zenon, <1>1 DEF VmaType
<1>3. [l EXCEPT ![k].end = x] = [l EXCEPT ![k] = vma]
  BY Zenon
<1> HIDE DEF vma
<1> QED
  BY <1>2, <1>3, ExceptType, Zenon

\* Storing the first frame of a node.
LEMMA PaFieldType ==
  ASSUME NEW l \in Seq(VmaType), NEW k \in 1..Len(l), NEW x \in Pages
  PROVE  /\ [l EXCEPT ![k].pa = x] \in Seq(VmaType)
         /\ Len([l EXCEPT ![k].pa = x]) = Len(l)
<1> DEFINE vma == [l[k] EXCEPT !.pa = x]
<1>1. l[k] \in VmaType
  BY NodeType, Zenon
<1>2. vma \in VmaType
  BY Zenon, <1>1 DEF VmaType
<1>3. [l EXCEPT ![k].pa = x] = [l EXCEPT ![k] = vma]
  BY Zenon
<1> HIDE DEF vma
<1> QED
  BY <1>2, <1>3, ExceptType, Zenon

\* Dropping the guard of a neighbour.
LEMMA DropPrevGuardType ==
  ASSUME NEW l \in Seq(VmaType), NEW k \in 1..Len(l)
  PROVE  /\ DropPrevGuard(l, k) \in Seq(VmaType)
         /\ Len(DropPrevGuard(l, k)) = Len(l)
<1> DEFINE prev == IF k = 1 THEN 1 ELSE k - 1
<1>1. prev \in 1..Len(l)
  OBVIOUS
<1>2. NOGUARD \in Int
  BY LayoutAssumption DEF NOGUARD, WORD
<1> HIDE DEF prev
<1>3. /\ [l EXCEPT ![prev].guardstart = NOGUARD] \in Seq(VmaType)
      /\ Len([l EXCEPT ![prev].guardstart = NOGUARD]) = Len(l)
  BY <1>1, <1>2, GuardFieldType, Zenon
<1> QED
  BY <1>3, Zenon DEF DropPrevGuard, prev

\* Setting the guard of the new node.
LEMMA SetGuardType ==
  ASSUME NEW l \in Seq(VmaType), NEW k \in 1..Len(l)
  PROVE  /\ SetGuard(l, k) \in Seq(VmaType)
         /\ Len(SetGuard(l, k)) = Len(l)
<1>1. l[k] \in VmaType
  BY NodeType, Zenon
<1>2. l[k].end + 1 \in Int
  BY <1>1 DEF VmaType
<1>3. /\ [l EXCEPT ![k].guardstart = l[k].end + 1] \in Seq(VmaType)
      /\ Len([l EXCEPT ![k].guardstart = l[k].end + 1]) = Len(l)
  BY <1>2, GuardFieldType, Zenon
<1> QED
  BY <1>3, Zenon DEF SetGuard

\* The page-fault handler growing an area.
LEMMA GrownType ==
  ASSUME NEW l \in Seq(VmaType), NEW k \in 1..Len(l)
  PROVE  Grown(l, k) \in Seq(VmaType) /\ Len(Grown(l, k)) = Len(l)
<1> DEFINE end == l[k].end + PGSIZE
           g == IF uint(NextStart(l, k) - (end + 1)) < 2 * PGSIZE
                THEN NOGUARD ELSE end + 1
           longer == [l EXCEPT ![k].end = end]
<1>1. l[k] \in VmaType
  BY NodeType, Zenon
<1>2. end \in Int
  BY <1>1, LayoutAssumption DEF VmaType
<1>3. g \in Int
  BY <1>2, LayoutAssumption DEF NOGUARD, WORD
<1>4. Grown(l, k) = [longer EXCEPT ![k].guardstart = g]
  BY Zenon DEF Grown
<1> HIDE DEF end, g
<1>5. longer \in Seq(VmaType) /\ Len(longer) = Len(l)
  BY <1>2, EndFieldType, Zenon
<1> HIDE DEF longer
<1> QED
  BY <1>3, <1>4, <1>5, GuardFieldType

\* exec() leaves a list of one node, the head.
LEMMA EmptyListType ==
  ASSUME NEW l \in Seq(VmaType)
  PROVE  EmptyList(l) \in Seq(VmaType)
<1> DEFINE head == IF l = <<>> THEN ZeroHead ELSE l[1]
           reset == [head EXCEPT !.valid = FALSE, !.start = MIN_ADDR,
                                 !.end = MIN_ADDR - 1,
                                 !.space_after = MAX_ADDR - MIN_ADDR]
<1>1. ZeroHead \in VmaType
  BY DEF ZeroHead, VmaType
<1>2. l # <<>> => l[1] \in VmaType
  <2>1. l # <<>> => Len(l) # 0
    OBVIOUS
  <2> QED
    BY <2>1, NodeType
<1>3. head \in VmaType
  BY <1>1, <1>2, Zenon
<1> HIDE DEF head
<1>4. reset \in VmaType
  <2>1. \A v \in VmaType, a, b, c \in Int :
          [v EXCEPT !.valid = FALSE, !.start = a, !.end = b,
                    !.space_after = c] \in VmaType
    BY Zenon DEF VmaType
  <2>2. MIN_ADDR \in Int /\ MIN_ADDR - 1 \in Int /\ MAX_ADDR - MIN_ADDR \in Int
    BY LayoutAssumption
  <2> QED
    BY <1>3, <2>1, <2>2, Zenon
<1>5. EmptyList(l) = <<reset>>
  BY Zenon DEF EmptyList, head
<1> HIDE DEF reset
<1> QED
  BY <1>4, <1>5

\* A list that exec() has set up has a node.
LEMMA NoNodes ==
  /\ << >> \in Seq(VmaType)
  /\ \A l \in Seq(VmaType) : l # << >> => Len(l) \in Nat \ {0}
OBVIOUS

(***************************************************************************)
(* Types and local variables of the handlers.                              *)
(***************************************************************************)
Inv == TypeOK /\ Control

\* A page kalloc() returns was on the free list.
LEMMA OfferedFree ==
  ASSUME NEW S \in SUBSET Pages, NEW pg \in Offered(S)
  PROVE  pg \in S /\ pg \in Pages /\ pg # None /\ pg # NoPage
BY MmapAssumption

\* A step of p touches no local variable and no list of another process.
LEMMA ControlLocal ==
  ASSUME TypeOK, Control, NEW p \in Procs, HandlerOK(p)',
         \A q \in Procs \ {p} : /\ pc'[q] = pc[q] /\ loc'[q] = loc[q]
                               /\ list'[q] = list[q]
  PROVE  Control'
<1> SUFFICES ASSUME NEW q \in Procs, q # p PROVE HandlerOK(q)'
  BY Zenon DEF Control
<1>1. HandlerOK(q)
  BY Zenon DEF Control
<1> QED
  BY <1>1, Zenon DEF HandlerOK, MapNode, New

\* NoLoc, the locals of a process outside the handlers.
LEMMA NoLocType == NoLoc \in LocType /\ NoLoc.page = None
BY DEF NoLoc, LocType

\* The way back to user space keeps the types, and leaves no local variable
\* behind, whether the process goes on or exits.
LEMMA ReturnType ==
  ASSUME TypeOK, NEW p \in Procs, Return(p)
  PROVE  /\ halt' = halt
         /\ st' \in [Procs -> {"UNUSED", "EMBRYO", "RUN", "ZOMBIE"}]
         /\ parent' \in [Procs -> Procs \cup {InitProc}]
         /\ pc' = [pc EXCEPT ![p] = "user"]
         /\ loc' = [loc EXCEPT ![p] = NoLoc]
         /\ pc' \in [Procs -> {"user", "mmap", "mappages", "munmap", "fork",
                               "fault"}]
         /\ loc' \in [Procs -> LocType]
         /\ HandlerOK(p)'
<1>1. /\ halt' = halt
      /\ pc' = [pc EXCEPT ![p] = "user"]
      /\ loc' = [loc EXCEPT ![p] = NoLoc]
  BY Zenon DEF Return, exit, Goto
<1>2. st' \in [Procs -> {"UNUSED", "EMBRYO", "RUN", "ZOMBIE"}]
  BY Zenon DEF Return, exit, TypeOK
<1>3. parent' \in [Procs -> Procs \cup {InitProc}]
  BY DEF Return, exit, TypeOK
<1>4. /\ pc' \in [Procs -> {"user", "mmap", "mappages", "munmap", "fork",
                            "fault"}]
      /\ pc'[p] = "user"
  BY <1>1, Zenon DEF TypeOK
<1>5. loc' \in [Procs -> LocType] /\ loc'[p] = NoLoc
  BY <1>1, NoLocType, Zenon DEF TypeOK
<1>6. HandlerOK(p)'
  BY <1>4, <1>5, NoLocType, Zenon DEF HandlerOK
<1> QED
  BY <1>1, <1>2, <1>3, <1>4, <1>5, <1>6, Zenon

\* A kernel that stops changes nothing.
LEMMA StopType ==
  ASSUME Inv, NEW why \in Halts, Stop(why)
  PROVE  Inv'
<1>1. TypeOK'
  BY Zenon DEF Inv, Stop, TypeOK
<1>2. Control'
  BY DEF Inv, Stop, Control, HandlerOK, MapNode, New
<1> QED
  BY <1>1, <1>2, Zenon DEF Inv

(***************************************************************************)
(* The actions.                                                            *)
(***************************************************************************)
\* Looking for a place and linking the new node.
LEMMA SysMmapType ==
  ASSUME Inv, NEW p \in Procs, NEW addr \in Addrs, NEW len \in Lens,
         NEW prot \in Prots, NEW flags \in FlagSets,
         SysMmap(p, addr, len, prot, flags)
  PROVE  Inv'
<1> DEFINE k     == Slot(list[p], addr, len, flags)
           start == IF "FIXED" \in flags THEN addr
                    ELSE uint(list[p][k].end + 1)
           vma   == create_vma(list[p], k, start, len, prot, flags)
           nl    == Linked(list[p], k, vma, len)
           frame == [op |-> "mmap", q |-> p, k |-> k, va |-> start,
                     end |-> vma.end, page |-> None,
                     repl |-> ReplacesHead(vma, flags)]
<1>1. CASE Stop("wild")
  BY <1>1, StopType, Zenon DEF Halts
<1>2. CASE /\ k # 0
           /\ \E pg \in Offered(free) :
                /\ free' = free \ {pg}
                /\ nodes' = nodes \cup {pg}
           /\ list' = [list EXCEPT ![p] = nl]
           /\ loc' = [loc EXCEPT ![p] = frame]
           /\ Goto(p, "mmap")
           /\ UNCHANGED <<halt, st, parent, killed, pte, tab, own, images>>
  <2>1. list[p] \in Seq(VmaType) /\ Len(list[p]) \in Nat
    BY DEF Inv, TypeOK
  <2>2. k \in 1..Len(list[p])
    <3>1. k \in 0..Len(list[p])
      BY Zenon, <2>1, SlotRange
    <3>2. k # 0
      BY Zenon, <1>2
    <3> HIDE DEF k
    <3> QED
      BY <2>1, <3>1, <3>2
  <2>3. addr \in Int /\ len \in Int
    BY MmapAssumption
  <2> HIDE DEF k
  <2>4. start \in Int
    <3>1. list[p][k] \in VmaType
      BY <2>1, <2>2, NodeType, Zenon
    <3>2. list[p][k].end + 1 \in Int
      BY <3>1 DEF VmaType
    <3> QED
      BY <2>3, <3>2, UintType, Zenon
  <2> HIDE DEF start
  <2>5. vma \in VmaType
    BY <2>1, <2>2, <2>3, <2>4, CreateType, Zenon
  <2>6. vma.flags = flags
    BY Zenon DEF create_vma
  <2> HIDE DEF vma
  <2>7. /\ nl \in Seq(VmaType)
        /\ Len(nl) = IF ReplacesHead(vma, flags) THEN Len(list[p]) - k + 1
                     ELSE Len(list[p]) + 1
    BY ZenonT(40), <2>1, <2>2, <2>3, <2>5, <2>6, LinkedType
  <2> HIDE DEF nl
  <2>8. frame \in LocType
    <3>1. vma.end \in Int
      BY <2>5, Zenon DEF VmaType
    <3>2. ReplacesHead(vma, flags) \in BOOLEAN
      BY Zenon DEF ReplacesHead
    <3> QED
      BY <2>2, <2>4, <3>1, <3>2 DEF LocType
  <2>9. TypeOK'
    <3>1. free' \subseteq Pages /\ nodes' \subseteq Pages
      <4>1. PICK pg \in Offered(free) : /\ free' = free \ {pg}
                                      /\ nodes' = nodes \cup {pg}
        BY <1>2, Zenon
      <4>2. free \in SUBSET Pages /\ nodes \in SUBSET Pages
        BY Zenon DEF Inv, TypeOK
      <4>3. pg \in Pages
        BY <4>2, OfferedFree, Zenon
      <4> QED
        BY <4>1, <4>2, <4>3, Zenon
    <3>2. list' \in [Procs -> Seq(VmaType)] /\ list'[p] = nl
      BY <1>2, <2>7, Zenon DEF Inv, TypeOK
    <3> HIDE DEF frame
    <3>3. loc' \in [Procs -> LocType] /\ loc'[p] = frame
      BY <1>2, <2>8, Zenon DEF Inv, TypeOK
    <3>4. pc' \in [Procs -> {"user", "mmap", "mappages", "munmap", "fork",
                             "fault"}]
      BY <1>2, Zenon DEF Inv, TypeOK, Goto
    <3> QED
      BY <1>2, <3>1, <3>2, <3>3, <3>4, Zenon DEF Inv, TypeOK
  <2>10. HandlerOK(p)'
    <3>1. list'[p] = nl /\ loc'[p] = frame /\ pc'[p] = "mmap"
      BY <1>2, Zenon DEF Inv, TypeOK, Goto
    <3>2. /\ loc'[p].op = "mmap" /\ loc'[p].q = p /\ loc'[p].k = k
          /\ loc'[p].page = None
          /\ loc'[p].repl <=> ReplacesHead(vma, flags)
      <4>1. /\ frame.op = "mmap" /\ frame.q = p /\ frame.k = k
            /\ frame.page = None
            /\ frame.repl <=> ReplacesHead(vma, flags)
        BY Zenon
      <4> HIDE DEF frame
      <4> QED
        BY Zenon, <3>1, <4>1
    <3>3. New(p)' \in 1..Len(list'[p])
      BY <3>1, <3>2, <2>1, <2>2, <2>7 DEF New
    <3> HIDE DEF frame
    <3> QED
      BY <3>1, <3>2, <3>3, <2>2 DEF HandlerOK, MapNode
  <2> QED
    BY <1>2, <2>9, <2>10, ControlLocal, Zenon DEF Inv, TypeOK, Goto
<1> QED
  BY <1>1, <1>2, Zenon DEF SysMmap

\* Storing a page in the local variables of a handler.
LEMMA PageLocType ==
  ASSUME NEW v \in LocType, NEW pg \in Pages \cup {NoPage, None}
  PROVE  /\ [v EXCEPT !.page = pg] \in LocType
         /\ [v EXCEPT !.page = pg].page = pg
BY Zenon DEF LocType

\* Taking a page for the mapping loop, and recording the first one.
LEMMA MmapKallocType ==
  ASSUME Inv, NEW p \in Procs, MmapKalloc(p)
  PROVE  Inv'
<1>1. CASE Stop("kalloc")
  BY <1>1, StopType, Zenon DEF Halts
<1>2. ASSUME NEW pg \in Offered(free),
             free' = free \ {pg},
             list' = IF SetsPa(p)
                     THEN [list EXCEPT ![p][New(p)].pa = pg] ELSE list,
             loc' = [loc EXCEPT ![p].page = pg],
             Goto(p, "mappages"),
             UNCHANGED <<halt, st, parent, killed, pte, tab, nodes, own, images>>
      PROVE  Inv'
  <2>1. free \in SUBSET Pages
    BY Zenon DEF Inv, TypeOK
  <2>2. pg \in Pages /\ pg # None
    BY <2>1, <1>2, OfferedFree, Zenon
  <2>3. /\ loc[p].op = "mmap" /\ loc[p].q \in Procs
        /\ New(p) \in 1..Len(list[p])
        /\ ~ loc[p].repl => loc[p].k >= 1
    BY Zenon DEF MmapKalloc, At, Inv, Control, HandlerOK, MapNode
  <2>4. /\ list' \in [Procs -> Seq(VmaType)]
        /\ Len(list'[p]) = Len(list[p])
        /\ \A q \in Procs \ {p} : list'[q] = list[q]
    <3>1. list[p] \in Seq(VmaType)
      BY Zenon DEF Inv, TypeOK
    <3> DEFINE nl == [list[p] EXCEPT ![New(p)].pa = pg]
    <3>2. nl \in Seq(VmaType) /\ Len(nl) = Len(list[p])
      BY <2>2, <2>3, <3>1, PaFieldType, Zenon
    <3>3. list' = IF SetsPa(p) THEN [list EXCEPT ![p] = nl] ELSE list
      BY <1>2, Zenon
    <3> HIDE DEF nl
    <3> QED
      BY <3>2, <3>3, Zenon DEF Inv, TypeOK
  <2>5. /\ loc' \in [Procs -> LocType]
        /\ loc'[p] = [loc[p] EXCEPT !.page = pg]
        /\ \A q \in Procs \ {p} : loc'[q] = loc[q]
    <3> DEFINE v == [loc[p] EXCEPT !.page = pg]
    <3>1. v \in LocType
      BY <2>2, PageLocType, Zenon DEF Inv, TypeOK
    <3>2. loc' = [loc EXCEPT ![p] = v]
      BY <1>2, Zenon
    <3> HIDE DEF v
    <3>3. /\ loc' \in [Procs -> LocType]
          /\ loc'[p] = v
          /\ \A q \in Procs \ {p} : loc'[q] = loc[q]
      BY <3>1, <3>2, Zenon DEF Inv, TypeOK
    <3> QED
      BY <3>3, Zenon DEF v
  <2>6. /\ pc' \in [Procs -> {"user", "mmap", "mappages", "munmap", "fork",
                              "fault"}]
        /\ pc'[p] = "mappages"
        /\ \A q \in Procs \ {p} : pc'[q] = pc[q]
    BY <1>2, Zenon DEF Inv, TypeOK, Goto
  <2>7. TypeOK'
    BY <1>2, <2>1, <2>4, <2>5, <2>6, Zenon DEF Inv, TypeOK
  <2>8. HandlerOK(p)'
    <3>1. loc[p] \in LocType
      BY Zenon DEF Inv, TypeOK
    <3>2. /\ loc'[p].op = loc[p].op /\ loc'[p].q = loc[p].q
          /\ loc'[p].k = loc[p].k /\ loc'[p].repl = loc[p].repl
          /\ loc'[p].page = pg
      BY <2>5, <3>1, Zenon DEF LocType
    <3>3. New(p)' = New(p)
      BY <3>2, Zenon DEF New
    <3> QED
      BY <2>2, <2>3, <2>4, <2>6, <3>2, <3>3, Zenon DEF HandlerOK, MapNode
  <2> QED
    BY <2>4, <2>5, <2>6, <2>7, <2>8, ControlLocal, Zenon DEF Inv
<1> QED
  BY <1>1, <1>2, Zenon DEF MmapKalloc

\* The guard pages at the end of mmap.
LEMMA MmapGuardType ==
  ASSUME Inv, NEW p \in Procs, MmapGuard(p)
  PROVE  Inv'
<1> DEFINE nl == SetGuard(DropPrevGuard(list[p], loc[p].k), New(p))
<1>1. list' = IF loc[p].repl THEN list ELSE [list EXCEPT ![p] = nl]
  BY Zenon DEF MmapGuard
<1>2. ASSUME ~ loc[p].repl PROVE nl \in Seq(VmaType)
  <2>1. list[p] \in Seq(VmaType) /\ loc[p] \in LocType
    BY Zenon DEF Inv, TypeOK
  <2>2. New(p) \in 1..Len(list[p]) /\ loc[p].k \in 1..Len(list[p])
    <3>1. New(p) \in 1..Len(list[p]) /\ loc[p].k >= 1
      BY <1>2, Zenon DEF MmapGuard, At, Inv, Control, HandlerOK, MapNode
    <3>2. New(p) = loc[p].k + 1 /\ loc[p].k \in Int
      BY <1>2, <2>1, Zenon DEF New, LocType
    <3> QED
      BY <2>1, <3>1, <3>2
  <2>3. /\ DropPrevGuard(list[p], loc[p].k) \in Seq(VmaType)
        /\ Len(DropPrevGuard(list[p], loc[p].k)) = Len(list[p])
    BY <2>1, <2>2, DropPrevGuardType, Zenon
  <2> QED
    BY <2>2, <2>3, SetGuardType, Zenon
<1> HIDE DEF nl
<1>3. list' \in [Procs -> Seq(VmaType)]
  BY <1>1, <1>2, Zenon DEF Inv, TypeOK
<1>4. \A q \in Procs \ {p} : list'[q] = list[q]
  BY <1>1, Zenon DEF Inv, TypeOK
<1>5. Return(p) /\ TypeOK
  BY Zenon DEF MmapGuard, Inv
<1>6. TypeOK'
  BY <1>3, <1>5, ReturnType, Zenon DEF MmapGuard, TypeOK
<1> QED
  BY <1>4, <1>5, <1>6, ReturnType, ControlLocal DEF Inv, TypeOK

\* What the caller of mappages() does next.
LEMMA AfterMapType ==
  ASSUME Inv, NEW p \in Procs, At(p, "mappages"), NEW grown,
         loc[p].op = "grow" => grown \in Seq(VmaType), AfterMap(p, grown)
  PROVE  /\ halt' = halt
         /\ st' \in [Procs -> {"UNUSED", "EMBRYO", "RUN", "ZOMBIE"}]
         /\ parent' \in [Procs -> Procs \cup {InitProc}]
         /\ list' \in [Procs -> Seq(VmaType)]
         /\ pc' \in [Procs -> {"user", "mmap", "mappages", "munmap", "fork",
                               "fault"}]
         /\ loc' \in [Procs -> LocType]
         /\ Control'
<1>1. TypeOK
  BY Zenon DEF Inv
<1>2. /\ loc[p] \in LocType
      /\ loc[p].op \in {"mmap", "fork", "grow"}
      /\ loc[p].q \in Procs
      /\ MapNode(p) \in 1..Len(list[p])
      /\ loc[p].op = "mmap" /\ ~ loc[p].repl => loc[p].k >= 1
  BY Zenon DEF Inv, TypeOK, Control, HandlerOK, At
<1>3. CASE loc[p].op = "grow"
  <2>1. list' = [list EXCEPT ![p] = grown]
    BY <1>3, Zenon DEF AfterMap
  <2>2. Return(p)
    BY <1>3, Zenon DEF AfterMap
  <2>3. /\ list' \in [Procs -> Seq(VmaType)]
        /\ \A q \in Procs \ {p} : list'[q] = list[q]
    BY <1>3, <2>1, Zenon DEF Inv, TypeOK
  <2>4. Control'
    BY <1>1, <2>2, <2>3, ReturnType, ControlLocal DEF Inv, TypeOK
  <2> QED
    BY <1>1, <2>2, <2>3, <2>4, ReturnType, Zenon
<1>4. CASE loc[p].op # "grow"
  <2> DEFINE v == [loc[p] EXCEPT !.va = @ + PGSIZE, !.page = None]
  <2>1. loc' = [loc EXCEPT ![p] = v]
    BY ZenonT(40), <1>4 DEF AfterMap
  <2>2. /\ Goto(p, loc[p].op)
        /\ UNCHANGED <<halt, st, parent, list>>
    BY <1>4, Zenon DEF AfterMap
  <2>3. /\ v \in LocType
        /\ v.op = loc[p].op /\ v.q = loc[p].q /\ v.k = loc[p].k
        /\ v.repl = loc[p].repl /\ v.page = None
    <3>1. loc[p].va + PGSIZE \in Int
      BY <1>2, LayoutAssumption DEF LocType
    <3>2. \A u \in LocType, n \in Int :
            /\ [u EXCEPT !.va = n, !.page = None] \in LocType
            /\ [u EXCEPT !.va = n, !.page = None].op = u.op
            /\ [u EXCEPT !.va = n, !.page = None].q = u.q
            /\ [u EXCEPT !.va = n, !.page = None].k = u.k
            /\ [u EXCEPT !.va = n, !.page = None].repl = u.repl
            /\ [u EXCEPT !.va = n, !.page = None].page = None
      BY ZenonT(40) DEF LocType
    <3> QED
      BY ZenonT(40), <1>2, <3>1, <3>2
  <2> HIDE DEF v
  <2>4. /\ loc' \in [Procs -> LocType] /\ loc'[p] = v
        /\ \A q \in Procs \ {p} : loc'[q] = loc[q]
    BY <2>1, <2>3, Zenon DEF Inv, TypeOK
  <2>5. /\ pc' \in [Procs -> {"user", "mmap", "mappages", "munmap", "fork",
                              "fault"}]
        /\ pc'[p] = loc[p].op
        /\ \A q \in Procs \ {p} : pc'[q] = pc[q]
    BY ZenonT(40), <1>2, <1>4, <2>2 DEF Inv, TypeOK, Goto
  <2>6. HandlerOK(p)'
    <3>1. New(p)' = New(p)
      BY <2>3, <2>4, Zenon DEF New
    <3> QED
      BY <1>2, <1>4, <2>2, <2>3, <2>4, <2>5, <3>1, Zenon DEF HandlerOK, MapNode
  <2>7. Control'
    BY <1>1, <2>2, <2>4, <2>5, <2>6, ControlLocal, Zenon DEF Inv
  <2> QED
    BY <1>1, <2>2, <2>4, <2>5, <2>7, Zenon DEF TypeOK
<1> QED
  BY <1>3, <1>4, Zenon

\* A page is mapped, with a new page table if there was none.
LEMMA MapOkType ==
  ASSUME Inv, NEW p \in Procs, MapOk(p)
  PROVE  Inv'
<1> DEFINE q == loc[p].q
           va == loc[p].va
           prot == list[p][MapNode(p)].prot
           entry == [va |-> va, pa |-> loc[p].page, prot |-> prot]
<1>1. /\ At(p, "mappages")
      /\ AfterMap(p, Grown(list[p], loc[p].k))
      /\ pte' = [pte EXCEPT ![q] = @ \cup {entry}]
      /\ UNCHANGED <<killed, nodes, own, images>>
  BY Zenon DEF MapOk
<1>2. /\ loc[p] \in LocType /\ q \in Procs
      /\ loc[p].page \in Pages \cup {NoPage}
      /\ MapNode(p) \in 1..Len(list[p])
  BY <1>1, Zenon DEF Inv, TypeOK, Control, HandlerOK, At, LocType
<1>3. entry \in PteType
  <2>1. list[p][MapNode(p)] \in VmaType
    BY <1>2, NodeType, Zenon DEF Inv, TypeOK
  <2> QED
    BY <1>2, <2>1, Zenon DEF VmaType, PteType, LocType
<1>4. va \in Int /\ TableOf(va) \in Int
  <2>1. va \in Int
    BY <1>2, Zenon DEF LocType
  <2>2. NPT * PGSIZE \in Nat \ {0}
    BY SMTT(30), MmapAssumption, LayoutAssumption
  <2> QED
    BY <2>1, <2>2 DEF TableOf
<1> HIDE DEF entry
<1>5. /\ free' \subseteq Pages
      /\ tab' \in [Procs -> SUBSET [n : Int, pa : Pages]]
  <2>1. free \in SUBSET Pages /\ tab \in [Procs -> SUBSET [n : Int, pa : Pages]]
    BY Zenon DEF Inv, TypeOK
  <2>2. CASE UNCHANGED <<tab, free>>
    BY <2>1, <2>2, Zenon
  <2>3. ASSUME NEW pg \in Offered(free),
               tab' = [tab EXCEPT ![q] = @ \cup {[n |-> TableOf(va), pa |-> pg]}],
               free' = free \ {pg}
        PROVE  /\ free' \subseteq Pages
               /\ tab' \in [Procs -> SUBSET [n : Int, pa : Pages]]
    <3>1. pg \in Pages
      BY <2>1, <2>3, OfferedFree, Zenon
    <3>2. [n |-> TableOf(va), pa |-> pg] \in [n : Int, pa : Pages]
      BY <3>1, <1>4, Zenon
    <3> QED
      BY <1>2, <2>1, <2>3, <3>2, Zenon
  <2> QED
    BY <2>2, <2>3, Zenon DEF MapOk
<1>6. pte' \in [Procs -> SUBSET PteType]
  BY <1>1, <1>2, <1>3, Zenon DEF Inv, TypeOK
<1>7. loc[p].op = "grow" => Grown(list[p], loc[p].k) \in Seq(VmaType)
  BY <1>2, GrownType, Zenon DEF MapNode, Inv, TypeOK
<1>8. TypeOK' /\ Control'
  BY <1>1, <1>5, <1>6, <1>7, AfterMapType, Zenon DEF Inv, TypeOK
<1> QED
  BY SMTT(30), <1>8 DEF Inv

\* mappages() fails, and its caller frees the page.
LEMMA MapFailType ==
  ASSUME Inv, NEW p \in Procs, MapFail(p)
  PROVE  Inv'
<1>1. CASE Stop("kfree")
  BY ZenonT(40), <1>1, StopType DEF Halts
<1>2. CASE ~ Stop("kfree")
  <2>1. /\ At(p, "mappages")
        /\ AfterMap(p, list[p])
        /\ loc[p].page # NoPage
        /\ free' = free \cup {loc[p].page}
        /\ killed' = [killed EXCEPT ![loc[p].q] = TRUE]
        /\ UNCHANGED <<pte, tab, nodes, own, images>>
    BY <1>2, Zenon DEF MapFail
  <2>2. loc[p].page \in Pages
    BY <2>1, Zenon DEF Inv, TypeOK, Control, HandlerOK, At, LocType
  <2>3. free' \subseteq Pages
    BY <2>1, <2>2, Zenon DEF Inv, TypeOK
  <2>4. killed' \in [Procs -> BOOLEAN]
    BY ZenonT(40), <2>1 DEF Inv, TypeOK
  <2>5. list[p] \in Seq(VmaType)
    BY Zenon DEF Inv, TypeOK
  <2>6. TypeOK' /\ Control'
    BY ZenonT(40), <2>1, <2>3, <2>4, <2>5, AfterMapType DEF Inv, TypeOK
  <2> QED
    BY <2>6, Zenon DEF Inv
<1> QED
  BY <1>1, <1>2, Zenon

\* A handler starts with fresh local variables, outside mappages().
LEMMA EnterType ==
  ASSUME Inv, NEW p \in Procs, NEW v \in LocType, NEW l,
         l \in {"munmap", "fork", "fault"}, v.page = None,
         l = "fork" => v.op = "fork" /\ v.q \in Procs,
         l = "fault" => v.op = "grow" /\ v.q \in Procs,
         loc' = [loc EXCEPT ![p] = v], Goto(p, l), UNCHANGED list
  PROVE  /\ loc' \in [Procs -> LocType]
         /\ pc' \in [Procs -> {"user", "mmap", "mappages", "munmap", "fork",
                               "fault"}]
         /\ Control'
<1>1. /\ loc' \in [Procs -> LocType] /\ loc'[p] = v
      /\ \A q \in Procs \ {p} : loc'[q] = loc[q]
  BY Zenon DEF Inv, TypeOK
<1>2. /\ pc' \in [Procs -> {"user", "mmap", "mappages", "munmap", "fork",
                            "fault"}]
      /\ pc'[p] = l
      /\ \A q \in Procs \ {p} : pc'[q] = pc[q]
  BY Zenon DEF Inv, TypeOK, Goto
<1>3. HandlerOK(p)'
  BY <1>1, <1>2, Zenon DEF HandlerOK
<1> QED
  BY <1>1, <1>2, <1>3, ControlLocal, Zenon DEF Inv

\* Entering munmap.
LEMMA SysMunmapType ==
  ASSUME Inv, NEW p \in Procs, NEW addr \in Addrs, NEW len \in Lens,
         SysMunmap(p, addr, len)
  PROVE  Inv'
<1>1. CASE Stop("wild")
  BY <1>1, StopType, Zenon DEF Halts
<1>2. CASE ~ Stop("wild")
  <2>1. PICK k \in Visited(list[p]) :
          /\ loc' = [loc EXCEPT ![p] = [NoLoc EXCEPT !.op = "munmap", !.q = p,
                       !.k = k, !.va = addr, !.end = uint(addr + len)]]
          /\ Goto(p, "munmap")
          /\ UNCHANGED <<halt, st, parent, killed, list, pte, tab, free, nodes,
                         own, images>>
    BY ZenonT(40), <1>2 DEF SysMunmap
  <2> DEFINE v == [NoLoc EXCEPT !.op = "munmap", !.q = p, !.k = k, !.va = addr,
                                !.end = uint(addr + len)]
  <2>2. v \in LocType /\ v.page = None
    <3>1. addr \in Int /\ uint(addr + len) \in Int
      BY MmapAssumption, UintType
    <3>2. k \in Int
      BY DEF Visited
    <3> QED
      BY ZenonT(40), <3>1, <3>2 DEF NoLoc, LocType
  <2>3. loc' = [loc EXCEPT ![p] = v]
    BY <2>1, Zenon
  <2> HIDE DEF v
  <2>4. TypeOK' /\ Control'
    BY ZenonT(40), <2>1, <2>2, <2>3, EnterType DEF Inv, TypeOK
  <2> QED
    BY SMTT(30), <2>4 DEF Inv
<1> QED
  BY <1>1, <1>2, Zenon

\* A new address, or a new node, in the local variables.
LEMMA StepLocType ==
  ASSUME NEW v \in LocType, NEW va \in Int, NEW k \in Int
  PROVE  /\ [v EXCEPT !.va = va] \in LocType
         /\ [v EXCEPT !.va = va].page = v.page
         /\ [v EXCEPT !.k = k, !.va = va] \in LocType
         /\ [v EXCEPT !.k = k, !.va = va].page = v.page
         /\ [v EXCEPT !.k = k, !.va = va].op = v.op
         /\ [v EXCEPT !.k = k, !.va = va].q = v.q
BY ZenonT(40) DEF LocType

\* The loop of munmap, which only moves on.
LEMMA MunmapLoopType ==
  ASSUME Inv, NEW p \in Procs, MunmapLoop(p)
  PROVE  Inv'
<1>1. CASE Stop("wild")
  BY <1>1, StopType, Zenon DEF Halts
<1>2. CASE ~ Stop("wild")
  <2>1. /\ loc' = [loc EXCEPT ![p].va = @ + PGSIZE]
        /\ UNCHANGED <<halt, st, parent, killed, list, pte, tab, free,
                       nodes, pc, own, images>>
    BY <1>2, Zenon DEF MunmapLoop
  <2>2. /\ pc[p] = "munmap" /\ loc[p] \in LocType /\ loc[p].page = None
    BY Zenon DEF MunmapLoop, At, Inv, TypeOK, Control, HandlerOK
  <2> DEFINE v == [loc[p] EXCEPT !.va = @ + PGSIZE]
  <2>3. v \in LocType /\ v.page = None
    <3>1. loc[p].va + PGSIZE \in Int
      BY <2>2, LayoutAssumption DEF LocType
    <3> QED
      BY ZenonT(40), <2>2, <3>1, StepLocType
  <2>4. loc' = [loc EXCEPT ![p] = v]
    BY <2>1, Zenon
  <2> HIDE DEF v
  <2>5. Goto(p, "munmap")
    BY <2>1, <2>2, Zenon DEF Goto, Inv, TypeOK
  <2>6. TypeOK' /\ Control'
    BY ZenonT(40), <2>1, <2>3, <2>4, <2>5, EnterType DEF Inv, TypeOK
  <2> QED
    BY <2>6, Zenon DEF Inv
<1> QED
  BY <1>1, <1>2, Zenon

\* Leaving a handler without touching a list.
LEMMA ReturnInv ==
  ASSUME Inv, NEW p \in Procs, Return(p), killed' \in [Procs -> BOOLEAN],
         UNCHANGED <<list, pte, tab, free, nodes, own, images>>
  PROVE  Inv'
<1>1. TypeOK'
  BY ReturnType, Zenon DEF Inv, TypeOK
<1>2. Control'
  BY ReturnType, ControlLocal DEF Inv, TypeOK
<1> QED
  BY <1>1, <1>2, Zenon DEF Inv

\* Leaving munmap.
LEMMA MunmapReturnType ==
  ASSUME Inv, NEW p \in Procs, MunmapReturn(p)
  PROVE  Inv'
BY ReturnInv, Zenon DEF MunmapReturn, Inv, TypeOK

\* Entering the page-fault handler.
LEMMA AccessType ==
  ASSUME Inv, NEW p \in Procs, NEW a \in Touched, NEW w \in BOOLEAN,
         Access(p, a, w)
  PROVE  Inv'
<1> DEFINE v == [NoLoc EXCEPT !.op = "grow", !.q = p, !.va = a]
<1>1. v \in LocType /\ v.page = None /\ v.op = "grow" /\ v.q = p
  <2>1. a \in Int
    <3>1. a \in Nat
      BY MmapAssumption, Zenon
    <3> QED
      BY <3>1
  <2>2. \A u \in LocType :
          /\ [u EXCEPT !.op = "grow", !.q = p, !.va = a] \in LocType
          /\ [u EXCEPT !.op = "grow", !.q = p, !.va = a].page = u.page
          /\ [u EXCEPT !.op = "grow", !.q = p, !.va = a].op = "grow"
          /\ [u EXCEPT !.op = "grow", !.q = p, !.va = a].q = p
    BY ZenonT(40), <2>1 DEF LocType
  <2> QED
    BY ZenonT(40), <2>2, NoLocType
<1>2. loc' = [loc EXCEPT ![p] = v]
  BY Zenon DEF Access
<1> HIDE DEF v
<1>3. TypeOK' /\ Control'
  BY ZenonT(40), <1>1, <1>2, EnterType DEF Access, Inv, TypeOK
<1> QED
  BY SMTT(30), <1>3 DEF Inv

\* A page is about to be mapped: mappages() is entered.
LEMMA EnterMapType ==
  ASSUME Inv, NEW p \in Procs, NEW v \in LocType, UNCHANGED list,
         v.op \in {"fork", "grow"}, v.q \in Procs, v.page # None,
         v.k \in 1..Len(list[p]),
         loc' = [loc EXCEPT ![p] = v], Goto(p, "mappages")
  PROVE  /\ loc' \in [Procs -> LocType]
         /\ pc' \in [Procs -> {"user", "mmap", "mappages", "munmap", "fork",
                               "fault"}]
         /\ Control'
<1>1. /\ loc' \in [Procs -> LocType] /\ loc'[p] = v
      /\ \A q \in Procs \ {p} : loc'[q] = loc[q]
  BY Zenon DEF Inv, TypeOK
<1>2. /\ pc' \in [Procs -> {"user", "mmap", "mappages", "munmap", "fork",
                            "fault"}]
      /\ pc'[p] = "mappages"
      /\ \A q \in Procs \ {p} : pc'[q] = pc[q]
  BY Zenon DEF Inv, TypeOK, Goto
<1>3. HandlerOK(p)'
  BY <1>1, <1>2, Zenon DEF HandlerOK, MapNode
<1> QED
  BY <1>1, <1>2, <1>3, ControlLocal, Zenon DEF Inv

\* The guard page of node k is given a page.
LEMMA FaultGrowType ==
  ASSUME Inv, NEW p \in Procs, At(p, "fault"), NEW k \in 1..Len(list[p]),
         FaultGrow(p, k)
  PROVE  Inv'
<1>1. CASE Stop("kalloc")
  BY <1>1, StopType, Zenon DEF Halts
<1>2. CASE ~ Stop("kalloc")
  <2>1. PICK pg \in Offered(free) :
          /\ free' = free \ {pg}
          /\ loc' = [loc EXCEPT ![p].k = k, ![p].page = pg,
                                ![p].va = list[p][k].guardstart]
          /\ Goto(p, "mappages")
          /\ UNCHANGED <<halt, st, parent, killed, list, pte, tab, nodes, own,
                         images>>
    BY ZenonT(40), <1>2 DEF FaultGrow
  <2>2. free \in SUBSET Pages /\ loc[p] \in LocType
    BY Zenon DEF Inv, TypeOK
  <2>3. pg \in Pages /\ pg # None
    BY <2>2, OfferedFree, Zenon
  <2>4. list[p][k].guardstart \in Int
    <3>1. list[p][k] \in VmaType
      BY NodeType, Zenon DEF Inv, TypeOK
    <3> QED
      BY <3>1, Zenon DEF VmaType
  <2> DEFINE g == list[p][k].guardstart
             v == [loc[p] EXCEPT !.k = k, !.page = pg, !.va = g]
  <2>5. loc' = [loc EXCEPT ![p] = v]
    BY ZenonT(40), <2>1, <2>2 DEF Inv, TypeOK
  <2> HIDE DEF g
  <2>6. /\ v \in LocType /\ v.op = loc[p].op /\ v.q = loc[p].q
        /\ v.k = k /\ v.page = pg
    <3>1. g \in Int /\ k \in Int
      BY <2>4 DEF g
    <3> QED
      BY ZenonT(40), <2>2, <2>3, <3>1 DEF LocType
  <2> HIDE DEF v
  <2>7. loc[p].op = "grow" /\ loc[p].q \in Procs
    BY Zenon DEF At, Inv, Control, HandlerOK
  <2>8. TypeOK' /\ Control'
    BY ZenonT(40), <2>1, <2>2, <2>3, <2>5, <2>6, <2>7, EnterMapType DEF Inv, TypeOK
  <2> QED
    BY SMTT(30), <2>8 DEF Inv
<1> QED
  BY <1>1, <1>2, Zenon

\* The page-fault handler.
LEMMA PageFaultType ==
  ASSUME Inv, NEW p \in Procs, PageFault(p)
  PROVE  Inv'
<1> DEFINE a == loc[p].va
           k == FaultSlot(list[p], a)
<1>1. CASE FaultKill(p)
  <2>1. killed' \in [Procs -> BOOLEAN]
    BY ZenonT(40), <1>1 DEF FaultKill, Inv, TypeOK
  <2> QED
    BY <1>1, <2>1, ReturnInv, Zenon DEF FaultKill
<1>2. CASE Stop("wild")
  BY <1>2, StopType, Zenon DEF Halts
<1>3. CASE UNCHANGED vars
  BY <1>3 DEF vars, Inv, TypeOK, Control, HandlerOK, MapNode, New
<1>4. CASE k # 0 /\ FaultGrow(p, k)
  <2>1. k \in 0..Len(list[p]) /\ Len(list[p]) \in Nat
    BY FaultSlotRange DEF Inv, TypeOK
  <2> HIDE DEF k
  <2>2. k \in 1..Len(list[p])
    BY <1>4, <2>1
  <2>3. At(p, "fault")
    BY Zenon DEF PageFault
  <2> QED
    BY <1>4, <2>2, <2>3, FaultGrowType, Zenon
<1> QED
  BY <1>1, <1>2, <1>3, <1>4, Zenon DEF PageFault

\* fork() starts copying.
LEMMA ForkType ==
  ASSUME Inv, NEW p \in Procs, NEW np \in Procs, Fork(p, np)
  PROVE  Inv'
<1>1. CASE Stop("wild")
  BY <1>1, StopType, Zenon DEF Halts
<1>2. CASE ~ Stop("wild")
  <2> DEFINE va == list[p][1].start
             v == [NoLoc EXCEPT !.op = "fork", !.q = np, !.k = 1, !.va = va]
  <2>1. /\ list[p] # <<>>
        /\ st' = [st EXCEPT ![np] = "EMBRYO"]
        /\ parent' = [parent EXCEPT ![np] = p]
        /\ loc' = [loc EXCEPT ![p] = v]
        /\ Goto(p, "fork")
        /\ own' = [own EXCEPT ![np] = FALSE]
        /\ images' = images + 1
        /\ UNCHANGED <<halt, killed, list, pte, tab, free, nodes>>
    BY <1>2, Zenon DEF Fork
  <2>2. va \in Int
    <3>1. list[p] \in Seq(VmaType)
      BY Zenon DEF Inv, TypeOK
    <3>2. list[p][1] \in VmaType
      <4>1. Len(list[p]) \in Nat \ {0}
        BY <2>1, <3>1, NoNodes, Zenon
      <4> QED
        BY <3>1, <4>1, NodeType
    <3> QED
      BY <3>2, Zenon DEF VmaType
  <2> HIDE DEF va
  <2>3. v \in LocType /\ v.page = None /\ v.op = "fork" /\ v.q = np
    <3>1. \A u \in LocType, n \in Int :
            /\ [u EXCEPT !.op = "fork", !.q = np, !.k = n, !.va = va] \in LocType
            /\ [u EXCEPT !.op = "fork", !.q = np, !.k = n, !.va = va].page = u.page
            /\ [u EXCEPT !.op = "fork", !.q = np, !.k = n, !.va = va].op = "fork"
            /\ [u EXCEPT !.op = "fork", !.q = np, !.k = n, !.va = va].q = np
      BY <2>2, Zenon DEF LocType
    <3>2. 1 \in Int
      OBVIOUS
    <3> QED
      BY <3>1, <3>2, NoLocType, Zenon
  <2> HIDE DEF v
  <2>4. /\ st' \in [Procs -> {"UNUSED", "EMBRYO", "RUN", "ZOMBIE"}]
        /\ parent' \in [Procs -> Procs \cup {InitProc}]
        /\ own' \in [Procs -> BOOLEAN]
        /\ images' \in Nat
    BY <2>1 DEF Inv, TypeOK
  <2>5. TypeOK' /\ Control'
    BY ZenonT(40), <2>1, <2>3, <2>4, EnterType DEF Inv, TypeOK
  <2> QED
    BY <2>5, Zenon DEF Inv
<1> QED
  BY <1>1, <1>2, Zenon

\* fork() by a process without mappings.
LEMMA ForkByInitType ==
  ASSUME Inv, NEW np \in Procs, ForkByInit(np)
  PROVE  Inv'
<1>1. /\ st' \in [Procs -> {"UNUSED", "EMBRYO", "RUN", "ZOMBIE"}]
      /\ parent' \in [Procs -> Procs \cup {InitProc}]
      /\ own' \in [Procs -> BOOLEAN]
      /\ images' \in Nat
  BY DEF ForkByInit, Inv, TypeOK
<1>2. UNCHANGED <<halt, killed, list, pte, tab, free, nodes, pc, loc>>
  BY Zenon DEF ForkByInit
<1>3. TypeOK'
  BY ZenonT(40), <1>1, <1>2 DEF Inv, TypeOK
<1>4. Control'
  BY <1>2 DEF Inv, Control, HandlerOK, MapNode, New
<1> QED
  BY <1>3, <1>4, Zenon DEF Inv

\* A page handed to mappages() by fork(), whichever it is.
LEMMA ForkMapType ==
  ASSUME Inv, NEW p \in Procs, Copying(p), NEW pg \in Pages \cup {NoPage},
         loc' = [loc EXCEPT ![p].page = pg], Goto(p, "mappages"),
         free' \subseteq Pages,
         UNCHANGED <<halt, st, parent, killed, list, pte, tab, nodes, own, images>>
  PROVE  Inv'
<1> DEFINE v == [loc[p] EXCEPT !.page = pg]
<1>1. loc[p] \in LocType
  BY Zenon DEF Inv, TypeOK
<1>2. pg # None
  BY MmapAssumption, Zenon
<1>3. v \in LocType /\ v.op = loc[p].op /\ v.q = loc[p].q /\ v.k = loc[p].k
      /\ v.page = pg
  BY <1>1, Zenon DEF LocType
<1>4. loc' = [loc EXCEPT ![p] = v]
  BY Zenon
<1> HIDE DEF v
<1>5. loc[p].op = "fork" /\ loc[p].q \in Procs
  BY Zenon DEF Copying, At, Inv, Control, HandlerOK
<1>6. loc[p].k \in 1..Len(list[p])
  BY Zenon DEF Copying, Visited
<1>7. TypeOK' /\ Control'
  BY ZenonT(40), <1>2, <1>3, <1>4, <1>5, <1>6, EnterMapType DEF Inv, TypeOK
<1> QED
  BY <1>7, Zenon DEF Inv

\* A shared area: the first frame is mapped again.
LEMMA ForkSharedType ==
  ASSUME Inv, NEW p \in Procs, ForkShared(p)
  PROVE  Inv'
<1>1. list[p][loc[p].k] \in VmaType
  BY NodeType, Zenon DEF ForkShared, Copying, Visited, Inv, TypeOK
<1>2. list[p][loc[p].k].pa \in Pages \cup {NoPage}
  BY <1>1, Zenon DEF VmaType
<1>3. free' \subseteq Pages
  BY Zenon DEF ForkShared, Inv, TypeOK
<1> QED
  BY ZenonT(40), <1>2, <1>3, ForkMapType DEF ForkShared

\* A private area: a new frame.
LEMMA ForkPrivateType ==
  ASSUME Inv, NEW p \in Procs, ForkPrivate(p)
  PROVE  Inv'
<1>1. CASE Stop("kalloc")
  BY <1>1, StopType, Zenon DEF Halts
<1>2. CASE Stop("wild")
  BY <1>2, StopType, Zenon DEF Halts
<1>3. CASE ~ Stop("kalloc") /\ ~ Stop("wild")
  <2>1. PICK pg \in Offered(free) :
          /\ free' = free \ {pg}
          /\ loc' = [loc EXCEPT ![p].page = pg]
          /\ Goto(p, "mappages")
          /\ UNCHANGED <<halt, st, parent, killed, list, pte, tab, nodes,
                         own, images>>
    BY <1>3, Zenon DEF ForkPrivate
  <2>2. free \in SUBSET Pages
    BY Zenon DEF Inv, TypeOK
  <2>3. pg \in Pages
    BY <2>2, OfferedFree, Zenon
  <2>4. free' \subseteq Pages
    BY <2>1, <2>2, Zenon
  <2> QED
    BY ZenonT(40), <2>1, <2>3, <2>4, ForkMapType DEF ForkPrivate
<1> QED
  BY <1>1, <1>2, <1>3, Zenon

\* fork() goes to the next node.
LEMMA ForkNextType ==
  ASSUME Inv, NEW p \in Procs, ForkNext(p)
  PROVE  Inv'
<1> DEFINE va == NextStart(list[p], loc[p].k)
           v == [loc[p] EXCEPT !.k = @ + 1, !.va = va]
<1>1. /\ pc[p] = "fork" /\ loc[p] \in LocType /\ loc[p].page = None
      /\ loc[p].op = "fork" /\ loc[p].q \in Procs
  BY Zenon DEF ForkNext, At, Inv, TypeOK, Control, HandlerOK
<1>2. va \in Int
  BY NextStartType, Zenon DEF ForkNext, Visited, Inv, TypeOK
<1>3. loc' = [loc EXCEPT ![p] = v]
  BY ZenonT(40) DEF ForkNext
<1> HIDE DEF va
<1>4. v \in LocType /\ v.page = None /\ v.op = "fork" /\ v.q = loc[p].q
  <2>1. loc[p].k + 1 \in Int
    BY <1>1 DEF LocType
  <2>2. \A x \in LocType : \A n, k \in Int :
          LET w == [x EXCEPT !.k = k, !.va = n]
          IN  w \in LocType /\ w.page = x.page /\ w.op = x.op /\ w.q = x.q
    BY Zenon, StepLocType
  <2> QED
    BY Zenon, <1>1, <1>2, <2>1, <2>2
<1> HIDE DEF v
<1>5. Goto(p, "fork")
  BY <1>1, Zenon DEF ForkNext, Goto, Inv, TypeOK
<1>6. TypeOK' /\ Control'
  BY ZenonT(40), <1>1, <1>3, <1>4, <1>5, EnterType DEF ForkNext, Inv, TypeOK
<1> QED
  BY <1>6, Zenon DEF Inv

\* A process at user level has no local variables of a handler.
LEMMA UserType ==
  ASSUME Inv, NEW p \in Procs, Goto(p, "user"),
         loc' = [loc EXCEPT ![p] = NoLoc], UNCHANGED list
  PROVE  /\ loc' \in [Procs -> LocType]
         /\ pc' \in [Procs -> {"user", "mmap", "mappages", "munmap", "fork",
                               "fault"}]
         /\ Control'
<1>1. /\ loc' \in [Procs -> LocType] /\ loc'[p] = NoLoc
      /\ \A q \in Procs \ {p} : loc'[q] = loc[q]
  BY NoLocType, Zenon DEF Inv, TypeOK
<1>2. /\ pc' \in [Procs -> {"user", "mmap", "mappages", "munmap", "fork",
                            "fault"}]
      /\ pc'[p] = "user"
      /\ \A q \in Procs \ {p} : pc'[q] = pc[q]
  BY Zenon DEF Inv, TypeOK, Goto
<1>3. HandlerOK(p)'
  BY <1>1, <1>2, NoLocType, Zenon DEF HandlerOK
<1> QED
  BY <1>1, <1>2, <1>3, ControlLocal, Zenon DEF Inv

\* fork() is done.
LEMMA ForkReturnType ==
  ASSUME Inv, NEW p \in Procs, ForkReturn(p)
  PROVE  Inv'
<1>1. TypeOK' /\ Control'
  BY ZenonT(40), UserType DEF ForkReturn, Inv, TypeOK
<1> QED
  BY <1>1, Zenon DEF Inv

\* freevm() gives pages back.
LEMMA FreeVmType ==
  ASSUME Inv, NEW p \in Procs, FreeVmWorks(p)
  PROVE  /\ free' \subseteq Pages
         /\ pte' \in [Procs -> SUBSET PteType]
         /\ tab' \in [Procs -> SUBSET [n : Int, pa : Pages]]
<1>1. Frames(p) \subseteq Pages
  <2>1. pte[p] \in SUBSET PteType /\ NoPage \notin Frames(p)
    BY Zenon DEF Inv, TypeOK, FreeVmWorks, FreesBogus
  <2> QED
    BY <2>1, Zenon DEF Frames, PteType
<1>2. TablePages(p) \subseteq Pages
  BY DEF Inv, TypeOK, TablePages
<1> QED
  BY <1>1, <1>2, Zenon DEF FreeVmWorks, FreeVm, VmPages, Inv, TypeOK

\* exec() replaces the image.
LEMMA ExecType ==
  ASSUME Inv, NEW p \in Procs, Exec(p)
  PROVE  Inv'
<1>1. CASE FreeVmStops(p)
  BY <1>1, StopType, Zenon DEF FreeVmStops, Halts
<1>2. CASE ~ FreeVmStops(p)
  <2>1. /\ FreeVmWorks(p)
        /\ list' = [list EXCEPT ![p] = EmptyList(@)]
        /\ own' = [own EXCEPT ![p] = TRUE]
        /\ images' = images + 1
        /\ UNCHANGED <<halt, st, parent, killed, nodes, pc, loc>>
    BY <1>2, Zenon DEF Exec
  <2>2. EmptyList(list[p]) \in Seq(VmaType)
    BY EmptyListType, Zenon DEF Inv, TypeOK
  <2>3. /\ list' \in [Procs -> Seq(VmaType)]
        /\ \A q \in Procs \ {p} : list'[q] = list[q]
    BY <2>1, <2>2, Zenon DEF Inv, TypeOK
  <2>4. own' \in [Procs -> BOOLEAN] /\ images' \in Nat
    BY <2>1 DEF Inv, TypeOK
  <2>5. TypeOK'
    BY ZenonT(40), <2>1, <2>3, <2>4, FreeVmType DEF Inv, TypeOK
  <2>6. HandlerOK(p)'
    BY ZenonT(40), <2>1 DEF Exec, InUser, At, Inv, Control, HandlerOK
  <2> QED
    BY <2>1, <2>3, <2>5, <2>6, ControlLocal, Zenon DEF Inv
<1> QED
  BY <1>1, <1>2, Zenon

\* exit() at user level.
LEMMA ExitType ==
  ASSUME Inv, NEW p \in Procs, Exit(p)
  PROVE  Inv'
<1>1. /\ st' \in [Procs -> {"UNUSED", "EMBRYO", "RUN", "ZOMBIE"}]
      /\ parent' \in [Procs -> Procs \cup {InitProc}]
  BY Zenon DEF Exit, exit, Inv, TypeOK
<1>2. TypeOK' /\ Control'
  BY ZenonT(40), <1>1, UserType DEF Exit, exit, Inv, TypeOK
<1> QED
  BY <1>2, Zenon DEF Inv

\* wait() frees a zombie.
LEMMA WaitType ==
  ASSUME Inv, NEW q \in Procs, Wait(q)
  PROVE  Inv'
<1>1. CASE FreeVmStops(q)
  BY <1>1, StopType, Zenon DEF FreeVmStops, Halts
<1>2. CASE ~ FreeVmStops(q)
  <2>1. /\ FreeVmWorks(q)
        /\ st' = [st EXCEPT ![q] = "UNUSED"]
        /\ parent' = [parent EXCEPT ![q] = InitProc]
        /\ killed' = [killed EXCEPT ![q] = FALSE]
        /\ UNCHANGED <<halt, list, nodes, pc, loc, own, images>>
    BY <1>2, Zenon DEF Wait
  <2>2. /\ st' \in [Procs -> {"UNUSED", "EMBRYO", "RUN", "ZOMBIE"}]
        /\ parent' \in [Procs -> Procs \cup {InitProc}]
        /\ killed' \in [Procs -> BOOLEAN]
    BY <2>1, Zenon DEF Inv, TypeOK
  <2>3. TypeOK'
    BY ZenonT(40), <2>1, <2>2, FreeVmType DEF Inv, TypeOK
  <2>4. Control'
    BY ZenonT(40), <2>1 DEF Inv, Control, HandlerOK, MapNode, New
  <2> QED
    BY <2>3, <2>4, Zenon DEF Inv
<1> QED
  BY <1>1, <1>2, Zenon

\* Every step keeps the types and the local variables of the handlers.
LEMMA NextInv == Inv /\ [Next]_vars => Inv'
<1> SUFFICES ASSUME Inv, [Next]_vars PROVE Inv'
  BY Zenon
<1>1. CASE UNCHANGED vars
  BY <1>1 DEF vars, Inv, TypeOK, Control, HandlerOK, MapNode, New
<1>2. ASSUME NEW p \in Procs, Mmap(p) PROVE Inv'
  BY <1>2, SysMmapType, MmapKallocType, MmapGuardType, Zenon DEF Mmap
<1>3. ASSUME NEW p \in Procs, MapPages(p) PROVE Inv'
  <2>1. CASE MapRemap(p)
    BY <2>1, StopType, Zenon DEF MapRemap, Halts
  <2> QED
    BY <1>3, <2>1, MapOkType, MapFailType, Zenon DEF MapPages
<1>4. ASSUME NEW p \in Procs, Munmap(p) PROVE Inv'
  BY <1>4, SysMunmapType, MunmapLoopType, MunmapReturnType, Zenon DEF Munmap
<1>5. ASSUME NEW p \in Procs, Memory(p) PROVE Inv'
  BY <1>5, AccessType, PageFaultType, Zenon DEF Memory
<1>6. ASSUME NEW p \in Procs, ForkSteps(p) PROVE Inv'
  BY <1>6, ForkType, ForkSharedType, ForkPrivateType, ForkNextType,
     ForkReturnType, Zenon DEF ForkSteps
<1>7. ASSUME NEW p \in Procs, ProcSteps(p) PROVE Inv'
  BY <1>7, ForkByInitType, ExecType, ExitType, WaitType, Zenon DEF ProcSteps
<1>8. CASE Halted \/ Done
  BY <1>1, <1>8, Zenon DEF Halted, Done
<1> QED
  BY <1>1, <1>2, <1>3, <1>4, <1>5, <1>6, <1>7, <1>8, Zenon DEF Next

\* The initial state has the types.
LEMMA InitInv == Init => Inv
<1> SUFFICES ASSUME Init PROVE Inv
  BY Zenon
<1>1. TypeOK
  BY NoLocType, NoNodes, Zenon DEF Init, TypeOK
<1>2. Control
  BY NoLocType, Zenon DEF Init, Control, HandlerOK
<1> QED
  BY <1>1, <1>2, Zenon DEF Inv

\* Type correctness: whatever the programs call, in any order and on any
\* number of processes, every variable keeps its type; in particular no
\* handler indexes a node outside its process's list and kalloc's null is
\* never mapped.
THEOREM TypeCorrect == Spec => []TypeOK
<1>1. Inv => TypeOK
  BY Zenon DEF Inv
<1> QED
  BY <1>1, InitInv, NextInv, PTL DEF Spec
============================================================================
