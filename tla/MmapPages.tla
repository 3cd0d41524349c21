---------------------------- MODULE MmapPages -----------------------------
(***************************************************************************)
(* Where physical pages go: every step of Mmap moves a page from one use   *)
(* to another, or none, when no program asks for MAP_SHARED.  So for every *)
(* number of processes, pages and calls they are neither lost nor used     *)
(* twice.                                                                  *)
(***************************************************************************)
EXTENDS MmapTypes

(***************************************************************************)
(* No page is lost and none is used twice.                                 *)
(***************************************************************************)
\* No program asks for MAP_SHARED.
NoShared == \A flags \in FlagSets : "SHARED" \notin flags

\* No handler holds an address that is no page.
NoBogus == \A p \in Procs : loc[p].page # NoPage

IndInv == Inv /\ NoBogus /\ PagePartition

\* Steps that move no page.
LEMMA SamePages ==
  ASSUME PagePartition, UNCHANGED <<free, nodes, pte, tab>>,
         \A p \in Procs : loc'[p].page = loc[p].page
  PROVE  PagePartition'
<1>1. \A p \in Procs : /\ Frames(p)' = Frames(p)
                       /\ TablePages(p)' = TablePages(p)
                       /\ InFlight(p)' = InFlight(p)
  BY Zenon DEF Frames, TablePages, InFlight
<1>2. \A p \in Procs : VmPages(p)' = VmPages(p) /\ Held(p)' = Held(p)
  BY <1>1, Zenon DEF VmPages, Held
<1> QED
  BY <1>1, <1>2 DEF PagePartition

\* A page that leaves the free list goes into the hands of one handler.
LEMMA TakePage ==
  ASSUME Inv, PagePartition, NEW p \in Procs, NEW pg \in Offered(free),
         loc[p].page = None, loc'[p].page = pg, free' = free \ {pg},
         \A q \in Procs \ {p} : loc'[q] = loc[q],
         UNCHANGED <<nodes, pte, tab>>
  PROVE  PagePartition'
<1>1. pg \in free /\ pg \in Pages
  BY ZenonT(40), OfferedFree DEF Inv, TypeOK
<1>2. \A q \in Procs : /\ Frames(q)' = Frames(q)
                       /\ TablePages(q)' = TablePages(q)
                       /\ VmPages(q)' = VmPages(q)
  BY Zenon DEF Frames, TablePages, VmPages
<1>3. InFlight(p) = {} /\ InFlight(p)' = {pg}
  BY <1>1, MmapAssumption DEF InFlight
<1>4. \A q \in Procs \ {p} : InFlight(q)' = InFlight(q)
  BY Zenon DEF InFlight
<1>5. Held(p)' = Held(p) \cup {pg}
  BY <1>2, <1>3, Zenon DEF Held
<1>6. \A q \in Procs \ {p} : Held(q)' = Held(q)
  BY <1>2, <1>4, Zenon DEF Held
<1>7. \A q \in Procs : pg \notin Held(q) /\ pg \notin nodes /\ pg \notin VmPages(q)
  BY <1>1, Zenon DEF PagePartition, Held
<1>8. /\ \A x \in Pages : x \in free' \cup nodes' \/ \E q \in Procs : x \in Held(q)'
      /\ \A q \in Procs : Held(q)' \subseteq Pages
  BY <1>1, <1>5, <1>6 DEF PagePartition
<1>9. \A q \in Procs : Held(q)' \cap (free' \cup nodes') = {}
  BY <1>5, <1>6, <1>7 DEF PagePartition
<1>10. \A q \in Procs : VmPages(q)' \cap InFlight(q)' = {}
  BY <1>2, <1>3, <1>4, <1>7 DEF PagePartition
<1>11. \A q, r \in Procs : q # r => Held(q)' \cap Held(r)' = {}
  BY <1>5, <1>6, <1>7 DEF PagePartition
<1> QED
  BY <1>2, <1>8, <1>9, <1>10, <1>11, Zenon DEF PagePartition

\* create_vma() takes a page for the node.
LEMMA TakeNode ==
  ASSUME Inv, PagePartition, NEW pg \in Offered(free), free' = free \ {pg},
         nodes' = nodes \cup {pg}, UNCHANGED <<pte, tab>>,
         \A q \in Procs : loc'[q].page = loc[q].page
  PROVE  PagePartition'
<1>1. pg \in free /\ pg \in Pages
  BY ZenonT(40), OfferedFree DEF Inv, TypeOK
<1>2. \A q \in Procs : /\ Frames(q)' = Frames(q)
                       /\ TablePages(q)' = TablePages(q)
                       /\ InFlight(q)' = InFlight(q)
  BY Zenon DEF Frames, TablePages, InFlight
<1>3. \A q \in Procs : VmPages(q)' = VmPages(q) /\ Held(q)' = Held(q)
  BY <1>2, Zenon DEF VmPages, Held
<1>4. /\ \A x \in Pages : x \in free' \cup nodes' \/ \E q \in Procs : x \in Held(q)'
      /\ \A q \in Procs : Held(q)' \subseteq Pages
  BY <1>3 DEF PagePartition
<1>5. free' \cap nodes' = {}
  BY <1>1, Zenon DEF PagePartition
<1>6. \A q \in Procs : Held(q)' \cap (free' \cup nodes') = {}
  BY <1>1, <1>3 DEF PagePartition
<1> QED
  BY <1>2, <1>3, <1>4, <1>5, <1>6, Zenon DEF PagePartition

\* mappages() moves the page from the handler's hands into the page table of
\* r, and a new page table, if one is needed, from the free list into r.
LEMMA MovePage ==
  ASSUME Inv, PagePartition, NEW p \in Procs, NEW r \in Procs, NEW e, NEW t,
         loc[p].page \in Pages, e.pa = loc[p].page, loc'[p].page = None,
         \A q \in Procs \ {p} : loc'[q] = loc[q],
         pte' = [pte EXCEPT ![r] = @ \cup {e}],
         \/ UNCHANGED <<tab, free>>
         \/ /\ t.pa \in Offered(free)
            /\ tab' = [tab EXCEPT ![r] = @ \cup {t}]
            /\ free' = free \ {t.pa},
         UNCHANGED nodes
  PROVE  PagePartition'
<1> DEFINE pg == loc[p].page
<1>1. \A q \in Procs : q # r => /\ Frames(q)' = Frames(q)
                                /\ TablePages(q)' = TablePages(q)
                                /\ pte'[q] = pte[q] /\ tab'[q] = tab[q]
  BY Zenon DEF Frames, TablePages, Inv, TypeOK
<1>2. pte'[r] = pte[r] \cup {e} /\ Frames(r)' = Frames(r) \cup {pg}
  BY DEF Frames, Inv, TypeOK
<1>3. InFlight(p) = {pg} /\ InFlight(p)' = {}
  BY MmapAssumption DEF InFlight
<1>4. \A q \in Procs \ {p} : InFlight(q)' = InFlight(q)
  BY Zenon DEF InFlight
<1>5. \A q \in Procs : pg \notin VmPages(q) /\ pg \notin free /\ pg \notin nodes
  BY <1>3, Zenon DEF PagePartition, Held
<1> HIDE DEF pg
<1>6. \A x, y \in pte'[r] : x.pa = y.pa => x = y
  <2>1. \A x \in pte[r] : x.pa # pg
    BY <1>5, Zenon DEF VmPages, Frames
  <2> QED
    BY <1>2, <2>1 DEF PagePartition, pg
<1>7. CASE UNCHANGED <<tab, free>>
  <2>1. TablePages(r)' = TablePages(r) /\ tab'[r] = tab[r]
    BY <1>7, Zenon DEF TablePages
  <2>2. /\ VmPages(r)' = VmPages(r) \cup {pg}
        /\ \A q \in Procs : q # r => VmPages(q)' = VmPages(q)
    BY <1>1, <1>2, <2>1 DEF VmPages
  <2>3. \A q \in Procs : Held(q)' \subseteq Held(q) \cup {pg}
    BY <1>3, <1>4, <2>2, Zenon DEF Held
  <2>4. \A q \in Procs : q # r => pg \notin Held(q)'
    BY <1>3, <1>4, <1>5, <2>2 DEF Held, PagePartition
  <2>5. \A x \in Pages : \A q \in Procs : x \in Held(q) =>
                                            \E s \in Procs : x \in Held(s)'
    BY <1>3, <1>4, <2>2, Zenon DEF Held
  <2>6. \A x \in Pages : x \in free' \cup nodes' \/ \E q \in Procs : x \in Held(q)'
    BY <1>7, <2>5, Zenon DEF PagePartition
  <2>7. \A q \in Procs : Held(q)' \subseteq Pages
    BY <2>3 DEF PagePartition, pg
  <2>8. \A q \in Procs : Held(q)' \cap (free' \cup nodes') = {}
    BY <1>5, <1>7, <2>3 DEF PagePartition
  <2>9. \A q \in Procs : Frames(q)' \cap TablePages(q)' = {}
    BY <1>1, <1>2, <1>5, <2>1 DEF PagePartition, VmPages
  <2>10. \A q \in Procs : VmPages(q)' \cap InFlight(q)' = {}
    BY <1>3, <1>4, <1>5, <2>2 DEF PagePartition, Held
  <2>11. \A q, s \in Procs : q # s => Held(q)' \cap Held(s)' = {}
    BY <2>3, <2>4 DEF PagePartition
  <2> QED
    BY <1>1, <1>6, <1>7, <2>1, <2>6, <2>7, <2>8, <2>9, <2>10, <2>11, Zenon
    DEF PagePartition
<1>8. CASE /\ t.pa \in Offered(free)
           /\ tab' = [tab EXCEPT ![r] = @ \cup {t}]
           /\ free' = free \ {t.pa}
  <2> DEFINE tp == t.pa
  <2>1. tab'[r] = tab[r] \cup {t} /\ TablePages(r)' = TablePages(r) \cup {tp}
    BY <1>8 DEF TablePages, Inv, TypeOK
  <2>2. tp \in free /\ tp \in Pages /\ tp # pg
    <3>1. free \in SUBSET Pages
      BY Zenon DEF Inv, TypeOK
    <3>2. tp \in free /\ tp \in Pages
      BY <1>8, <3>1, OfferedFree, Zenon
    <3> QED
      BY <1>5, <3>2, Zenon
  <2>3. \A x, y \in tab'[r] : x.pa = y.pa => x = y
    <3>1. \A x \in tab[r] : x.pa # t.pa
      <4>1. \A x \in tab[r] : x.pa \in Held(r)
        BY Zenon DEF TablePages, VmPages, Held
      <4> QED
        BY <2>2, <4>1, Zenon DEF PagePartition
    <3> QED
      BY <2>1, <3>1, Zenon DEF PagePartition
  <2>4. free' = free \ {tp}
    BY <1>8, Zenon
  <2>5. \A q \in Procs : tp \notin Held(q) /\ tp \notin nodes
    BY <2>2, Zenon DEF PagePartition
  <2> HIDE DEF tp
  <2>6. /\ VmPages(r)' = VmPages(r) \cup {pg, tp}
        /\ \A q \in Procs : q # r => VmPages(q)' = VmPages(q)
    BY <1>1, <1>2, <2>1, Zenon DEF VmPages
  <2>7. \A q \in Procs : Held(q)' \subseteq Held(q) \cup {pg, tp}
    BY <1>3, <1>4, <2>6, Zenon DEF Held
  <2>8. \A q \in Procs : q # r => pg \notin Held(q)' /\ tp \notin Held(q)'
    BY <1>3, <1>4, <1>5, <2>5, <2>6 DEF Held, PagePartition
  <2>9. /\ tp \in Held(r)'
        /\ \A x \in Pages : \A q \in Procs : x \in Held(q) =>
                                               \E s \in Procs : x \in Held(s)'
    BY <1>3, <1>4, <2>6, Zenon DEF Held
  <2>10. \A x \in Pages : x \in free' \cup nodes' \/ \E q \in Procs : x \in Held(q)'
    BY <2>4, <2>9 DEF PagePartition
  <2>11. \A q \in Procs : Held(q)' \subseteq Pages
    BY <2>2, <2>7 DEF PagePartition, pg
  <2>12. \A q \in Procs : Held(q)' \cap (free' \cup nodes') = {}
    BY <1>5, <2>4, <2>5, <2>7 DEF PagePartition
  <2>13. \A q \in Procs : Frames(q)' \cap TablePages(q)' = {}
    BY <1>1, <1>2, <1>5, <2>1, <2>2, <2>5 DEF PagePartition, VmPages, Held
  <2>14. \A q \in Procs : VmPages(q)' \cap InFlight(q)' = {}
    BY <1>3, <1>4, <1>5, <2>5, <2>6 DEF PagePartition, Held
  <2>15. \A q, s \in Procs : q # s => Held(q)' \cap Held(s)' = {}
    BY <2>7, <2>8 DEF PagePartition
  <2> QED
    BY <1>1, <1>6, <2>3, <2>4, <2>10, <2>11, <2>12, <2>13, <2>14, <2>15, Zenon
    DEF PagePartition
<1> QED
  BY <1>7, <1>8, Zenon

\* A page that could not be mapped goes back to the free list.
LEMMA GiveBack ==
  ASSUME Inv, PagePartition, NEW p \in Procs,
         loc[p].page \in Pages, loc'[p].page = None,
         \A q \in Procs \ {p} : loc'[q] = loc[q],
         free' = free \cup {loc[p].page}, UNCHANGED <<pte, tab, nodes>>
  PROVE  PagePartition'
<1> DEFINE pg == loc[p].page
<1>1. \A q \in Procs : /\ Frames(q)' = Frames(q)
                       /\ TablePages(q)' = TablePages(q)
                       /\ VmPages(q)' = VmPages(q)
  BY Zenon DEF Frames, TablePages, VmPages
<1>2. InFlight(p) = {pg} /\ InFlight(p)' = {}
  BY MmapAssumption DEF InFlight
<1>3. \A q \in Procs \ {p} : InFlight(q)' = InFlight(q)
  BY Zenon DEF InFlight
<1>4. free' = free \cup {pg}
  BY Zenon
<1>5. \A q \in Procs : pg \notin VmPages(q) /\ pg \notin nodes
  BY <1>2 DEF PagePartition, Held
<1> HIDE DEF pg
<1>6. \A q \in Procs : Held(q)' \subseteq Held(q) /\ pg \notin Held(q)'
  BY <1>1, <1>2, <1>3, <1>5 DEF Held, PagePartition
<1>7. \A q \in Procs : Held(q) \subseteq Held(q)' \cup {pg}
  BY <1>1, <1>2, <1>3, Zenon DEF Held
<1>8. \A x \in Pages : x \in free' \cup nodes' \/ \E q \in Procs : x \in Held(q)'
  BY <1>4, <1>7, Zenon DEF PagePartition
<1>9. /\ \A q \in Procs : Held(q)' \subseteq Pages
      /\ \A q, s \in Procs : q # s => Held(q)' \cap Held(s)' = {}
  BY <1>6, Zenon DEF PagePartition
<1>10. /\ free' \cap nodes' = {}
       /\ \A q \in Procs : Held(q)' \cap (free' \cup nodes') = {}
  BY <1>4, <1>5, <1>6 DEF PagePartition
<1>11. \A q \in Procs : VmPages(q)' \cap InFlight(q)' = {}
  BY <1>1, <1>2, <1>3, Zenon DEF PagePartition
<1> QED
  BY <1>1, <1>8, <1>9, <1>10, <1>11, Zenon DEF PagePartition

\* freevm() returns everything an address space holds.
LEMMA FreeAll ==
  ASSUME Inv, PagePartition, NEW p \in Procs, FreeVm(p),
         UNCHANGED <<nodes, loc>>
  PROVE  PagePartition'
<1>1. \A q \in Procs : q # p => /\ Frames(q)' = Frames(q)
                                /\ TablePages(q)' = TablePages(q)
                                /\ pte'[q] = pte[q] /\ tab'[q] = tab[q]
  BY Zenon DEF FreeVm, Frames, TablePages, Inv, TypeOK
<1>2. /\ pte'[p] = {} /\ tab'[p] = {}
      /\ Frames(p)' = {} /\ TablePages(p)' = {}
  BY Zenon DEF FreeVm, Frames, TablePages, Inv, TypeOK
<1>3. \A q \in Procs : InFlight(q)' = InFlight(q)
  BY Zenon DEF InFlight
<1>4. free' = free \cup VmPages(p)
  BY Zenon DEF FreeVm
<1>5. /\ VmPages(p)' = {}
      /\ \A q \in Procs : q # p => VmPages(q)' = VmPages(q)
  BY <1>1, <1>2, Zenon DEF VmPages
<1>6. \A q \in Procs : q # p => Held(q)' = Held(q)
  BY <1>3, <1>5, Zenon DEF Held
<1>7. Held(p)' \subseteq Held(p) /\ Held(p) = Held(p)' \cup VmPages(p)
  BY <1>3, <1>5, Zenon DEF Held
<1>8. Held(p)' \cap VmPages(p) = {}
  BY <1>3, <1>5 DEF Held, PagePartition
<1>9. \A q \in Procs : q # p => Held(q)' \cap VmPages(p) = {}
  BY <1>6, Zenon DEF Held, PagePartition
<1>10. VmPages(p) \cap nodes = {}
  BY Zenon DEF Held, PagePartition
<1>11. \A x \in Pages : x \in free' \cup nodes' \/ \E q \in Procs : x \in Held(q)'
  BY <1>4, <1>6, <1>7 DEF PagePartition
<1>12. /\ \A q \in Procs : Held(q)' \subseteq Pages
       /\ \A q, s \in Procs : q # s => Held(q)' \cap Held(s)' = {}
  BY <1>6, <1>7 DEF PagePartition
<1>13. /\ free' \cap nodes' = {}
       /\ \A q \in Procs : Held(q)' \cap (free' \cup nodes') = {}
  BY <1>4, <1>6, <1>7, <1>8, <1>9, <1>10 DEF PagePartition
<1>14. \A q \in Procs : /\ VmPages(q)' \cap InFlight(q)' = {}
                        /\ Frames(q)' \cap TablePages(q)' = {}
  BY <1>1, <1>2, <1>3, <1>5, Zenon DEF PagePartition
<1> QED
  BY <1>1, <1>2, <1>11, <1>12, <1>13, <1>14, Zenon DEF PagePartition

\* Coming back from mappages(), the handler has nothing in its hands.
LEMMA AfterMapLoc ==
  ASSUME Inv, NEW p \in Procs, NEW grown, AfterMap(p, grown)
  PROVE  /\ loc'[p].page = None
         /\ \A q \in Procs \ {p} : loc'[q] = loc[q]
<1>1. CASE loc[p].op = "grow"
  BY <1>1, ReturnType, NoLocType DEF AfterMap, Inv, TypeOK
<1>2. CASE loc[p].op # "grow"
  BY <1>2 DEF AfterMap, Inv, TypeOK, LocType
<1> QED
  BY <1>1, <1>2, Zenon

\* The kernel stops, or a step changes only one process's control state.
LEMMA QuietStep ==
  ASSUME IndInv, NEW p \in Procs, UNCHANGED <<free, nodes, pte, tab>>,
         loc[p].page = None, loc'[p].page = None,
         \A q \in Procs \ {p} : loc'[q] = loc[q]
  PROVE  NoBogus' /\ PagePartition'
<1>1. \A q \in Procs : loc'[q].page = loc[q].page
  BY Zenon
<1>2. PagePartition'
  BY <1>1, SamePages, Zenon DEF IndInv
<1>3. NoBogus'
  BY <1>1, Zenon DEF IndInv, NoBogus
<1> QED
  BY <1>2, <1>3, Zenon

\* A stop keeps the partition.
LEMMA StopStep ==
  ASSUME IndInv, NEW why, Stop(why)
  PROVE  NoBogus' /\ PagePartition'
<1>1. PagePartition'
  BY SamePages, Zenon DEF IndInv, Stop
<1>2. NoBogus'
  BY Zenon DEF IndInv, Stop, NoBogus
<1> QED
  BY <1>1, <1>2, Zenon

\* A page is taken by the handler of p.
LEMMA TakeStep ==
  ASSUME IndInv, NEW p \in Procs, NEW pg \in Offered(free),
         loc[p].page = None, loc'[p].page = pg, free' = free \ {pg},
         \A q \in Procs \ {p} : loc'[q] = loc[q],
         UNCHANGED <<nodes, pte, tab>>
  PROVE  NoBogus' /\ PagePartition'
<1>1. PagePartition'
  BY TakePage, Zenon DEF IndInv
<1>2. free \in SUBSET Pages
  BY Zenon DEF IndInv, Inv, TypeOK
<1>3. pg # NoPage
  BY <1>2, OfferedFree, Zenon
<1>4. NoBogus'
  BY <1>3, Zenon DEF IndInv, NoBogus
<1> QED
  BY <1>1, <1>4, Zenon

\* mmap: the search, the loop and the guards.
LEMMA MmapStep ==
  ASSUME IndInv, NEW p \in Procs, Mmap(p)
  PROVE  NoBogus' /\ PagePartition'
<1>1. TypeOK /\ HandlerOK(p) /\ loc[p] \in LocType
  BY Zenon DEF IndInv, Inv, TypeOK, Control
<1>2. ASSUME NEW addr \in Addrs, NEW len \in Lens, NEW prot \in Prots,
             NEW flags \in FlagSets, SysMmap(p, addr, len, prot, flags)
      PROVE  NoBogus' /\ PagePartition'
  <2>1. CASE Stop("wild")
    BY <2>1, StopStep, Zenon
  <2>2. CASE ~ Stop("wild")
    <3>1. loc[p].page = None
      BY ZenonT(40), <1>1, <1>2 DEF SysMmap, InUser, At, HandlerOK
    <3>2. PICK pg \in Offered(free) : /\ free' = free \ {pg}
                                      /\ nodes' = nodes \cup {pg}
      BY ZenonT(40), <1>2, <2>2 DEF SysMmap
    <3> DEFINE k     == Slot(list[p], addr, len, flags)
               start == IF "FIXED" \in flags THEN addr
                        ELSE uint(list[p][k].end + 1)
               vma   == create_vma(list[p], k, start, len, prot, flags)
               v     == [op |-> "mmap", q |-> p, k |-> k, va |-> start,
                         end |-> vma.end, page |-> None,
                         repl |-> ReplacesHead(vma, flags)]
    <3>3. loc' = [loc EXCEPT ![p] = v] /\ v.page = None
      BY ZenonT(40), <1>2, <2>2 DEF SysMmap
    <3> HIDE DEF v
    <3>4. UNCHANGED <<pte, tab>>
      BY ZenonT(40), <1>2, <2>2 DEF SysMmap
    <3>5. \A q \in Procs : loc'[q].page = loc[q].page
      BY SMTT(30), <1>1, <3>1, <3>3 DEF TypeOK
    <3>6. PagePartition'
      BY SMTT(30), <3>2, <3>4, <3>5, TakeNode DEF IndInv
    <3>7. NoBogus'
      BY ZenonT(40), <3>5 DEF NoBogus, IndInv
    <3> QED
      BY SMTT(30), <3>6, <3>7
  <2> QED
    BY <2>1, <2>2, Zenon
<1>3. CASE MmapKalloc(p)
  <2>1. CASE Stop("kalloc")
    BY <2>1, StopStep, Zenon
  <2>2. CASE ~ Stop("kalloc")
    <3>1. PICK pg \in Offered(free) : /\ free' = free \ {pg}
                                      /\ loc' = [loc EXCEPT ![p].page = pg]
                                      /\ UNCHANGED <<nodes, pte, tab>>
      BY <1>3, <2>2, Zenon DEF MmapKalloc
    <3>2. loc[p].page = None
      BY <1>1, <1>3, Zenon DEF MmapKalloc, At, HandlerOK
    <3>3. loc'[p].page = pg /\ \A q \in Procs \ {p} : loc'[q] = loc[q]
      BY SMTT(30), <1>1, <3>1 DEF TypeOK, LocType
    <3> QED
      BY <3>1, <3>2, <3>3, TakeStep, Zenon
  <2> QED
    BY <2>1, <2>2, Zenon
<1>4. CASE MmapGuard(p)
  <2>1. loc[p].page = None
    BY <1>1, <1>4, Zenon DEF MmapGuard, At, HandlerOK
  <2>2. loc'[p].page = None /\ \A q \in Procs \ {p} : loc'[q] = loc[q]
    BY <1>1, <1>4, ReturnType, NoLocType DEF MmapGuard, TypeOK
  <2> QED
    BY ZenonT(40), <1>4, <2>1, <2>2, QuietStep DEF MmapGuard
<1> QED
  BY <1>2, <1>3, <1>4, Zenon DEF Mmap

\* mappages: the page is mapped, or given back.
LEMMA MapPagesStep ==
  ASSUME IndInv, NEW p \in Procs, MapPages(p)
  PROVE  NoBogus' /\ PagePartition'
<1>1. TypeOK /\ HandlerOK(p) /\ loc[p] \in LocType /\ Inv /\ PagePartition
  BY Zenon DEF IndInv, Inv, TypeOK, Control
<1>2. CASE MapRemap(p)
  BY ZenonT(40), <1>2, StopStep DEF MapRemap
<1>3. ASSUME At(p, "mappages") PROVE loc[p].page \in Pages /\ loc[p].q \in Procs
  BY <1>1, <1>3, Zenon DEF At, HandlerOK, IndInv, NoBogus, LocType
<1>4. ASSUME NEW grown, AfterMap(p, grown)
      PROVE  /\ NoBogus'
             /\ loc'[p].page = None
             /\ \A q \in Procs \ {p} : loc'[q] = loc[q]
  <2>1. /\ loc'[p].page = None
        /\ \A q \in Procs \ {p} : loc'[q] = loc[q]
    BY ZenonT(40), <1>1, <1>4, AfterMapLoc
  <2> QED
    BY <2>1, MmapAssumption, Zenon DEF IndInv, NoBogus
<1>5. CASE MapOk(p)
  <2> DEFINE r == loc[p].q
             va == loc[p].va
             e == [va |-> va, pa |-> loc[p].page, prot |-> list[p][MapNode(p)].prot]
  <2>1. /\ At(p, "mappages")
        /\ AfterMap(p, Grown(list[p], loc[p].k))
        /\ pte' = [pte EXCEPT ![r] = @ \cup {e}]
        /\ UNCHANGED <<killed, nodes, own, images>>
    BY ZenonT(40), <1>5 DEF MapOk
  <2>2. e.pa = loc[p].page /\ UNCHANGED nodes
    BY ZenonT(40), <2>1
  <2> HIDE DEF e
  <2>3. /\ NoBogus' /\ loc'[p].page = None
        /\ \A q \in Procs \ {p} : loc'[q] = loc[q]
    BY <1>4, <2>1, Zenon
  <2>4. loc[p].page \in Pages /\ r \in Procs
    BY <1>3, <2>1, Zenon
  <2> HIDE DEF r
  <2>5. CASE UNCHANGED <<tab, free>>
    <3>1. PagePartition'
      BY ZenonT(40), <1>1, <2>1, <2>2, <2>3, <2>4, <2>5, MovePage
    <3> QED
      BY SMTT(30), <3>1, <2>3
  <2>6. ASSUME NEW pg \in Offered(free),
               tab' = [tab EXCEPT ![r] = @ \cup {[n |-> TableOf(va), pa |-> pg]}],
               free' = free \ {pg}
        PROVE  NoBogus' /\ PagePartition'
    <3> DEFINE t == [n |-> TableOf(va), pa |-> pg]
    <3>1. t.pa = pg
      BY Zenon
    <3>2. /\ tab' = [tab EXCEPT ![r] = @ \cup {t}]
          /\ free' = free \ {t.pa} /\ t.pa \in Offered(free)
      BY SMTT(30), <2>6
    <3> HIDE DEF t
    <3>3. PagePartition'
      BY ZenonT(40), <1>1, <2>1, <2>2, <2>3, <2>4, <3>2, MovePage
    <3> QED
      BY <3>3, <2>3, Zenon
  <2>7. \/ UNCHANGED <<tab, free>>
        \/ \E pg \in Offered(free) :
             /\ tab' = [tab EXCEPT ![r] = @ \cup {[n |-> TableOf(va), pa |-> pg]}]
             /\ free' = free \ {pg}
    BY ZenonT(40), <1>5 DEF MapOk, r
  <2> QED
    BY <2>5, <2>6, <2>7, Zenon
<1>6. CASE MapFail(p)
  <2>1. CASE Stop("kfree")
    BY <2>1, StopStep, Zenon
  <2>2. CASE ~ Stop("kfree")
    <3>1. /\ At(p, "mappages")
          /\ AfterMap(p, list[p])
          /\ free' = free \cup {loc[p].page}
          /\ UNCHANGED <<pte, tab, nodes, own, images>>
      BY ZenonT(40), <1>6, <2>2 DEF MapFail
    <3>2. /\ NoBogus' /\ loc'[p].page = None
          /\ \A q \in Procs \ {p} : loc'[q] = loc[q]
      BY ZenonT(40), <1>4, <3>1
    <3>3. loc[p].page \in Pages
      BY <1>3, <3>1, Zenon
    <3>4. UNCHANGED <<pte, tab, nodes>>
      BY <3>1, Zenon
    <3>5. PagePartition'
      BY <1>1, <3>1, <3>2, <3>3, <3>4, GiveBack, Zenon
    <3> QED
      BY <3>2, <3>5, Zenon
  <2> QED
    BY <2>1, <2>2, Zenon
<1> QED
  BY <1>2, <1>5, <1>6, Zenon DEF MapPages

\* munmap moves no page, and neither does a fault until it takes one.
LEMMA MunmapMemoryStep ==
  ASSUME IndInv, NEW p \in Procs, Munmap(p) \/ Memory(p)
  PROVE  NoBogus' /\ PagePartition'
<1>1. TypeOK /\ HandlerOK(p) /\ loc[p] \in LocType
  BY Zenon DEF IndInv, Inv, TypeOK, Control
<1>2. ASSUME NEW addr \in Addrs, NEW len \in Lens, SysMunmap(p, addr, len)
      PROVE  NoBogus' /\ PagePartition'
  <2>1. CASE Stop("wild")
    BY <2>1, StopStep, Zenon
  <2>2. CASE ~ Stop("wild")
    <3>1. loc[p].page = None
      BY ZenonT(40), <1>1, <1>2 DEF SysMunmap, InUser, At, HandlerOK
    <3>2. PICK k \in Visited(list[p]) :
            /\ loc' = [loc EXCEPT ![p] = [NoLoc EXCEPT !.op = "munmap", !.q = p,
                         !.k = k, !.va = addr, !.end = uint(addr + len)]]
            /\ UNCHANGED <<free, nodes, pte, tab>>
      BY ZenonT(40), <1>2, <2>2 DEF SysMunmap
    <3>3. loc'[p].page = None /\ \A q \in Procs \ {p} : loc'[q] = loc[q]
      BY <1>1, <3>2, Zenon DEF TypeOK, NoLoc
    <3> QED
      BY SMTT(30), <3>1, <3>2, <3>3, QuietStep
  <2> QED
    BY <2>1, <2>2, Zenon
<1>3. CASE MunmapLoop(p)
  <2>1. CASE Stop("wild")
    BY <2>1, StopStep, Zenon
  <2>2. CASE ~ Stop("wild")
    <3>1. loc[p].page = None
      BY <1>1, <1>3, Zenon DEF MunmapLoop, At, HandlerOK
    <3>2. /\ loc' = [loc EXCEPT ![p].va = @ + PGSIZE]
          /\ UNCHANGED <<free, nodes, pte, tab>>
      BY <1>3, <2>2, Zenon DEF MunmapLoop
    <3>3. loc'[p].page = None /\ \A q \in Procs \ {p} : loc'[q] = loc[q]
      BY ZenonT(40), <1>1, <3>1, <3>2 DEF TypeOK, LocType
    <3> QED
      BY <3>1, <3>2, <3>3, QuietStep, Zenon
  <2> QED
    BY <2>1, <2>2, Zenon
<1>4. ASSUME pc[p] # "mappages", Return(p), UNCHANGED <<free, nodes, pte, tab>>
      PROVE  NoBogus' /\ PagePartition'
  <2>1. loc[p].page = None
    BY <1>1, <1>4, Zenon DEF HandlerOK
  <2>2. loc'[p].page = None /\ \A q \in Procs \ {p} : loc'[q] = loc[q]
    BY SMTT(30), <1>1, <1>4, ReturnType, NoLocType DEF TypeOK
  <2> QED
    BY <1>4, <2>1, <2>2, QuietStep, Zenon
<1>5. CASE MunmapReturn(p)
  BY ZenonT(40), <1>4, <1>5 DEF MunmapReturn, At
<1>6. ASSUME NEW a \in Touched, NEW w \in BOOLEAN, Access(p, a, w)
      PROVE  NoBogus' /\ PagePartition'
  <2>1. loc[p].page = None
    BY <1>1, <1>6, Zenon DEF Access, InUser, At, HandlerOK
  <2>2. loc' = [loc EXCEPT ![p] = [NoLoc EXCEPT !.op = "grow", !.q = p, !.va = a]]
    BY <1>6, Zenon DEF Access
  <2>3. loc'[p].page = None /\ \A q \in Procs \ {p} : loc'[q] = loc[q]
    BY SMTT(30), <1>1, <2>2 DEF TypeOK, NoLoc
  <2> QED
    BY <1>6, <2>1, <2>3, QuietStep, Zenon DEF Access
<1>7. CASE PageFault(p)
  <2>1. pc[p] = "fault" /\ loc[p].page = None
    BY ZenonT(40), <1>1, <1>7 DEF PageFault, At, HandlerOK
  <2>2. CASE FaultKill(p)
    BY ZenonT(40), <1>4, <2>1, <2>2 DEF FaultKill
  <2>3. ASSUME NEW why, Stop(why) PROVE NoBogus' /\ PagePartition'
    BY ZenonT(40), <2>3, StopStep
  <2>4. CASE UNCHANGED vars
    BY <2>1, <2>4, QuietStep, Zenon DEF vars
  <2>5. ASSUME NEW k, FaultGrow(p, k), ~ Stop("kalloc")
        PROVE  NoBogus' /\ PagePartition'
    <3>1. PICK pg \in Offered(free) :
            /\ free' = free \ {pg}
            /\ loc' = [loc EXCEPT ![p].k = k, ![p].page = pg,
                                  ![p].va = list[p][k].guardstart]
            /\ UNCHANGED <<nodes, pte, tab>>
      BY ZenonT(40), <2>5 DEF FaultGrow
    <3>2. loc'[p].page = pg /\ \A q \in Procs \ {p} : loc'[q] = loc[q]
      BY <1>1, <3>1, Zenon DEF TypeOK, LocType
    <3> QED
      BY ZenonT(40), <2>1, <3>1, <3>2, TakeStep
  <2> QED
    BY ZenonT(40), <1>7, <2>2, <2>3, <2>4, <2>5 DEF PageFault, FaultGrow
<1> QED
  BY <1>2, <1>3, <1>5, <1>6, <1>7, Zenon DEF Munmap, Memory

\* fork: one new frame per page of a private area; there are no others.
LEMMA ForkStep ==
  ASSUME NoShared, IndInv, NEW p \in Procs, ForkSteps(p)
  PROVE  NoBogus' /\ PagePartition'
<1>1. TypeOK /\ HandlerOK(p) /\ loc[p] \in LocType
  BY Zenon DEF IndInv, Inv, TypeOK, Control
<1>2. ASSUME NEW np \in Procs, Fork(p, np)
      PROVE  NoBogus' /\ PagePartition'
  <2>1. CASE Stop("wild")
    BY <2>1, StopStep, Zenon
  <2>2. CASE ~ Stop("wild")
    <3>1. loc[p].page = None
      BY <1>1, <1>2, Zenon DEF Fork, InUser, At, HandlerOK
    <3>2. /\ loc' = [loc EXCEPT ![p] = [NoLoc EXCEPT !.op = "fork", !.q = np,
                       !.k = 1, !.va = list[p][1].start]]
          /\ UNCHANGED <<free, nodes, pte, tab>>
      BY <1>2, <2>2, Zenon DEF Fork
    <3>3. loc'[p].page = None /\ \A q \in Procs \ {p} : loc'[q] = loc[q]
      BY <1>1, <3>2, Zenon DEF TypeOK, NoLoc
    <3> QED
      BY <3>1, <3>2, <3>3, QuietStep, Zenon
  <2> QED
    BY <2>1, <2>2, Zenon
<1>3. ~ ForkShared(p)
  <2>1. SUFFICES ASSUME ForkShared(p) PROVE FALSE
    BY Zenon
  <2>2. list[p][loc[p].k] \in VmaType
    BY <1>1, <2>1, NodeType, Zenon DEF ForkShared, Copying, Visited, TypeOK
  <2>3. list[p][loc[p].k].flags \in FlagSets \cup {{}}
    BY <2>2, Zenon DEF VmaType
  <2> QED
    BY <2>1, <2>3, Zenon DEF NoShared, ForkShared
<1>4. CASE ForkPrivate(p)
  <2>1. ASSUME NEW why, Stop(why) PROVE NoBogus' /\ PagePartition'
    BY <2>1, StopStep, Zenon
  <2>2. CASE ~ Stop("kalloc") /\ ~ Stop("wild")
    <3>1. PICK pg \in Offered(free) : /\ free' = free \ {pg}
                                      /\ loc' = [loc EXCEPT ![p].page = pg]
                                      /\ UNCHANGED <<nodes, pte, tab>>
      BY <1>4, <2>2, Zenon DEF ForkPrivate
    <3>2. loc[p].page = None
      BY <1>1, <1>4, Zenon DEF ForkPrivate, Copying, At, HandlerOK
    <3>3. loc'[p].page = pg /\ \A q \in Procs \ {p} : loc'[q] = loc[q]
      BY <1>1, <3>1, Zenon DEF TypeOK, LocType
    <3> QED
      BY <3>1, <3>2, <3>3, TakeStep, Zenon
  <2> QED
    BY <2>1, <2>2, Zenon
<1>5. CASE ForkNext(p)
  <2>1. loc[p].page = None
    BY <1>1, <1>5, Zenon DEF ForkNext, At, HandlerOK
  <2>2. /\ loc' = [loc EXCEPT ![p].k = @ + 1,
                              ![p].va = NextStart(list[p], loc[p].k)]
        /\ UNCHANGED <<free, nodes, pte, tab>>
    BY <1>5, Zenon DEF ForkNext
  <2>3. loc'[p].page = None /\ \A q \in Procs \ {p} : loc'[q] = loc[q]
    BY <1>1, <2>1, <2>2, Zenon DEF TypeOK, LocType
  <2> QED
    BY ZenonT(40), <2>1, <2>2, <2>3, QuietStep
<1>6. CASE ForkReturn(p)
  <2>1. loc[p].page = None
    BY <1>1, <1>6, Zenon DEF ForkReturn, At, HandlerOK
  <2>2. loc'[p].page = None /\ \A q \in Procs \ {p} : loc'[q] = loc[q]
    BY <1>1, <1>6, NoLocType, Zenon DEF ForkReturn, TypeOK
  <2> QED
    BY ZenonT(40), <1>6, <2>1, <2>2, QuietStep DEF ForkReturn
<1> QED
  BY <1>2, <1>3, <1>4, <1>5, <1>6, Zenon DEF ForkSteps

\* exec and wait give an address space back; exit keeps it.
LEMMA ProcStep ==
  ASSUME IndInv, NEW p \in Procs, ProcSteps(p)
  PROVE  NoBogus' /\ PagePartition'
<1>1. TypeOK /\ HandlerOK(p) /\ Inv /\ PagePartition
  BY Zenon DEF IndInv, Inv, Control
<1>2. CASE ForkByInit(p)
  <2>1. PagePartition'
    BY <1>1, <1>2, SamePages, Zenon DEF ForkByInit
  <2>2. NoBogus'
    BY <1>2, Zenon DEF ForkByInit, IndInv, NoBogus
  <2> QED
    BY <2>1, <2>2, Zenon
<1>3. CASE FreeVmStops(p)
  BY <1>3, StopStep, Zenon DEF FreeVmStops
<1>4. ASSUME FreeVmWorks(p), UNCHANGED <<nodes, loc>>
      PROVE  NoBogus' /\ PagePartition'
  <2>1. PagePartition'
    BY <1>1, <1>4, FreeAll, Zenon DEF FreeVmWorks
  <2>2. NoBogus'
    BY <1>4, Zenon DEF IndInv, NoBogus
  <2> QED
    BY <2>1, <2>2, Zenon
<1>5. CASE Exec(p)
  BY <1>3, <1>4, <1>5, Zenon DEF Exec
<1>6. CASE Exit(p)
  <2>1. loc[p].page = None
    BY <1>1, <1>6, Zenon DEF Exit, At, HandlerOK
  <2>2. loc'[p].page = None /\ \A q \in Procs \ {p} : loc'[q] = loc[q]
    BY <1>1, <1>6, NoLocType, Zenon DEF Exit, exit, TypeOK
  <2> QED
    BY SMTT(30), <1>6, <2>1, <2>2, QuietStep DEF Exit
<1>7. CASE Wait(p)
  BY <1>3, <1>4, <1>7, Zenon DEF Wait
<1> QED
  BY <1>2, <1>5, <1>6, <1>7, Zenon DEF ProcSteps

\* Initially every page is free.
LEMMA InitPartition == Init => NoBogus /\ PagePartition
<1> SUFFICES ASSUME Init PROVE NoBogus /\ PagePartition
  BY Zenon
<1>1. \A p \in Procs : loc[p].page = None
  BY NoLocType, Zenon DEF Init
<1>2. \A p \in Procs : /\ Frames(p) = {} /\ TablePages(p) = {}
                       /\ InFlight(p) = {} /\ pte[p] = {} /\ tab[p] = {}
  BY <1>1, MmapAssumption DEF Init, Frames, TablePages, InFlight
<1>3. \A p \in Procs : Held(p) = {} /\ VmPages(p) = {}
  BY <1>2, Zenon DEF Held, VmPages
<1>4. free = Pages /\ nodes = {}
  BY Zenon DEF Init
<1>5. PagePartition
  BY <1>2, <1>3, <1>4, Zenon DEF PagePartition
<1>6. NoBogus
  BY <1>1, MmapAssumption, Zenon DEF NoBogus
<1> QED
  BY <1>5, <1>6, Zenon

\* Freeing an address space is safe when pages have one use.
LEMMA FreeSafe ==
  ASSUME IndInv, NEW p \in Procs
  PROVE  ~ FreesBogus(p) /\ ~ FreesTwice(p)
<1>1. VmPages(p) \subseteq Pages /\ VmPages(p) \cap free = {}
  BY Zenon DEF IndInv, PagePartition, Held
<1>2. ~ FreesBogus(p)
  BY SMTT(30), <1>1, MmapAssumption DEF FreesBogus, VmPages
<1>3. ~ FreesTwice(p)
  BY <1>1, Zenon DEF FreesTwice, IndInv, PagePartition
<1> QED
  BY <1>2, <1>3, Zenon

\* No step frees a page that is free.
LEMMA KfreeSafeStep ==
  ASSUME IndInv, KfreeSafe, Next
  PROVE  KfreeSafe'
<1>1. TypeOK
  BY Zenon DEF IndInv, Inv
<1>2. ASSUME NEW why \in {"remap", "kalloc", "wild"}, Stop(why) PROVE KfreeSafe'
  BY <1>2, Zenon DEF Stop, KfreeSafe
<1>3. ASSUME UNCHANGED halt PROVE KfreeSafe'
  BY <1>3, Zenon DEF KfreeSafe
<1>4. ASSUME NEW p \in Procs, Return(p) PROVE UNCHANGED halt
  BY <1>1, <1>4, ReturnType, Zenon
<1>5. ASSUME NEW p \in Procs, NEW grown, AfterMap(p, grown)
      PROVE  UNCHANGED halt
  BY SMTT(30), <1>4, <1>5 DEF AfterMap
<1>6. ASSUME NEW p \in Procs, Mmap(p) PROVE KfreeSafe'
  BY <1>2, <1>3, <1>4, <1>6 DEF Mmap, SysMmap, MmapKalloc, MmapGuard
<1>7. ASSUME NEW p \in Procs, MapPages(p) PROVE KfreeSafe'
  <2>1. CASE MapRemap(p)
    BY SMTT(30), <1>2, <2>1 DEF MapRemap
  <2>2. CASE MapOk(p)
    BY ZenonT(40), <1>3, <1>5, <2>2 DEF MapOk
  <2>3. CASE MapFail(p)
    <3>1. loc[p].page # NoPage
      BY SMTT(30) DEF IndInv, NoBogus
    <3> QED
      BY ZenonT(40), <1>3, <1>5, <2>3, <3>1 DEF MapFail
  <2> QED
    BY <1>7, <2>1, <2>2, <2>3, Zenon DEF MapPages
<1>8. ASSUME NEW p \in Procs, Munmap(p) PROVE KfreeSafe'
  BY ZenonT(40), <1>2, <1>3, <1>4, <1>8 DEF Munmap, SysMunmap, MunmapLoop, MunmapReturn
<1>9. ASSUME NEW p \in Procs, Memory(p) PROVE KfreeSafe'
  BY ZenonT(40), <1>2, <1>3, <1>4, <1>9
  DEF Memory, Access, PageFault, FaultKill, FaultGrow, vars
<1>10. ASSUME NEW p \in Procs, ForkSteps(p) PROVE KfreeSafe'
  BY ZenonT(40), <1>2, <1>3, <1>10
  DEF ForkSteps, Fork, ForkShared, ForkPrivate, ForkNext, ForkReturn
<1>11. ASSUME NEW p \in Procs, ProcSteps(p) PROVE KfreeSafe'
  <2>1. ~ FreeVmStops(p)
    BY FreeSafe, Zenon DEF FreeVmStops
  <2> QED
    BY ZenonT(40), <1>3, <1>11, <2>1 DEF ProcSteps, ForkByInit, Exec, Exit, exit, Wait
<1>12. CASE Halted \/ Done
  BY <1>3, <1>12, Zenon DEF Halted, Done, vars
<1> QED
  BY <1>6, <1>7, <1>8, <1>9, <1>10, <1>11, <1>12, Zenon DEF Next

(***************************************************************************)
(* The theorems.                                                           *)
(***************************************************************************)
\* The page accounting invariant holds initially ...
LEMMA InitIndInv == Init => IndInv
BY InitInv, InitPartition, Zenon DEF IndInv

\* ... and every step keeps it.
LEMMA NextIndInv ==
  ASSUME NoShared
  PROVE  IndInv /\ [Next]_vars => IndInv'
<1> SUFFICES ASSUME IndInv, [Next]_vars PROVE IndInv'
  BY Zenon
<1>1. Inv'
  BY NextInv, Zenon DEF IndInv
<1>2. NoBogus' /\ PagePartition'
  <2>1. CASE UNCHANGED vars
    <3>1. PagePartition'
      BY <2>1, SamePages, Zenon DEF vars, IndInv
    <3>2. NoBogus'
      BY <2>1, Zenon DEF vars, IndInv, NoBogus
    <3> QED
      BY <3>1, <3>2, Zenon
  <2>2. CASE Halted \/ Done
    BY <2>1, <2>2, Zenon DEF Halted, Done
  <2>3. ASSUME NEW p \in Procs,
               \/ Mmap(p) \/ MapPages(p) \/ Munmap(p) \/ Memory(p)
               \/ ForkSteps(p) \/ ProcSteps(p)
        PROVE  NoBogus' /\ PagePartition'
    BY <2>3, MmapStep, MapPagesStep, MunmapMemoryStep, ForkStep, ProcStep,
       Zenon
  <2> QED
    BY <2>1, <2>2, <2>3, Zenon DEF Next
<1> QED
  BY <1>1, <1>2, Zenon DEF IndInv

\* Page accounting: when no program asks for MAP_SHARED, every physical page
\* has exactly one use in every reachable state, for any number of processes
\* and pages and any order in which kalloc() returns them.  The kernel never
\* loses a page on an error path of mmap, fork or the fault handler and never
\* hands one out twice.
THEOREM PagesAccounted == ASSUME NoShared PROVE Spec => []PagePartition
<1>1. IndInv => PagePartition
  BY Zenon DEF IndInv
<1> QED
  BY <1>1, InitIndInv, NextIndInv, PTL DEF Spec

\* No double free: when no program asks for MAP_SHARED, exec(), wait() and
\* the error paths never hand kfree() a page that is free or no page at all.
THEOREM KfreeIsSafe == ASSUME NoShared PROVE Spec => []KfreeSafe
<1>1. Init => IndInv /\ KfreeSafe
  <2>1. Init => KfreeSafe
    BY Zenon DEF Init, KfreeSafe
  <2> QED
    BY <2>1, InitIndInv, Zenon
<1>2. IndInv /\ KfreeSafe /\ [Next]_vars => IndInv' /\ KfreeSafe'
  <2>1. ASSUME KfreeSafe, UNCHANGED vars PROVE KfreeSafe'
    BY <2>1, Zenon DEF vars, KfreeSafe
  <2> QED
    BY <2>1, NextIndInv, KfreeSafeStep, Zenon
<1> QED
  BY <1>1, <1>2, PTL DEF Spec
===========================================================================
