---------------------------- MODULE MmapListOps ----------------------------
(***************************************************************************)
(* What sys_mmap, its mapping loop, the guard pages, the fault handler and *)
(* exec() do to one list and one page table, as lemmas about the operators *)
(* of Vma and the predicates of MmapInv.                                   *)
(***************************************************************************)
EXTENDS MmapInv, MmapTypes, WellFoundedInduction

(***************************************************************************)
(* Addresses, searches, and linking the new node.                          *)
(***************************************************************************)
\* A page address is a whole number of pages.
LEMMA AlignedIs ==
  ASSUME NEW x \in Int
  PROVE  Aligned(x) <=> x = PGSIZE * (x \div PGSIZE)
<1>1. PGSIZE \in Nat /\ PGSIZE > 0
  BY LayoutAssumption
<1> QED
  BY <1>1 DEF Aligned

\* A whole number of pages is a page address.
LEMMA Multiple ==
  ASSUME NEW a \in Int
  PROVE  Aligned(PGSIZE * a)
<1> DEFINE x == PGSIZE * a
           b == x \div PGSIZE
           r == x % PGSIZE
<1>1. PGSIZE \in Nat /\ PGSIZE > 0
  BY LayoutAssumption
<1>2. x \in Int /\ b \in Int /\ r \in 0..(PGSIZE - 1) /\ x = PGSIZE * b + r
  BY <1>1
<1> HIDE DEF b, r
<1>3. r = PGSIZE * (a - b)
  BY <1>1, <1>2
<1>4. a - b < 1
  BY <1>1, <1>2, <1>3
<1>5. a - b > -1
  BY <1>1, <1>2, <1>3
<1>6. r = 0
  BY <1>1, <1>2, <1>3, <1>4, <1>5
<1> QED
  BY <1>6, Zenon DEF r, Aligned

\* The next page starts at a page address.
LEMMA AlignedNext ==
  ASSUME NEW x \in Int, Aligned(x)
  PROVE  Aligned(x + PGSIZE)
<1> DEFINE d == x \div PGSIZE
<1>1. PGSIZE \in Nat /\ d \in Int /\ x = PGSIZE * d
  BY LayoutAssumption, AlignedIs
<1> HIDE DEF d
<1>2. x + PGSIZE = PGSIZE * (d + 1) /\ d + 1 \in Int
  BY <1>1
<1> QED
  BY <1>1, <1>2, Multiple, Zenon

\* Two page addresses are at least a page apart.
LEMMA AlignedApart ==
  ASSUME NEW x \in Int, NEW y \in Int, Aligned(x), Aligned(y), x < y
  PROVE  x + PGSIZE <= y
<1>1. PGSIZE \in Nat /\ PGSIZE > 0
  BY LayoutAssumption
<1> DEFINE a == x \div PGSIZE  b == y \div PGSIZE
<1>2. a \in Int /\ b \in Int
  BY <1>1
<1>3. x = PGSIZE * a /\ y = PGSIZE * b
  BY <1>1 DEF Aligned
<1> HIDE DEF a, b
<1>4. a < b
  BY <1>1, <1>2, <1>3
<1>5. a + 1 <= b
  BY <1>2, <1>4
<1>6. PGSIZE * (a + 1) <= PGSIZE * b
  BY <1>1, <1>2, <1>5
<1>7. PGSIZE * (a + 1) = x + PGSIZE
  BY <1>1, <1>2, <1>3
<1> QED
  BY <1>3, <1>6, <1>7, Zenon

\* A number in range survives the conversion to uint ...
LEMMA UintIs ==
  ASSUME NEW x \in Int, 0 <= x, x < WORD
  PROVE  uint(x) = x
<1>1. WORD \in Nat /\ WORD > 0
  BY LayoutAssumption DEF WORD
<1> HIDE DEF WORD
<1> QED
  BY <1>1 DEF uint

\* ... and to int.
LEMMA IntIs ==
  ASSUME NEW x \in Int, 0 <= x, x < MAX_ADDR
  PROVE  int(x) = x
<1>1. x < WORD
  BY LayoutAssumption DEF WORD
<1>2. uint(x) = x
  BY <1>1, UintIs, Zenon
<1> QED
  BY <1>2, LayoutAssumption DEF int

\* PGROUNDUP() goes to the next page address when nothing overflows.
LEMMA RoundUpIs ==
  ASSUME NEW x \in Int, 0 <= x, x + PGSIZE <= WORD
  PROVE  /\ PGROUNDUP(x) \in Int
         /\ Aligned(PGROUNDUP(x))
         /\ x <= PGROUNDUP(x) /\ PGROUNDUP(x) < x + PGSIZE
<1>1. PGSIZE \in Nat /\ PGSIZE > 0 /\ WORD \in Nat
  BY LayoutAssumption DEF WORD
<1> HIDE DEF WORD
<1> DEFINE y == x + PGSIZE - 1
<1>2. y \in Int /\ uint(y) = y
  BY <1>1, UintIs
<1> HIDE DEF y
<1>3. PGROUNDUP(x) = y - (y % PGSIZE)
  BY <1>2, Zenon DEF PGROUNDUP, y
<1>4. y % PGSIZE \in 0..(PGSIZE - 1)
  BY <1>1, <1>2
<1>5. Aligned(y - (y % PGSIZE))
  BY <1>1, <1>2 DEF Aligned
<1> QED
  BY <1>1, <1>2, <1>3, <1>4, <1>5 DEF y

\* The layout of the address space, without the alignment of its ends.
LEMMA Layout ==
  /\ MIN_ADDR \in Int /\ MAX_ADDR \in Int /\ PGSIZE \in Int
  /\ PGSIZE > 1 /\ PGSIZE + PGSIZE < MIN_ADDR /\ MIN_ADDR < MAX_ADDR
  /\ NOGUARD = MAX_ADDR + MAX_ADDR - 1
BY LayoutAssumption DEF NOGUARD, WORD

\* A set of indices has a first one.
LEMMA FirstIn ==
  ASSUME NEW S, S \subseteq Nat, S # {}
  PROVE  \E i \in S : \A j \in S : i <= j
<1>1. PICK x \in S : \A y \in S : ~ (<<y, x>> \in OpToRel(<, Nat))
  BY NatLessThanWellFounded, WFMin, Zenon
<1>2. \A y \in Nat : y < x => <<y, x>> \in OpToRel(<, Nat)
  <2> SUFFICES ASSUME NEW y \in Nat, y < x
               PROVE  <<y, x>> \in OpToRel(<, Nat)
    BY Zenon
  <2>1. <<y, x>> \in Nat \X Nat /\ <<y, x>>[1] = y /\ <<y, x>>[2] = x
    BY Zenon
  <2> QED
    BY <2>1, Zenon DEF OpToRel
<1>3. \A y \in S : y \in Nat /\ ~ (y < x)
  BY <1>1, <1>2, Zenon
<1>4. \A y \in S : x <= y
  BY <1>3
<1> QED
  BY <1>4, Zenon

\* The walk of a list stops at the first node it may stop at.
LEMMA FirstOfIs ==
  ASSUME NEW S, S \subseteq Nat, FirstOf(S) # 0
  PROVE  FirstOf(S) \in S /\ \A j \in S : FirstOf(S) <= j
<1> DEFINE first == {k \in S : \A j \in S : k <= j}
<1>1. FirstOf(S) = IF first = {} THEN 0 ELSE CHOOSE k \in first : TRUE
  BY Zenon DEF FirstOf
<1>2. FirstOf(S) \in first
  BY <1>1, Zenon
<1> QED
  BY <1>2, Zenon

\* Order of addresses.
LEMMA LeLt == \A a, b, c \in Int : a <= b /\ b < c => a < c
OBVIOUS

\* The same with the strict comparison first.
LEMMA LtLe == \A a, b, c \in Int : a < b /\ b <= c => a < c
OBVIOUS

\* The numbers in a node.
LEMMA NodeInts ==
  ASSUME NEW l \in Seq(VmaType), NEW k \in 1..Len(l)
  PROVE  /\ l[k] \in VmaType
         /\ l[k].start \in Int /\ l[k].end \in Int
         /\ l[k].space_after \in Int /\ l[k].guardstart \in Int
<1>1. l[k] \in VmaType
  OBVIOUS
<1> QED
  BY <1>1, Zenon DEF VmaType

\* It looks at every node of a sane list.
LEMMA AllVisited ==
  ASSUME NEW l \in Seq(VmaType), Sane(l)
  PROVE  Visited(l) = 1..Len(l)
<1>1. \A k \in 1..Len(l) : l[k].start # MAX_ADDR
  <2> SUFFICES ASSUME NEW k \in 1..Len(l) PROVE l[k].start # MAX_ADDR
    BY Zenon
  <2>1. l[k].start \in Int /\ l[k].end \in Int
    BY NodeInts, Zenon
  <2>2. NodeOK(l[k]) /\ (k = 1 => l[k].start = MIN_ADDR)
        /\ (k >= 2 => NonEmpty(l[k]))
    BY DEF Sane, InOrder
  <2>3. k = 1 \/ k >= 2
    OBVIOUS
  <2> QED
    BY <2>1, <2>2, <2>3, LayoutAssumption DEF NodeOK, NonEmpty
<1>2. Len(l) \in Nat
  OBVIOUS
<1> QED
  BY <1>1, <1>2 DEF Visited

\* Where the gap behind a node of a sane list ends.
LEMMA NextStartIs ==
  ASSUME NEW l \in Seq(VmaType), Sane(l), NEW k \in 1..Len(l)
  PROVE  /\ NextStart(l, k) \in Int
         /\ l[k].end < NextStart(l, k) /\ NextStart(l, k) <= MAX_ADDR
         /\ Aligned(NextStart(l, k))
<1>1. CASE k < Len(l)
  <2>1. k + 1 \in 1..Len(l) /\ k + 1 \in 2..Len(l) /\ k < k + 1
    BY <1>1
  <2>2. NextStart(l, k) = l[k + 1].start
    BY <1>1, Zenon DEF NextStart
  <2>3. l[k + 1].start \in Int /\ l[k + 1].end \in Int
    BY <2>1, NodeInts, Zenon
  <2>4. NodeOK(l[k + 1]) /\ NonEmpty(l[k + 1]) /\ l[k].end < l[k + 1].start
    BY <2>1, Zenon DEF Sane, InOrder
  <2> QED
    BY <2>2, <2>3, <2>4, LayoutAssumption DEF NodeOK, NonEmpty
<1>2. CASE ~ (k < Len(l))
  <2>1. NextStart(l, k) = MAX_ADDR
    BY <1>2, Zenon DEF NextStart
  <2>2. NodeOK(l[k])
    BY Zenon DEF Sane, InOrder
  <2> QED
    BY <2>1, <2>2, LayoutAssumption DEF NodeOK, Aligned
<1> QED
  BY <1>1, <1>2, Zenon

\* The end create_vma computes: length, rounded up to pages, behind start.
LEMMA NewEnd ==
  ASSUME NEW start \in Int, NEW len \in Nat,
         MIN_ADDR <= start, start <= MAX_ADDR, len < MAX_ADDR - MIN_ADDR,
         NEW end, end = uint(PGROUNDUP(start + len) - 1), len > 0
  PROVE  /\ end \in Int /\ Aligned(end + 1)
         /\ start + len <= end + 1
<1>1. /\ PGSIZE \in Nat /\ MIN_ADDR \in Nat /\ MAX_ADDR \in Nat
      /\ 4 * PGSIZE < MIN_ADDR /\ PGSIZE > 1 /\ WORD = MAX_ADDR + MAX_ADDR
  BY LayoutAssumption DEF WORD
<1> DEFINE x == start + len
           r == PGROUNDUP(x)
<1>2. x \in Int /\ 0 < x /\ x + PGSIZE <= WORD
  BY <1>1
<1>3. r \in Int /\ Aligned(r) /\ x <= r /\ r < x + PGSIZE
  BY <1>2, RoundUpIs
<1> HIDE DEF x, r
<1>4. r - 1 \in Int /\ 0 <= r - 1 /\ r - 1 < WORD
  BY <1>1, <1>2, <1>3
<1>5. end = r - 1
  BY <1>4, UintIs, Zenon DEF r, x
<1>6. end + 1 = r
  BY <1>3, <1>5
<1> QED
  BY <1>3, <1>5, <1>6 DEF x

\* The nodes behind node k.
LEMMA RestNodes ==
  ASSUME NEW l \in Seq(VmaType), NEW k \in 1..Len(l),
         NEW rest, rest = SubSeq(l, k + 1, Len(l))
  PROVE  /\ rest \in Seq(VmaType) /\ Len(rest) = Len(l) - k
         /\ \A i \in 1..(Len(l) - k) : rest[i] = l[k + i]
OBVIOUS

\* The list nl is l with vma linked behind node k.
LinkedShape(l, k, vma, len, nl) ==
  /\ nl \in Seq(VmaType)
  /\ Len(nl) = Len(l) + 1
  /\ \A i \in 1..(k - 1) : nl[i] = l[i]
  /\ nl[k] = [l[k] EXCEPT !.space_after = int(@ - len)]
  /\ nl[k + 1] = vma
  /\ \A i \in (k + 2)..(Len(l) + 1) : nl[i] = l[i - 1]

\* What sys_mmap makes of the list when it does not replace the head.
LEMMA LinkedNodes ==
  ASSUME NEW l \in Seq(VmaType), NEW k \in 1..Len(l), NEW vma \in VmaType,
         NEW len \in Int, NEW nl, nl = Linked(l, k, vma, len),
         ~ ReplacesHead(vma, vma.flags)
  PROVE  LinkedShape(l, k, vma, len, nl)
<1> DEFINE rest == SubSeq(l, k + 1, Len(l))
           first == SubSeq(l, 1, k)
           upd == [l[k] EXCEPT !.space_after = int(@ - len)]
           changed == [first EXCEPT ![k] = upd]
<1>1. /\ rest \in Seq(VmaType) /\ Len(rest) = Len(l) - k
      /\ \A i \in 1..(Len(l) - k) : rest[i] = l[k + i]
  BY RestNodes, Zenon
<1>2. /\ first \in Seq(VmaType) /\ Len(first) = k
      /\ \A i \in 1..k : first[i] = l[i]
  OBVIOUS
<1>3. k \in 1..k /\ first[k] = l[k]
  BY <1>2
<1>4. [first EXCEPT ![k].space_after = int(@ - len)] = changed
  BY <1>3, Zenon
<1>5. nl = (changed \o <<vma>>) \o rest
  BY <1>4, Zenon DEF Linked
<1>6. nl \in Seq(VmaType) /\ Len(nl) = Len(l) + 1
  BY LinkedType, Zenon
<1> HIDE DEF rest, upd
<1>7. upd \in VmaType
  <2>1. l[k] \in VmaType /\ l[k].space_after \in Int
    BY NodeInts, Zenon
  <2>2. l[k].space_after - len \in Int
    BY <2>1
  <2>3. int(l[k].space_after - len) \in Int
    BY <2>2, IntType, Zenon
  <2> QED
    BY <2>1, <2>3, Zenon DEF VmaType, upd
<1> HIDE DEF first
<1>8. /\ changed \in Seq(VmaType) /\ Len(changed) = k /\ changed[k] = upd
      /\ \A i \in 1..(k - 1) : changed[i] = l[i]
  <2>1. \A i \in 1..(k - 1) : i \in 1..k /\ i # k
    OBVIOUS
  <2> QED
    BY <1>2, <1>3, <1>7, <2>1
<1> HIDE DEF changed
<1> DEFINE upto == changed \o <<vma>>
<1>9. /\ upto \in Seq(VmaType) /\ Len(upto) = k + 1
      /\ \A i \in 1..k : upto[i] = changed[i]
      /\ upto[k + 1] = vma
  BY <1>8
<1> HIDE DEF upto
<1>10. nl = upto \o rest
  BY <1>5, Zenon DEF upto
<1>11. \A i \in 1..(k + 1) : nl[i] = upto[i]
  BY <1>1, <1>9, <1>10
<1>12. \A i \in (k + 2)..(Len(l) + 1) : nl[i] = rest[i - (k + 1)]
  BY <1>1, <1>9, <1>10
<1>13. \A i \in (k + 2)..(Len(l) + 1) : nl[i] = l[i - 1]
  <2> SUFFICES ASSUME NEW i \in (k + 2)..(Len(l) + 1) PROVE nl[i] = l[i - 1]
    BY Zenon
  <2>1. i - (k + 1) \in 1..(Len(l) - k) /\ k + (i - (k + 1)) = i - 1
    OBVIOUS
  <2> QED
    BY <1>1, <1>12, <2>1, Zenon
<1>14. \A i \in 1..(k - 1) : nl[i] = l[i]
  BY <1>8, <1>9, <1>11
<1>15. nl[k] = upd
  BY <1>8, <1>9, <1>11
<1>16. nl[k + 1] = vma
  BY <1>9, <1>11
<1> QED
  BY <1>6, <1>13, <1>14, <1>15, <1>16, Zenon DEF upd, LinkedShape

\* The nodes of the list once the head is replaced.
LEMMA ReplacedNodes ==
  ASSUME NEW l \in Seq(VmaType), NEW k \in 1..Len(l), k = 1,
         NEW vma \in VmaType, NEW len \in Int,
         NEW nl, nl = Linked(l, k, vma, len), ReplacesHead(vma, vma.flags)
  PROVE  /\ nl \in Seq(VmaType)
         /\ Len(nl) = Len(l)
         /\ nl[1] = vma
         /\ \A i \in 2..Len(l) : nl[i] = l[i]
<1> DEFINE rest == SubSeq(l, k + 1, Len(l))
<1>1. /\ rest \in Seq(VmaType) /\ Len(rest) = Len(l) - k
      /\ \A i \in 1..(Len(l) - k) : rest[i] = l[k + i]
  BY RestNodes, Zenon
<1>2. nl = <<vma>> \o rest
  BY Zenon DEF Linked
<1>3. nl \in Seq(VmaType) /\ Len(nl) = Len(l)
  <2>1. Len(nl) = Len(l) - k + 1
    BY LinkedType, Zenon
  <2> QED
    BY <2>1, LinkedType
<1> HIDE DEF rest
<1>4. nl[1] = vma
  BY <1>1, <1>2
<1>5. \A i \in 2..Len(l) : nl[i] = rest[i - 1]
  BY <1>1, <1>2
<1>6. \A i \in 2..Len(l) : i - 1 \in 1..(Len(l) - k) /\ k + (i - 1) = i
  OBVIOUS
<1> QED
  BY <1>1, <1>3, <1>4, <1>5, <1>6, Zenon

\* Linking a node that fits into the gap behind node k keeps the list sane.
LEMMA InsertSane ==
  ASSUME NEW l \in Seq(VmaType), Sane(l), NEW k \in 1..Len(l),
         NEW vma \in VmaType, NEW len \in Nat, len > 0,
         l[k].space_after > len,
         Aligned(vma.start), Aligned(vma.end + 1),
         l[k].end < vma.start, vma.start + len <= vma.end + 1,
         vma.end < NextStart(l, k),
         vma.space_after = NextStart(l, k) - vma.end, vma.guardstart = JUNK,
         ~ ReplacesHead(vma, vma.flags),
         NEW nl, nl = Linked(l, k, vma, len)
  PROVE  Sane(nl)
<1> DEFINE next == NextStart(l, k)
           upd == [l[k] EXCEPT !.space_after = int(@ - len)]
           old(i) == IF i <= k THEN i ELSE i - 1
<1>0. Len(l) \in Nat /\ k \in Int
  OBVIOUS
<1>1. /\ nl \in Seq(VmaType)
      /\ Len(nl) = Len(l) + 1
      /\ \A i \in 1..(k - 1) : nl[i] = l[i]
      /\ nl[k] = upd
      /\ nl[k + 1] = vma
      /\ \A i \in (k + 2)..(Len(l) + 1) : nl[i] = l[i - 1]
  <2>0. len \in Int
    OBVIOUS
  <2>1. LinkedShape(l, k, vma, len, nl)
    BY <2>0, LinkedNodes, Zenon
  <2> QED
    BY <2>1, Zenon DEF LinkedShape
<1>2. /\ \A i \in 1..Len(l) : NodeOK(l[i])
      /\ \A i \in 2..Len(l) : NonEmpty(l[i])
      /\ \A i, j \in 1..Len(l) : i < j => l[i].end < l[j].start
      /\ l[1].start = MIN_ADDR
      /\ \A i \in 2..Len(l) : RoomAt(l, i)
      /\ RoomAtHead(l)
  BY Zenon DEF Sane, InOrder
<1>3. next \in Int /\ l[k].end < next /\ next <= MAX_ADDR
  BY NextStartIs, Zenon
<1>4. /\ l[k] \in VmaType /\ l[k].start \in Int /\ l[k].end \in Int
      /\ l[k].space_after \in Int /\ l[k].guardstart \in Int
  BY NodeInts, Zenon
<1>5. /\ vma.start \in Int /\ vma.end \in Int /\ vma.space_after \in Int
      /\ vma.guardstart \in Int
  BY Zenon DEF VmaType
<1>6. MIN_ADDR <= l[k].start /\ l[k].start <= l[k].end + 1
      /\ l[k].space_after <= MAX_ADDR - MIN_ADDR
  BY <1>2, Zenon DEF NodeOK
<1>7. int(l[k].space_after - len) = l[k].space_after - len
  <2>1. /\ l[k].space_after - len \in Int /\ 0 <= l[k].space_after - len
        /\ l[k].space_after - len < MAX_ADDR
    BY <1>4, <1>6, Layout
  <2> QED
    BY <2>1, IntIs, Zenon
<1>8. /\ upd.start = l[k].start /\ upd.end = l[k].end
      /\ upd.guardstart = l[k].guardstart
      /\ upd.space_after = l[k].space_after - len
  BY <1>4, <1>7, Zenon DEF VmaType
<1> HIDE DEF upd
<1>9. NodeOK(upd)
  <2>1. NodeOK(l[k]) /\ l[k].space_after - len <= MAX_ADDR - MIN_ADDR
    BY <1>2, <1>4, <1>6, Layout
  <2> QED
    BY <1>8, <2>1, Zenon DEF NodeOK
<1>10. NodeOK(vma) /\ NonEmpty(vma)
  <2>1. MIN_ADDR <= vma.start
    <3>1. \A a, b, c \in Int : MIN_ADDR <= a /\ a <= b + 1 /\ b < c
                              => MIN_ADDR <= c
      BY Layout
    <3> QED
      BY <3>1, <1>4, <1>5, <1>6, Zenon
  <2>2. vma.start <= vma.end + 1 /\ vma.start <= vma.end
    <3>1. \A a, b \in Int : a + len <= b + 1 => a <= b + 1 /\ a <= b
      OBVIOUS
    <3> QED
      BY <3>1, <1>5, Zenon
  <2>3. vma.end < MAX_ADDR
    BY <1>3, <1>5, LtLe, Layout, Zenon
  <2>4. vma.space_after <= MAX_ADDR - MIN_ADDR
    <3>1. \A a, b, c \in Int : MIN_ADDR <= a /\ a <= b /\ c <= MAX_ADDR
                              => c - b <= MAX_ADDR - MIN_ADDR
      BY Layout
    <3> QED
      BY <3>1, <2>1, <2>2, <1>3, <1>5, Zenon
  <2> QED
    BY <2>1, <2>2, <2>3, <2>4, Zenon DEF NodeOK, NonEmpty
<1>11. ASSUME NEW i \in 1..Len(nl), i # k + 1
       PROVE  /\ old(i) \in 1..Len(l)
              /\ nl[i].start = l[old(i)].start /\ nl[i].end = l[old(i)].end
              /\ NodeOK(nl[i])
  <2>1. i < k \/ i = k \/ i > k + 1
    BY <1>1, <1>11
  <2>2. CASE i < k
    <3>1. i \in 1..(k - 1) /\ i \in 1..Len(l) /\ old(i) = i
      BY <2>2, <1>1
    <3> QED
      BY <3>1, <1>1, <1>2, Zenon
  <2>3. CASE i = k
    BY <2>3, <1>1, <1>8, <1>9
  <2>4. CASE i > k + 1
    <3>1. i \in (k + 2)..(Len(l) + 1) /\ i - 1 \in 1..Len(l) /\ old(i) = i - 1
      BY <2>4, <1>1
    <3> QED
      BY <3>1, <1>1, <1>2, Zenon
  <2> QED
    BY <2>1, <2>2, <2>3, <2>4, Zenon
<1>12. InOrder(nl)
  <2>1. nl[1].start = MIN_ADDR
    <3>1. 1 \in 1..Len(nl) /\ 1 # k + 1 /\ old(1) = 1
      BY <1>1
    <3> QED
      BY <3>1, <1>11, <1>2, Zenon
  <2>2. \A i \in 1..Len(nl) : NodeOK(nl[i])
    <3> SUFFICES ASSUME NEW i \in 1..Len(nl) PROVE NodeOK(nl[i])
      BY Zenon
    <3>1. CASE i = k + 1
      BY <3>1, <1>1, <1>10, Zenon
    <3>2. CASE i # k + 1
      BY <3>2, <1>11, Zenon
    <3> QED
      BY <3>1, <3>2, Zenon
  <2>3. \A i \in 2..Len(nl) : NonEmpty(nl[i])
    <3> SUFFICES ASSUME NEW i \in 2..Len(nl) PROVE NonEmpty(nl[i])
      BY Zenon
    <3>1. CASE i = k + 1
      BY <3>1, <1>1, <1>10, Zenon
    <3>2. CASE i # k + 1
      <4>1. i \in 1..Len(nl) /\ old(i) \in 2..Len(l)
        BY <3>2, <1>1, <1>0
      <4>2. nl[i].start = l[old(i)].start /\ nl[i].end = l[old(i)].end
        BY <4>1, <3>2, <1>11, Zenon
      <4>3. NonEmpty(l[old(i)])
        BY <4>1, <1>2, Zenon
      <4> QED
        BY <4>2, <4>3, Zenon DEF NonEmpty
    <3> QED
      BY <3>1, <3>2, Zenon
  <2>4. \A i, j \in 1..Len(nl) : i < j => nl[i].end < nl[j].start
    <3> SUFFICES ASSUME NEW i \in 1..Len(nl), NEW j \in 1..Len(nl), i < j
                 PROVE  nl[i].end < nl[j].start
      BY Zenon
    <3>1. CASE i # k + 1 /\ j # k + 1
      <4>1. /\ nl[i].end = l[old(i)].end /\ nl[j].start = l[old(j)].start
            /\ old(i) \in 1..Len(l) /\ old(j) \in 1..Len(l)
        BY <3>1, <1>11, Zenon
      <4>2. old(i) < old(j)
        BY <3>1, <1>1, <1>0
      <4> QED
        BY <4>1, <4>2, <1>2, Zenon
    <3>2. CASE j = k + 1
      <4>1. i # k + 1 /\ old(i) = i /\ i <= k /\ nl[j].start = vma.start
        BY <3>2, <1>1, <1>0
      <4>2. i \in 1..Len(l) /\ nl[i].end = l[i].end
        BY <4>1, <1>11, Zenon
      <4>3. l[i].end <= l[k].end
        <5>1. CASE i = k
          BY <5>1, <1>4
        <5>2. CASE i < k
          <6>1. l[i].end < l[k].start /\ l[i].end \in Int
            BY <5>2, <4>2, <1>2, NodeInts, Zenon
          <6>2. NonEmpty(l[k])
            BY <5>2, <4>2, <1>2, <1>0
          <6> QED
            BY <6>1, <6>2, <1>4 DEF NonEmpty
        <5> QED
          BY <5>1, <5>2, <4>1, <1>0
      <4>4. l[i].end \in Int
        BY <4>2, NodeInts, Zenon
      <4>5. l[i].end < vma.start
        BY <4>3, <4>4, <1>4, <1>5, LeLt, Zenon
      <4> QED
        BY <4>1, <4>2, <4>5, Zenon
    <3>3. CASE i = k + 1
      <4>1. /\ j # k + 1 /\ old(j) = j - 1 /\ k < j - 1 /\ nl[i].end = vma.end
        BY <3>3, <1>1, <1>0
      <4>2. j - 1 \in 1..Len(l) /\ nl[j].start = l[j - 1].start
        BY <4>1, <1>11, Zenon
      <4>3. k < Len(l) /\ k + 1 \in 2..Len(l) /\ k + 1 \in 1..Len(l)
            /\ next = l[k + 1].start
        BY <4>1, <4>2, <1>0 DEF NextStart
      <4>4. l[k + 1].start <= l[j - 1].start
        <5>1. l[j - 1].start \in Int /\ l[k + 1].start \in Int
              /\ l[k + 1].end \in Int
          BY <4>2, <4>3, NodeInts, Zenon
        <5>2. CASE k + 1 = j - 1
          BY <5>1, <5>2
        <5>3. CASE k + 1 < j - 1
          <6>1. l[k + 1].end < l[j - 1].start /\ NonEmpty(l[k + 1])
            BY <5>3, <4>2, <4>3, <1>2, Zenon
          <6> QED
            BY <6>1, <5>1 DEF NonEmpty
        <5> QED
          BY <5>2, <5>3, <4>1, <1>0
      <4>5. l[j - 1].start \in Int
        BY <4>2, NodeInts, Zenon
      <4>6. vma.end < l[k + 1].start /\ l[k + 1].start \in Int
        BY <4>3, NodeInts, Zenon
      <4>7. vma.end < l[j - 1].start
        BY <4>4, <4>5, <4>6, <1>5, LtLe, Zenon
      <4> QED
        BY <4>1, <4>2, <4>7, Zenon
    <3> QED
      BY <3>1, <3>2, <3>3, Zenon
  <2> QED
    BY <2>1, <2>2, <2>3, <2>4, Zenon DEF InOrder
<1>13. \A i \in 2..Len(nl) : RoomAt(nl, i)
  <2> SUFFICES ASSUME NEW i \in 2..Len(nl) PROVE RoomAt(nl, i)
    BY Zenon
  <2>1. CASE i = k + 1
    <3>1. NextStart(nl, i) = next
      <4>1. CASE k < Len(l)
        <5>1. k + 2 \in (k + 2)..(Len(l) + 1) /\ (k + 2) - 1 = k + 1
          BY <4>1, <1>0
        <5>2. nl[k + 2] = l[k + 1]
          BY <5>1, <1>1, Zenon
        <5> QED
          BY <4>1, <5>2, <2>1, <1>1, <1>0 DEF NextStart
      <4>2. CASE k = Len(l)
        BY <4>2, <2>1, <1>1 DEF NextStart
      <4> QED
        BY <4>1, <4>2, <1>0
    <3>2. nl[i] = vma
      BY <2>1, <1>1, Zenon
    <3>3. vma.space_after >= next - vma.end
      <4>1. \A a, b, c \in Int : a = b - c => a >= b - c
        OBVIOUS
      <4> QED
        BY <4>1, <1>3, <1>5, Zenon
    <3> QED
      BY <3>1, <3>2, <3>3, Zenon DEF RoomAt
  <2>2. CASE i = k
    <3>1. NextStart(nl, i) = vma.start /\ nl[i] = upd
      BY <2>2, <1>1, <1>0 DEF NextStart
    <3>2. k \in 2..Len(l)
      BY <2>2, <1>0
    <3>3. l[k].space_after >= next - l[k].end
      BY <3>2, <1>2, Zenon DEF RoomAt
    <3>4. \A ks, ke, vs, ve, n \in Int :
            /\ ks >= n - ke /\ vs + len <= ve + 1 /\ ve < n
            => ks - len >= vs - ke
      OBVIOUS
    <3>5. l[k].space_after - len >= vma.start - l[k].end
      BY <3>3, <3>4, <1>3, <1>4, <1>5, Zenon
    <3> QED
      BY <3>1, <3>5, <1>8, Zenon DEF RoomAt
  <2>3. CASE i < k
    <3>1. i \in 2..Len(l) /\ i \in 1..(k - 1) /\ i + 1 \in 1..Len(nl)
          /\ i + 1 # k + 1 /\ old(i + 1) = i + 1 /\ i < Len(l) /\ i < Len(nl)
      BY <2>3, <1>0, <1>1
    <3>2. nl[i] = l[i]
      BY <3>1, <1>1, Zenon
    <3>3. nl[i + 1].start = l[i + 1].start
      BY <3>1, <1>11, Zenon
    <3>4. NextStart(nl, i) = NextStart(l, i)
      BY <3>1, <3>3, Zenon DEF NextStart
    <3> QED
      BY <3>1, <3>2, <3>4, <1>2, Zenon DEF RoomAt
  <2>4. CASE i > k + 1
    <3>1. i - 1 \in 2..Len(l) /\ i \in (k + 2)..(Len(l) + 1)
      BY <2>4, <1>0, <1>1
    <3>2. nl[i] = l[i - 1]
      BY <3>1, <1>1, Zenon
    <3>3. NextStart(nl, i) = NextStart(l, i - 1)
      <4>1. CASE i < Len(nl)
        <5>1. i + 1 \in (k + 2)..(Len(l) + 1) /\ (i + 1) - 1 = i
              /\ i - 1 < Len(l) /\ (i - 1) + 1 = i
          BY <4>1, <2>4, <1>0, <1>1
        <5>2. nl[i + 1] = l[i]
          BY <5>1, <1>1, Zenon
        <5> QED
          BY <4>1, <5>1, <5>2, Zenon DEF NextStart
      <4>2. CASE i = Len(nl)
        BY <4>2, <1>0, <1>1 DEF NextStart
      <4> QED
        BY <4>1, <4>2, <1>1
    <3> QED
      BY <3>1, <3>2, <3>3, <1>2, Zenon DEF RoomAt
  <2> QED
    BY <2>1, <2>2, <2>3, <2>4, <1>0
<1>14. RoomAtHead(nl)
  <2>1. CASE k = 1
    <3>1. NextStart(nl, 1) = vma.start /\ nl[1] = upd /\ NextStart(l, 1) = next
      BY <2>1, <1>1, <1>0 DEF NextStart
    <3>2. CASE RoomAt(l, 1)
      <4>1. l[k].space_after >= next - l[k].end
        BY <3>2, <2>1, Zenon DEF RoomAt
      <4>2. \A ks, ke, vs, ve, n \in Int :
              /\ ks >= n - ke /\ vs + len <= ve + 1 /\ ve < n
              => ks - len >= vs - ke
        OBVIOUS
      <4>3. l[k].space_after - len >= vma.start - l[k].end
        BY <4>1, <4>2, <1>3, <1>4, <1>5, Zenon
      <4> QED
        BY <3>1, <4>3, <1>8, Zenon DEF RoomAt, RoomAtHead
    <3>3. CASE ~ RoomAt(l, 1)
      <4>1. /\ l[k].end = MIN_ADDR - 1
            /\ l[k].space_after = next - MIN_ADDR
            /\ \A j \in 2..Len(l) : l[j].space_after <= 1
        BY <3>1, <3>3, <2>1, <1>2, Zenon DEF RoomAtHead
      <4>2. CASE vma.start + len = next
        <5>1. \A vs, ve, n \in Int :
                /\ vs + len <= ve + 1 /\ ve < n /\ vs + len = n
                => n - ve <= 1 /\ (n - MIN_ADDR) - len = vs - MIN_ADDR
          BY Layout
        <5>2. next - vma.end <= 1 /\ (next - MIN_ADDR) - len = vma.start - MIN_ADDR
          <6> HIDE DEF next
          <6>1. next \in Int /\ vma.end < next
            BY <1>3, Zenon DEF next
          <6> QED
            BY <5>1, <4>2, <6>1, <1>5, Zenon
        <5>4. vma.space_after <= 1
              /\ l[k].space_after - len = vma.start - MIN_ADDR
          BY <5>2, <4>1, Zenon
        <5>3. \A j \in 2..Len(nl) : nl[j].space_after <= 1
          <6> SUFFICES ASSUME NEW j \in 2..Len(nl)
                       PROVE  nl[j].space_after <= 1
            BY Zenon
          <6>1. CASE j = k + 1
            BY <6>1, <5>4, <1>1, Zenon
          <6>2. CASE j # k + 1
            <7>1. j \in (k + 2)..(Len(l) + 1) /\ j - 1 \in 2..Len(l)
              BY <6>2, <2>1, <1>0, <1>1
            <7> QED
              BY <7>1, <4>1, <1>1, Zenon
          <6> QED
            BY <6>1, <6>2, Zenon
        <5> QED
          BY <3>1, <4>1, <5>4, <5>3, <1>8, Zenon DEF RoomAtHead
      <4>3. CASE vma.start + len # next
        <5>1. \A vs, ve, n \in Int :
                /\ vs + len <= ve + 1 /\ ve < n /\ vs + len # n
                => (n - MIN_ADDR) - len >= vs - (MIN_ADDR - 1)
          BY Layout
        <5>2. l[k].space_after - len >= vma.start - l[k].end
          BY <5>1, <4>1, <4>3, <1>3, <1>5, Zenon
        <5> QED
          BY <3>1, <5>2, <1>8, Zenon DEF RoomAt, RoomAtHead
      <4> QED
        BY <4>2, <4>3, Zenon
    <3> QED
      BY <3>2, <3>3, Zenon
  <2>2. CASE k # 1
    <3>1. k \in 2..Len(l) /\ 1 \in 1..(k - 1) /\ 1 < Len(l) /\ 1 < Len(nl)
      BY <2>2, <1>0, <1>1
    <3>2. l[k].space_after > 1
      <4>1. \A a \in Int : a > len => a > 1
        OBVIOUS
      <4> QED
        BY <4>1, <1>4, Zenon
    <3>3. ~ (l[k].space_after <= 1)
      BY <3>2, <1>4
    <3>4. RoomAt(l, 1)
      BY <3>1, <3>3, <1>2, Zenon DEF RoomAtHead
    <3>5. nl[1] = l[1]
      BY <3>1, <1>1, Zenon
    <3>6. nl[2].start = l[2].start
      <4>1. 2 \in 1..Len(nl) /\ 2 # k + 1 /\ old(2) = 2
        BY <3>1, <1>1
      <4> QED
        BY <4>1, <1>11, Zenon
    <3>7. NextStart(nl, 1) = NextStart(l, 1)
      BY <3>1, <3>6 DEF NextStart
    <3> QED
      BY <3>4, <3>5, <3>7, Zenon DEF RoomAt, RoomAtHead
  <2> QED
    BY <2>1, <2>2, Zenon
<1>15. nl # <<>>
  BY <1>1, <1>0
<1> QED
  BY <1>12, <1>13, <1>14, <1>15, Zenon DEF Sane

\* Putting a node that fits in place of an empty head keeps the list sane.
LEMMA ReplaceSane ==
  ASSUME NEW l \in Seq(VmaType), Sane(l), NEW k \in 1..Len(l), k = 1,
         NEW vma \in VmaType, NEW len \in Nat, len > 0,
         vma.start = MIN_ADDR, Aligned(vma.end + 1),
         vma.start + len <= vma.end + 1, vma.end < NextStart(l, k),
         vma.space_after = NextStart(l, k) - vma.end, vma.guardstart = JUNK,
         ReplacesHead(vma, vma.flags),
         NEW nl, nl = Linked(l, k, vma, len)
  PROVE  Sane(nl)
<1> DEFINE next == NextStart(l, k)
<1>0. Len(l) \in Nat /\ Len(l) >= 1
  OBVIOUS
<1>1. /\ nl \in Seq(VmaType)
      /\ Len(nl) = Len(l)
      /\ nl[1] = vma
      /\ \A i \in 2..Len(l) : nl[i] = l[i]
  BY ReplacedNodes
<1>2. /\ \A i \in 1..Len(l) : NodeOK(l[i])
      /\ \A i \in 2..Len(l) : NonEmpty(l[i])
      /\ \A i, j \in 1..Len(l) : i < j => l[i].end < l[j].start
      /\ \A i \in 2..Len(l) : RoomAt(l, i)
  BY Zenon DEF Sane, InOrder
<1>3. next \in Int /\ next <= MAX_ADDR
  BY NextStartIs, Zenon
<1>5. vma.start \in Int /\ vma.end \in Int /\ vma.space_after \in Int
  BY Zenon DEF VmaType
<1>10. NodeOK(vma) /\ NonEmpty(vma)
  <2>2. vma.start <= vma.end + 1 /\ vma.start <= vma.end /\ MIN_ADDR <= vma.start
    <3>1. \A a, b \in Int : a + len <= b + 1 => a <= b + 1 /\ a <= b /\ a <= a
      OBVIOUS
    <3> QED
      BY <3>1, <1>5, Zenon
  <2>3. vma.end < MAX_ADDR
    BY <1>3, <1>5, LtLe, Layout, Zenon
  <2>4. vma.space_after <= MAX_ADDR - MIN_ADDR
    <3>1. \A a, b, c \in Int : MIN_ADDR <= a /\ a <= b /\ c <= MAX_ADDR
                              => c - b <= MAX_ADDR - MIN_ADDR
      BY Layout
    <3> QED
      BY <3>1, <2>2, <1>3, <1>5, Zenon
  <2>5. Aligned(vma.start)
    BY LayoutAssumption, Zenon DEF Aligned
  <2> QED
    BY <2>2, <2>3, <2>4, <2>5, Zenon DEF NodeOK, NonEmpty
<1>12. InOrder(nl)
  <2>1. \A i \in 1..Len(nl) : i = 1 \/ i \in 2..Len(l)
    BY <1>1
  <2>2. \A i \in 1..Len(nl) : NodeOK(nl[i])
    <3>1. \A i \in 2..Len(l) : i \in 1..Len(l)
      OBVIOUS
    <3> QED
      BY <3>1, <2>1, <1>1, <1>2, <1>10, Zenon
  <2>3. \A i \in 2..Len(nl) : NonEmpty(nl[i])
    BY <1>1, <1>2, Zenon
  <2>4. \A i, j \in 1..Len(nl) : i < j => nl[i].end < nl[j].start
    <3> SUFFICES ASSUME NEW i \in 1..Len(nl), NEW j \in 1..Len(nl), i < j
                 PROVE  nl[i].end < nl[j].start
      BY Zenon
    <3>1. j \in 2..Len(l) /\ nl[j] = l[j]
      BY <1>1
    <3>2. CASE i \in 2..Len(l)
      BY <3>1, <3>2, <1>1, <1>2, Zenon
    <3>3. CASE i = 1
      <4>1. k < Len(l) /\ 2 \in 1..Len(l) /\ 2 \in 2..Len(l) /\ next = l[2].start
        BY <3>1, <1>0 DEF NextStart
      <4>2. l[2].start <= l[j].start /\ l[j].start \in Int /\ l[2].start \in Int
        <5>1. l[j].start \in Int /\ l[2].start \in Int /\ l[2].end \in Int
          BY <3>1, <4>1, <1>1, NodeInts, Zenon
        <5>2. CASE j = 2
          BY <5>1, <5>2
        <5>3. CASE j # 2
          <6>1. l[2].end < l[j].start /\ NonEmpty(l[2])
            BY <5>3, <3>1, <4>1, <1>1, <1>2
          <6> QED
            BY <6>1, <5>1 DEF NonEmpty
        <5> QED
          BY <5>2, <5>3, Zenon
      <4>3. vma.end < l[j].start
        BY <4>1, <4>2, <1>5, LtLe, Zenon
      <4> QED
        BY <4>3, <3>1, <3>3, <1>1, Zenon
    <3> QED
      BY <3>2, <3>3, <2>1, Zenon
  <2> QED
    BY <2>2, <2>3, <2>4, <1>1, Zenon DEF InOrder
<1>13. \A i \in 2..Len(nl) : RoomAt(nl, i)
  <2> SUFFICES ASSUME NEW i \in 2..Len(nl) PROVE RoomAt(nl, i)
    BY Zenon
  <2>1. NextStart(nl, i) = NextStart(l, i)
    BY <1>0, <1>1 DEF NextStart
  <2> QED
    BY <2>1, <1>1, <1>2, Zenon DEF RoomAt
<1>14. RoomAtHead(nl)
  <2>1. NextStart(nl, 1) = next
    BY <1>0, <1>1 DEF NextStart
  <2>2. vma.space_after >= next - vma.end
    <3>1. \A a, b, c \in Int : a = b - c => a >= b - c
      OBVIOUS
    <3> QED
      BY <3>1, <1>3, <1>5, Zenon
  <2> QED
    BY <2>1, <2>2, <1>1, Zenon DEF RoomAt, RoomAtHead
<1>15. nl # <<>>
  BY <1>1, <1>0
<1> QED
  BY <1>12, <1>13, <1>14, <1>15, Zenon DEF Sane

\* What the search of sys_mmap has established about the node it stops at.
LEMMA SlotIs ==
  ASSUME NEW l \in Seq(VmaType), Sane(l), NEW addr \in Nat, NEW len \in Nat,
         NEW flags, NEW k, k = Slot(l, addr, len, flags), k # 0
  PROVE  /\ k \in 1..Len(l)
         /\ l[k].space_after > len
         /\ "FIXED" \in flags =>
              /\ Aligned(addr) /\ MIN_ADDR <= addr /\ addr < MAX_ADDR
              /\ addr < NextStart(l, k)
              /\ \A j \in 1..Len(l) : j <= k => ~ Covers(l[j], addr)
              /\ \A j \in 1..Len(l) : j < k /\ addr < NextStart(l, j)
                   => ~ (l[j].space_after > len)
<1>1. Visited(l) = 1..Len(l) /\ 1..Len(l) \subseteq Nat
  BY AllVisited
<1>2. CASE "FIXED" \in flags
  <2> DEFINE stop == {i \in Visited(l) :
                       \/ Covers(l[i], addr)
                       \/ addr < NextStart(l, i) /\ l[i].space_after > len}
  <2>1. k = FixedSlot(l, addr, len)
    BY <1>2, Zenon DEF Slot
  <2>2. /\ ~ (addr % PGSIZE # 0) /\ ~ (addr < MIN_ADDR) /\ ~ (addr >= MAX_ADDR)
        /\ ~ (FirstOf(stop) > 0 /\ Covers(l[FirstOf(stop)], addr))
        /\ k = FirstOf(stop)
    BY <2>1, Zenon DEF FixedSlot
  <2>3. k \in stop /\ \A j \in stop : k <= j
    BY <2>2, <1>1, FirstOfIs, Zenon
  <2>4. k \in 1..Len(l) /\ k > 0
    BY <2>3, <1>1
  <2>5. ~ Covers(l[k], addr)
    BY <2>2, <2>4, Zenon
  <2>6. addr < NextStart(l, k) /\ l[k].space_after > len
    BY <2>3, <2>5, Zenon
  <2>7. \A j \in 1..Len(l) : j < k => j \notin stop
    <3> HIDE DEF stop
    <3> QED
      BY <2>3, <2>4
  <2>8. \A j \in 1..Len(l) : j < k => ~ Covers(l[j], addr)
    BY <2>7, <1>1, Zenon
  <2>9. \A j \in 1..Len(l) : j < k /\ addr < NextStart(l, j)
                             => ~ (l[j].space_after > len)
    BY <2>7, <1>1, Zenon
  <2>10. \A j \in 1..Len(l) : j <= k => j < k \/ j = k
    BY <2>4
  <2>11. Aligned(addr) /\ MIN_ADDR <= addr /\ addr < MAX_ADDR
    <3>1. ~ (addr < MIN_ADDR) /\ ~ (addr >= MAX_ADDR) /\ addr % PGSIZE = 0
      BY <2>2, Zenon
    <3> QED
      BY <3>1, Layout DEF Aligned
  <2> QED
    BY <2>4, <2>5, <2>6, <2>8, <2>9, <2>10, <2>11, Zenon
<1>3. CASE "FIXED" \notin flags
  <2> DEFINE stop == {i \in Visited(l) : l[i].space_after > len}
  <2>1. k = FirstOf(stop)
    BY <1>3, Zenon DEF Slot, AnySlot
  <2>2. k \in stop
    BY <2>1, <1>1, FirstOfIs, Zenon
  <2> QED
    BY <2>2, <1>1, <1>3, Zenon
<1> QED
  BY <1>2, <1>3, Zenon

\* When the search stops at a node that lies behind the address asked for, it
\* has passed a gap that is too small: the area would reach the next node.
LEMMA PassedGap ==
  ASSUME NEW l \in Seq(VmaType), Sane(l), NEW addr \in Nat, NEW len \in Nat,
         len > 0, NEW k \in 1..Len(l), l[k].space_after > len,
         MIN_ADDR <= addr, addr <= l[k].end,
         \A j \in 1..Len(l) : j <= k => ~ Covers(l[j], addr),
         \A j \in 1..Len(l) : j < k /\ addr < NextStart(l, j)
           => ~ (l[j].space_after > len)
  PROVE  \E c \in 2..Len(l) : addr < l[c].start /\ l[c].start < addr + len
<1> DEFINE S == {j \in 1..Len(l) : j <= k /\ addr < l[j].start}
<1>1. k \in S
  <2>1. k <= k /\ l[k].start \in Int
    BY NodeInts
  <2>2. ~ Covers(l[k], addr)
    BY <2>1, Zenon
  <2> QED
    BY <2>1, <2>2 DEF Covers
<1>2. S \subseteq Nat /\ S # {}
  BY <1>1
<1>3. PICK c \in S : \A j \in S : c <= j
  BY <1>2, FirstIn, Zenon
<1>4. c \in 1..Len(l) /\ c <= k /\ addr < l[c].start
  BY <1>3, Zenon
<1>5. \A j \in 1..Len(l) : j < c => ~ (addr < l[j].start)
  <2> SUFFICES ASSUME NEW j \in 1..Len(l), j < c, addr < l[j].start
               PROVE  FALSE
    BY Zenon
  <2>1. j \in S
    BY <1>4
  <2> HIDE DEF S
  <2> QED
    BY <2>1, <1>3, <1>4
<1> HIDE DEF S
<1>6. l[1].start = MIN_ADDR
  BY Zenon DEF Sane, InOrder
<1>7. c # 1
  BY <1>4, <1>6, Layout
<1> DEFINE m == c - 1
<1>8. m \in 1..Len(l) /\ m < c /\ m < k /\ m + 1 = c /\ m < Len(l)
      /\ c \in 2..Len(l)
  BY <1>4, <1>7
<1> HIDE DEF m
<1>9. /\ l[m].start \in Int /\ l[m].end \in Int /\ l[m].space_after \in Int
      /\ l[c].start \in Int /\ l[k].space_after \in Int
  BY <1>4, <1>8, NodeInts, Zenon
<1>10. l[m].end < addr
  <2>1. ~ Covers(l[m], addr) /\ ~ (addr < l[m].start)
    BY <1>5, <1>8
  <2> QED
    BY <2>1, <1>9 DEF Covers
<1>11. NextStart(l, m) = l[c].start
  BY <1>8, Zenon DEF NextStart
<1>12. l[m].space_after <= len
  <2>1. ~ (l[m].space_after > len)
    BY <1>4, <1>8, <1>11, Zenon
  <2> QED
    BY <2>1, <1>9
<1>13. RoomAt(l, m)
  <2>1. CASE m = 1
    <3>1. k \in 2..Len(l) /\ ~ (l[k].space_after <= 1)
      BY <2>1, <1>8, <1>9
    <3>2. RoomAtHead(l)
      BY Zenon DEF Sane
    <3> QED
      BY <2>1, <3>1, <3>2, Zenon DEF RoomAtHead
  <2>2. CASE m # 1
    <3>1. m \in 2..Len(l)
      BY <2>2, <1>8
    <3> QED
      BY <3>1, Zenon DEF Sane
  <2> QED
    BY <2>1, <2>2, Zenon
<1>14. l[m].space_after >= l[c].start - l[m].end
  BY <1>11, <1>13, Zenon DEF RoomAt
<1>15. \A s, e, n \in Int : s >= n - e /\ s <= len /\ e < addr => n < addr + len
  OBVIOUS
<1>16. l[c].start < addr + len
  BY <1>9, <1>10, <1>12, <1>14, <1>15, Zenon
<1> QED
  BY <1>4, <1>8, <1>16, Zenon

\* The new node vma covers whole pages from start on; it runs into an area or
\* out of the mmap area, or the list nl it is linked into is sane, and the
\* head was only replaced if it was empty.
Placed(l, k, start, flags, vma, nl) ==
  /\ k \in 1..Len(l) /\ vma \in VmaType /\ vma.start = start
  /\ vma.pa = NoPage /\ vma.flags = flags
  /\ start \in Int /\ vma.end \in Int
  /\ Aligned(start) /\ Aligned(vma.end + 1)
  /\ MIN_ADDR <= start /\ start <= MAX_ADDR /\ start <= vma.end
  /\ \/ MAX_ADDR <= vma.end
     \/ \E c \in 2..Len(l) :
          start <= l[c].start /\ l[c].start <= vma.end
     \/ /\ Sane(nl)
        /\ ReplacesHead(vma, flags) => k = 1 /\ ~ NonEmpty(l[1])

\* Where sys_mmap puts a new area: whole pages from start on, as many as length
\* asks for, and either it runs into an area or out of the mmap area, or the
\* list it is linked into is sane.  The head is only replaced when empty.
LEMMA Place ==
  ASSUME NEW l \in Seq(VmaType), Sane(l), NEW addr \in Nat, NEW len \in Nat,
         len > 0, NEW prot \in Prots, NEW flags \in FlagSets,
         NEW k, k = Slot(l, addr, len, flags), k # 0,
         NEW start, start = (IF "FIXED" \in flags THEN addr
                             ELSE uint(l[k].end + 1)),
         NEW vma, vma = create_vma(l, k, start, len, prot, flags),
         NEW nl, nl = Linked(l, k, vma, len)
  PROVE  Placed(l, k, start, flags, vma, nl)
<1>1. /\ k \in 1..Len(l)
      /\ l[k].space_after > len
      /\ "FIXED" \in flags =>
           /\ Aligned(addr) /\ MIN_ADDR <= addr /\ addr < MAX_ADDR
           /\ addr < NextStart(l, k)
           /\ \A j \in 1..Len(l) : j <= k => ~ Covers(l[j], addr)
           /\ \A j \in 1..Len(l) : j < k /\ addr < NextStart(l, j)
                => ~ (l[j].space_after > len)
  BY SlotIs
<1>2. NodeOK(l[k])
  BY <1>1, Zenon DEF Sane, InOrder
<1>3. /\ l[k].start \in Int /\ l[k].end \in Int /\ l[k].space_after \in Int
  BY <1>1, NodeInts, Zenon
<1>4. /\ NextStart(l, k) \in Int /\ l[k].end < NextStart(l, k)
      /\ NextStart(l, k) <= MAX_ADDR
  BY <1>1, NextStartIs, Zenon
<1>5. MIN_ADDR <= l[k].end + 1 /\ l[k].end + 1 <= MAX_ADDR
  BY <1>2, <1>3, Layout DEF NodeOK
<1>6. "FIXED" \notin flags => start = l[k].end + 1
  <2>1. l[k].end + 1 \in Int /\ 0 <= l[k].end + 1 /\ l[k].end + 1 < WORD
    <3>1. MIN_ADDR <= l[k].end + 1 /\ l[k].end + 1 <= MAX_ADDR
      BY <1>5, Zenon
    <3>2. l[k].end + 1 \in Int
      BY <1>3
    <3> DEFINE x == l[k].end + 1
    <3> HIDE DEF x
    <3>3. x \in Int /\ 0 <= x /\ x < WORD
      <4>1. x \in Int /\ MIN_ADDR <= x /\ x <= MAX_ADDR
        BY <3>1, <3>2, Zenon DEF x
      <4> QED
        BY <4>1, LayoutAssumption DEF WORD
    <3> QED
      BY <3>3, Zenon DEF x
  <2>2. uint(l[k].end + 1) = l[k].end + 1
    BY <2>1, UintIs, Zenon
  <2> QED
    BY <2>2, Zenon
<1>7. start \in Int /\ Aligned(start) /\ MIN_ADDR <= start /\ start <= MAX_ADDR
  <2>1. CASE "FIXED" \in flags
    <3>1. start = addr /\ Aligned(addr)
      BY <2>1, <1>1, Zenon
    <3> QED
      BY <2>1, <3>1, <1>1, Layout
  <2>2. CASE "FIXED" \notin flags
    <3>1. Aligned(l[k].end + 1)
      BY <1>2, Zenon DEF NodeOK
    <3> QED
      BY <2>2, <3>1, <1>3, <1>5, <1>6
  <2> QED
    BY <2>1, <2>2, Zenon
<1>8. len < MAX_ADDR - MIN_ADDR
  BY <1>1, <1>2, <1>3, Layout DEF NodeOK
<1> DEFINE end == uint(PGROUNDUP(start + len) - 1)
<1>9. /\ end \in Int /\ Aligned(end + 1) /\ start + len <= end + 1
  BY <1>7, <1>8, NewEnd, Zenon
<1>10. /\ vma.start = start /\ vma.end = end /\ vma.pa = NoPage
       /\ vma.guardstart = JUNK /\ vma.flags = flags
       /\ vma.space_after = int(NextStart(l, k) - end)
  BY Zenon DEF create_vma
<1>11. vma \in VmaType
  <2>1. \A x \in Nat : x \in Int
    OBVIOUS
  <2> QED
    BY <1>1, <1>7, <2>1, CreateType, Zenon
<1> HIDE DEF end
<1>12. start <= end /\ end + 1 - start >= len
  BY <1>7, <1>9
<1> SUFFICES ASSUME ~ (MAX_ADDR <= end),
                    \A c \in 2..Len(l) : ~ (start <= l[c].start
                                            /\ l[c].start <= end)
             PROVE  /\ Sane(nl)
                    /\ ReplacesHead(vma, flags) => k = 1 /\ ~ NonEmpty(l[1])
  BY <1>1, <1>7, <1>9, <1>10, <1>11, <1>12, Zenon DEF Placed
<1>13. end < MAX_ADDR
  BY <1>9, Layout
<1>14. l[k].end < start
  <2>1. CASE "FIXED" \notin flags
    BY <2>1, <1>3, <1>6
  <2>2. CASE "FIXED" \in flags
    <3> SUFFICES ASSUME addr <= l[k].end PROVE FALSE
      BY <2>2, <1>3, <1>7
    <3>1. PICK c \in 2..Len(l) : addr < l[c].start /\ l[c].start < addr + len
      BY <2>2, <1>1, PassedGap, Zenon
    <3>2. l[c].start \in Int /\ start = addr
      <4>1. c \in 1..Len(l)
        OBVIOUS
      <4> QED
        BY <4>1, <2>2, NodeInts, Zenon
    <3>3. start <= l[c].start /\ l[c].start <= end
      BY <3>1, <3>2, <1>9
    <3> QED
      BY <3>3, Zenon
  <2> QED
    BY <2>1, <2>2, Zenon
<1>15. end < NextStart(l, k)
  <2>1. CASE k < Len(l)
    <3>1. NextStart(l, k) = l[k + 1].start /\ k + 1 \in 2..Len(l)
      BY <2>1, <1>1 DEF NextStart
    <3>2. start <= NextStart(l, k)
      <4>1. CASE "FIXED" \in flags
        BY <4>1, <1>1, <1>4
      <4>2. CASE "FIXED" \notin flags
        BY <4>2, <1>3, <1>4, <1>6
      <4> QED
        BY <4>1, <4>2, Zenon
    <3>3. ~ (NextStart(l, k) <= end)
      BY <3>1, <3>2, Zenon
    <3> QED
      BY <3>3, <1>4, <1>9
  <2>2. CASE ~ (k < Len(l))
    BY <2>2, <1>13, Zenon DEF NextStart
  <2> QED
    BY <2>1, <2>2, Zenon
<1>16. vma.space_after = NextStart(l, k) - end
  <2>1. NextStart(l, k) - end \in Int /\ 0 <= NextStart(l, k) - end
        /\ NextStart(l, k) - end < MAX_ADDR
    <3>1. end > 0
      <4>1. \A a, b \in Int : MIN_ADDR <= a /\ a <= b => b > 0
        BY Layout
      <4> QED
        BY <4>1, <1>7, <1>9, <1>12, Zenon
    <3>2. \A n, e \in Int : n <= MAX_ADDR /\ e < n /\ e > 0
            => n - e \in Int /\ 0 <= n - e /\ n - e < MAX_ADDR
      BY Layout
    <3> QED
      BY <3>1, <3>2, <1>4, <1>9, <1>15, Zenon
  <2> QED
    BY <2>1, <1>10, IntIs, Zenon
<1>17. CASE ~ ReplacesHead(vma, flags)
  <2>1. Sane(nl)
    BY <1>1, <1>7, <1>9, <1>10, <1>11, <1>14, <1>15, <1>16, <1>17, InsertSane,
       Zenon
  <2> QED
    BY <2>1, <1>17, Zenon
<1>18. CASE ReplacesHead(vma, flags)
  <2>1. start = MIN_ADDR
    BY <1>10, <1>18, Zenon DEF ReplacesHead
  <2>2. k = 1
    <3> SUFFICES ASSUME k # 1 PROVE FALSE
      BY Zenon
    <3>1. k \in 2..Len(l)
      BY <1>1
    <3>2. NonEmpty(l[k])
      BY <3>1, Zenon DEF Sane, InOrder
    <3> QED
      BY <3>2, <2>1, <1>2, <1>3, <1>14, Layout DEF NonEmpty, NodeOK
  <2>3. ~ NonEmpty(l[1])
    BY <2>1, <2>2, <1>2, <1>3, <1>14, Layout DEF NonEmpty, NodeOK
  <2>4. Sane(nl)
    BY <2>1, <2>2, <1>1, <1>9, <1>10, <1>11, <1>15, <1>16, <1>18, ReplaceSane,
       Zenon
  <2> QED
    BY <2>2, <2>3, <2>4, Zenon
<1> QED
  BY <1>17, <1>18, Zenon

(***************************************************************************)
(* The mapping loop of sys_mmap starts: the list and the page table        *)
(* together.                                                               *)
(***************************************************************************)
\* Two nodes that describe the same pages.
SameArea(v, w) == v.start = w.start /\ v.end = w.end /\ v.pa = w.pa

\* Node n of nl is vma, and the other areas are those of l.
Areas(l, vma, nl, n) ==
  /\ nl \in Seq(VmaType) /\ n \in 1..Len(nl) /\ nl[n] = vma
  /\ \A i \in (1..Len(nl)) \ {n} :
       \E j \in 1..Len(l) : SameArea(nl[i], l[j]) /\ (i = 1 \/ j # 1)
  /\ \A j \in 1..Len(l) : NonEmpty(l[j])
       => \E i \in (1..Len(nl)) \ {n} : SameArea(nl[i], l[j])

\* The areas of the list after sys_mmap has linked a node: the new one and the
\* old ones, but for an empty head that is replaced.
LEMMA LinkedAreas ==
  ASSUME NEW l \in Seq(VmaType), NEW k \in 1..Len(l), NEW vma \in VmaType,
         NEW len \in Int, NEW flags, vma.flags = flags,
         NEW nl, nl = Linked(l, k, vma, len),
         ReplacesHead(vma, flags) => k = 1 /\ ~ NonEmpty(l[1]),
         NEW n, n = IF ReplacesHead(vma, flags) THEN 1 ELSE k + 1
  PROVE  Areas(l, vma, nl, n)
<1>0. Len(l) \in Nat /\ k \in Int
  OBVIOUS
<1>1. CASE ReplacesHead(vma, flags)
  <2>1. k = 1 /\ ~ NonEmpty(l[1]) /\ n = 1
    BY <1>1, Zenon
  <2>2. /\ nl \in Seq(VmaType) /\ Len(nl) = Len(l) /\ nl[1] = vma
        /\ \A i \in 2..Len(l) : nl[i] = l[i]
    BY <1>1, <2>1, ReplacedNodes
  <2>3. n \in 1..Len(nl) /\ nl[n] = vma
    BY <2>1, <2>2, Zenon
  <2>4. ASSUME NEW i \in (1..Len(nl)) \ {n}
        PROVE  \E j \in 1..Len(l) : SameArea(nl[i], l[j]) /\ (i = 1 \/ j # 1)
    <3>1. i \in 2..Len(l) /\ i \in 1..Len(l)
      BY <2>1, <2>2
    <3> QED
      BY <3>1, <2>2, Zenon DEF SameArea
  <2>5. ASSUME NEW j \in 1..Len(l), NonEmpty(l[j])
        PROVE  \E i \in (1..Len(nl)) \ {n} : SameArea(nl[i], l[j])
    <3>1. j # 1
      BY <2>1, <2>5, Zenon
    <3>2. j \in 2..Len(l) /\ j \in (1..Len(nl)) \ {n}
      BY <3>1, <2>1, <2>2
    <3> QED
      BY <3>2, <2>2, Zenon DEF SameArea
  <2> QED
    BY <2>2, <2>3, <2>4, <2>5, Zenon DEF Areas
<1>2. CASE ~ ReplacesHead(vma, flags)
  <2> DEFINE upd == [l[k] EXCEPT !.space_after = int(@ - len)]
  <2>1. n = k + 1
    BY <1>2, Zenon
  <2>2. /\ nl \in Seq(VmaType) /\ Len(nl) = Len(l) + 1
        /\ \A i \in 1..(k - 1) : nl[i] = l[i]
        /\ nl[k] = upd /\ nl[k + 1] = vma
        /\ \A i \in (k + 2)..(Len(l) + 1) : nl[i] = l[i - 1]
    <3>1. ~ ReplacesHead(vma, vma.flags)
      BY <1>2, Zenon
    <3>2. LinkedShape(l, k, vma, len, nl)
      BY <3>1, LinkedNodes, Zenon
    <3> QED
      BY <3>2, Zenon DEF LinkedShape
  <2>3. n \in 1..Len(nl) /\ nl[n] = vma
    BY <2>1, <2>2
  <2>4. SameArea(upd, l[k])
    <3>1. l[k] \in VmaType
      BY NodeInts, Zenon
    <3> QED
      BY <3>1, Zenon DEF SameArea, VmaType
  <2> HIDE DEF upd
  <2>5. ASSUME NEW i \in (1..Len(nl)) \ {n}
        PROVE  \E j \in 1..Len(l) : SameArea(nl[i], l[j]) /\ (i = 1 \/ j # 1)
    <3>1. CASE i = k
      BY <3>1, <2>2, <2>4, Zenon
    <3>2. CASE i < k
      <4>1. i \in 1..(k - 1) /\ i \in 1..Len(l)
        BY <3>2, <2>2
      <4> QED
        BY <4>1, <2>2, Zenon DEF SameArea
    <3>3. CASE i > k
      <4>1. i \in (k + 2)..(Len(l) + 1) /\ i - 1 \in 1..Len(l) /\ i - 1 # 1
        BY <3>3, <2>1, <2>2, <2>5
      <4> QED
        BY <4>1, <2>2, Zenon DEF SameArea
    <3> QED
      BY <3>1, <3>2, <3>3
  <2>6. ASSUME NEW j \in 1..Len(l)
        PROVE  \E i \in (1..Len(nl)) \ {n} : SameArea(nl[i], l[j])
    <3>1. CASE j = k
      <4>1. k \in (1..Len(nl)) \ {n}
        BY <2>1, <2>2
      <4> QED
        BY <3>1, <4>1, <2>2, <2>4, Zenon
    <3>2. CASE j < k
      <4>1. j \in 1..(k - 1) /\ j \in (1..Len(nl)) \ {n}
        BY <3>2, <2>1, <2>2
      <4> QED
        BY <4>1, <2>2, Zenon DEF SameArea
    <3>3. CASE j > k
      <4>1. j + 1 \in (k + 2)..(Len(l) + 1) /\ j + 1 \in (1..Len(nl)) \ {n}
            /\ (j + 1) - 1 = j
        BY <3>3, <2>1, <2>2
      <4>2. nl[j + 1] = l[j]
        BY <4>1, <2>2, Zenon
      <4> QED
        BY <4>1, <4>2, Zenon DEF SameArea
    <3> QED
      BY <3>1, <3>2, <3>3
  <2> QED
    BY <2>2, <2>3, <2>5, <2>6, Zenon DEF Areas
<1> QED
  BY <1>1, <1>2, Zenon

\* The page an entry maps is an address.
LEMMA EntryVa ==
  ASSUME NEW t \in SUBSET PteType, NEW e \in t
  PROVE  e.va \in Int /\ e.pa \in Pages \cup {NoPage}
BY Zenon DEF PteType

\* The first page of an area of a tidy list is mapped.
LEMMA FirstMapped ==
  ASSUME NEW l \in Seq(VmaType), NEW t \in SUBSET PteType, Tidy(l, t),
         NEW c \in 1..Len(l), NonEmpty(l[c])
  PROVE  \E e \in t : e.va = l[c].start /\ Aligned(e.va)
<1>1. NodeOK(l[c])
  BY Zenon DEF Tidy, Sane, InOrder
<1>2. l[c].start \in Int /\ l[c].end \in Int
  BY NodeInts, Zenon
<1>3. /\ l[c].start >= MIN_ADDR /\ l[c].start < MAX_ADDR /\ Aligned(l[c].start)
      /\ Covers(l[c], l[c].start)
  BY <1>1, <1>2, Layout DEF NodeOK, NonEmpty, Covers
<1>4. l[c].start \in VPages
  BY <1>2, <1>3, Layout DEF VPages, Aligned
<1>5. l[c].start \in {e.va : e \in t}
  BY <1>3, <1>4, Zenon DEF Tidy
<1> QED
  BY <1>3, <1>5, Zenon

\* The mapping loop of sys_mmap at its start.
Entered(t, nl, n, start, end) ==
  /\ start \in Int /\ end \in Int
  /\ Aligned(start) /\ Aligned(end + 1) /\ start <= end + 1
  /\ \/ Doomed(t, start, end)
     \/ Partly(nl, t, n, start, None) /\ end = nl[n].end

\* sys_mmap enters its mapping loop.
LEMMA EnterLoop ==
  ASSUME NEW l \in Seq(VmaType), NEW t \in SUBSET PteType, Tidy(l, t),
         NEW addr \in Nat, NEW len \in Nat, len > 0,
         NEW prot \in Prots, NEW flags \in FlagSets,
         NEW k, k = Slot(l, addr, len, flags), k # 0,
         NEW start, start = (IF "FIXED" \in flags THEN addr
                             ELSE uint(l[k].end + 1)),
         NEW vma, vma = create_vma(l, k, start, len, prot, flags),
         NEW nl, nl = Linked(l, k, vma, len),
         NEW n, n = IF ReplacesHead(vma, flags) THEN 1 ELSE k + 1
  PROVE  Entered(t, nl, n, start, vma.end)
<1> SUFFICES /\ start \in Int /\ vma.end \in Int
             /\ Aligned(start) /\ Aligned(vma.end + 1) /\ start <= vma.end + 1
             /\ \/ Doomed(t, start, vma.end)
                \/ Partly(nl, t, n, start, None) /\ vma.end = nl[n].end
  BY Zenon DEF Entered
<1>0. Sane(l)
  BY Zenon DEF Tidy
<1>1. /\ k \in 1..Len(l) /\ vma \in VmaType /\ vma.start = start
      /\ vma.pa = NoPage /\ vma.flags = flags
      /\ start \in Int /\ vma.end \in Int
      /\ Aligned(start) /\ Aligned(vma.end + 1)
      /\ MIN_ADDR <= start /\ start <= MAX_ADDR /\ start <= vma.end
      /\ \/ MAX_ADDR <= vma.end
         \/ \E c \in 2..Len(l) :
              start <= l[c].start /\ l[c].start <= vma.end
         \/ /\ Sane(nl)
            /\ ReplacesHead(vma, flags) => k = 1 /\ ~ NonEmpty(l[1])
  <2>1. Placed(l, k, start, flags, vma, nl)
    BY <1>0, Place, Zenon
  <2> QED
    BY <2>1, Zenon DEF Placed
<1>2. start <= vma.end + 1
  <2>1. \A x, y \in Int : x <= y => x <= y + 1
    OBVIOUS
  <2> QED
    BY <1>1, <2>1, Zenon
<1>3. CASE MAX_ADDR <= vma.end
  BY <1>1, <1>2, <1>3, Zenon DEF Doomed
<1>4. CASE \E c \in 2..Len(l) : start <= l[c].start /\ l[c].start <= vma.end
  <2>1. PICK c \in 2..Len(l) : start <= l[c].start /\ l[c].start <= vma.end
    BY <1>4, Zenon
  <2>2. c \in 1..Len(l) /\ NonEmpty(l[c])
    BY <1>0 DEF Sane, InOrder
  <2>3. \E e \in t : e.va = l[c].start /\ Aligned(e.va)
    BY <2>2, FirstMapped, Zenon
  <2>4. Doomed(t, start, vma.end)
    BY <2>1, <2>3, Zenon DEF Doomed
  <2> QED
    BY <1>1, <1>2, <2>4, Zenon
<1>5. CASE Sane(nl) /\ (ReplacesHead(vma, flags) => k = 1 /\ ~ NonEmpty(l[1]))
  <2>1. /\ nl \in Seq(VmaType) /\ n \in 1..Len(nl) /\ nl[n] = vma
        /\ \A i \in (1..Len(nl)) \ {n} :
             \E j \in 1..Len(l) : SameArea(nl[i], l[j]) /\ (i = 1 \/ j # 1)
        /\ \A j \in 1..Len(l) : NonEmpty(l[j])
             => \E i \in (1..Len(nl)) \ {n} : SameArea(nl[i], l[j])
    <3>1. len \in Int
      <4>1. \A x \in Nat : x \in Int
        OBVIOUS
      <4> QED
        BY <4>1, Zenon
    <3>2. Areas(l, vma, nl, n)
      BY <3>1, <1>1, <1>5, LinkedAreas, Zenon
    <3> QED
      BY <3>2, Zenon DEF Areas
  <2>2. NonEmpty(nl[n]) /\ nl[n].start = start
    BY <1>1, <2>1, Zenon DEF NonEmpty
  <2>3. start <= start /\ ~ \E a \in Int : start <= a /\ a < start
    BY <1>1
  <2>4. \A a \in VPages : (\E i \in 1..Len(l) : Covers(l[i], a))
          <=> \E i \in (1..Len(nl)) \ {n} : Covers(nl[i], a)
    <3> SUFFICES ASSUME NEW a \in VPages
                 PROVE  (\E i \in 1..Len(l) : Covers(l[i], a))
                        <=> \E i \in (1..Len(nl)) \ {n} : Covers(nl[i], a)
      BY Zenon
    <3>1. ASSUME NEW i \in 1..Len(l), Covers(l[i], a)
          PROVE  \E j \in (1..Len(nl)) \ {n} : Covers(nl[j], a)
      <4>1. a \in Int
        BY DEF VPages
      <4>2. NonEmpty(l[i])
        <5>1. l[i].start \in Int /\ l[i].end \in Int
          BY NodeInts, Zenon
        <5> QED
          BY <3>1, <4>1, <5>1 DEF NonEmpty, Covers
      <4>3. PICK j \in (1..Len(nl)) \ {n} : SameArea(nl[j], l[i])
        BY <4>2, <2>1, Zenon
      <4> QED
        BY <3>1, <4>3, Zenon DEF SameArea, Covers
    <3>2. ASSUME NEW i \in (1..Len(nl)) \ {n}, Covers(nl[i], a)
          PROVE  \E j \in 1..Len(l) : Covers(l[j], a)
      <4>1. PICK j \in 1..Len(l) : SameArea(nl[i], l[j])
        BY <2>1, Zenon
      <4> QED
        BY <3>2, <4>1, Zenon DEF SameArea, Covers
    <3> QED
      BY <3>1, <3>2, Zenon
  <2>5. \A a \in VPages : a \in Int
    BY DEF VPages
  <2>6. {e.va : e \in t} =
          {a \in VPages : \/ start <= a /\ a < start
                         \/ \E i \in (1..Len(nl)) \ {n} : Covers(nl[i], a)}
    <3>1. {e.va : e \in t} =
            {a \in VPages : \E i \in 1..Len(l) : Covers(l[i], a)}
      BY Zenon DEF Tidy
    <3>2. {a \in VPages : \E i \in 1..Len(l) : Covers(l[i], a)} =
          {a \in VPages : \/ start <= a /\ a < start
                         \/ \E i \in (1..Len(nl)) \ {n} : Covers(nl[i], a)}
      BY <2>3, <2>4, <2>5, Zenon
    <3> QED
      BY <3>1, <3>2, Zenon
  <2>7. \A i \in (2..Len(nl)) \ {n} : NonEmpty(nl[i]) => FirstFrame(t, nl[i])
    <3> SUFFICES ASSUME NEW i \in (2..Len(nl)) \ {n}, NonEmpty(nl[i])
                 PROVE  FirstFrame(t, nl[i])
      BY Zenon
    <3>0. i \in (1..Len(nl)) \ {n} /\ i # 1
      BY <2>1
    <3>1. PICK j \in 1..Len(l) : SameArea(nl[i], l[j]) /\ j # 1
      BY <3>0, <2>1, Zenon
    <3>2. NonEmpty(l[j])
      BY <3>1, Zenon DEF SameArea, NonEmpty
    <3>3. j \in 2..Len(l)
      BY <3>1
    <3>4. FirstFrame(t, l[j])
      BY <3>2, <3>3, Zenon DEF Tidy
    <3> QED
      BY <3>1, <3>4, Zenon DEF SameArea, FirstFrame
  <2>10. {e.va : e \in t} =
           {a \in VPages : \/ nl[n].start <= a /\ a < start
                          \/ \E i \in (1..Len(nl)) \ {n} : Covers(nl[i], a)}
    BY <2>2, <2>6, Zenon
  <2>11. nl[n].start <= start
    BY <2>2, <2>3, Zenon
  <2>9. Partly(nl, t, n, start, None)
    BY <1>5, <2>1, <2>2, <2>7, <2>10, <2>11, Zenon DEF Partly
  <2> QED
    BY <1>1, <1>2, <2>1, <2>9, Zenon
<1> QED
  BY <1>1, <1>3, <1>4, <1>5, Zenon

(***************************************************************************)
(* The mapping loop turns and ends.                                        *)
(***************************************************************************)
\* Setting fields of nodes that Sane does not look at, or checks by itself.
LEMMA SameSane ==
  ASSUME NEW l \in Seq(VmaType), NEW m \in Seq(VmaType), Sane(l),
         Len(m) = Len(l),
         \A i \in 1..Len(l) : /\ m[i].start = l[i].start /\ m[i].end = l[i].end
                              /\ m[i].space_after = l[i].space_after
                              /\ m[i].guardstart \in
                                   {0, JUNK, NOGUARD, m[i].end + 1}
  PROVE  Sane(m)
<1>0. Len(l) \in Nat /\ l # <<>>
  BY DEF Sane
<1>1. 1 \in 1..Len(l)
  BY <1>0
<1>2. \A i \in 1..Len(l) : NextStart(m, i) = NextStart(l, i)
  BY <1>0 DEF NextStart
<1>3. \A i \in 2..Len(l) : i \in 1..Len(l)
  OBVIOUS
<1>4. \A i \in 1..Len(l) : NodeOK(l[i]) => NodeOK(m[i])
  BY Zenon DEF NodeOK
<1>5. \A i \in 1..Len(l) : NonEmpty(l[i]) => NonEmpty(m[i])
  BY Zenon DEF NonEmpty
<1>6. InOrder(m)
  BY <1>1, <1>3, <1>4, <1>5, Zenon DEF Sane, InOrder
<1>7. \A i \in 1..Len(l) : RoomAt(l, i) => RoomAt(m, i)
  BY <1>2, Zenon DEF RoomAt
<1>8. RoomAtHead(m)
  BY <1>1, <1>2, <1>3, <1>7, Zenon DEF Sane, RoomAtHead
<1>9. m # <<>>
  BY <1>0
<1> QED
  BY <1>3, <1>6, <1>7, <1>8, <1>9, Zenon DEF Sane

\* vma->pa is stored for the first page, but not in a head that is replaced.
StoresPa(l, n, va, pg, m) ==
  IF n # 1 /\ va = l[n].start THEN m = [l EXCEPT ![n].pa = pg] ELSE m = l

\* What the loop knows with the page pg in its hands.
Taken(l, t, n, va, pg, m) == Partly(m, t, n, va, pg) /\ m[n].end = l[n].end

\* The mapping loop has a page in its hands, and notes the first one.
LEMMA KallocPartly ==
  ASSUME NEW l \in Seq(VmaType), NEW t \in SUBSET PteType, NEW n, NEW va,
         Partly(l, t, n, va, None), NEW pg \in Pages,
         NEW m, StoresPa(l, n, va, pg, m)
  PROVE  Taken(l, t, n, va, pg, m)
<1> USE DEF StoresPa, Taken
<1>1. n \in 1..Len(l) /\ l[n] \in VmaType
  BY NodeInts, Zenon DEF Partly
<1>3. CASE m = l /\ ~ (n # 1 /\ va = l[n].start)
  BY <1>3, Zenon DEF Partly
<1>4. CASE va = l[n].start /\ m = [l EXCEPT ![n].pa = pg]
  <2> DEFINE v == [l[n] EXCEPT !.pa = pg]
  <2>1. /\ v.start = l[n].start /\ v.end = l[n].end /\ v.pa = pg
        /\ v.space_after = l[n].space_after /\ v.guardstart = l[n].guardstart
    BY <1>1, Zenon DEF VmaType
  <2>2. m = [l EXCEPT ![n] = v]
    BY <1>4, Zenon
  <2>3. m \in Seq(VmaType) /\ Len(m) = Len(l)
    BY <1>1, <1>4, PaFieldType, Zenon
  <2> HIDE DEF v
  <2>4. m[n] = v /\ \A i \in (1..Len(l)) \ {n} : m[i] = l[i]
    BY <1>1, <2>2
  <2>5. Sane(l) /\ \A i \in 1..Len(l) : NodeOK(l[i])
    BY Zenon DEF Partly, Sane, InOrder
  <2>6. \A i \in 1..Len(l) :
          /\ m[i].start = l[i].start /\ m[i].end = l[i].end
          /\ m[i].space_after = l[i].space_after
          /\ m[i].guardstart = l[i].guardstart
    BY <2>1, <2>4, Zenon
  <2>7. \A i \in 1..Len(l) : m[i].guardstart \in {0, JUNK, NOGUARD, m[i].end + 1}
    BY <2>5, <2>6, Zenon DEF NodeOK
  <2>8. Sane(m)
    BY <2>3, <2>5, <2>6, <2>7, SameSane, Zenon
  <2>9. NonEmpty(m[n]) /\ m[n].start <= va /\ m[n].start = l[n].start
    BY <1>1, <2>6, Zenon DEF Partly, NonEmpty
  <2>10. {e.va : e \in t} =
           {a \in VPages : \/ m[n].start <= a /\ a < va
                          \/ \E k \in (1..Len(m)) \ {n} : Covers(m[k], a)}
    <3>1. {e.va : e \in t} =
            {a \in VPages : \/ l[n].start <= a /\ a < va
                           \/ \E k \in (1..Len(l)) \ {n} : Covers(l[k], a)}
      BY Zenon DEF Partly
    <3>2. \A a \in VPages : (\E k \in (1..Len(l)) \ {n} : Covers(l[k], a))
            <=> \E k \in (1..Len(m)) \ {n} : Covers(m[k], a)
      BY <2>3, <2>4, Zenon
    <3> QED
      BY <3>1, <3>2, <2>9, Zenon
  <2>11. \A k \in (2..Len(m)) \ {n} : NonEmpty(m[k]) => FirstFrame(t, m[k])
    <3>1. \A k \in (2..Len(l)) \ {n} : k \in (1..Len(l)) \ {n}
      BY <1>1
    <3> QED
      BY <3>1, <2>3, <2>4, Zenon DEF Partly
  <2>12. va = m[n].start /\ m[n].pa = pg
    BY <2>1, <2>4, <2>9, <1>4, Zenon
  <2> QED
    BY <1>1, <2>1, <2>3, <2>4, <2>8, <2>9, <2>10, <2>11, <2>12, Zenon DEF Partly
<1> QED
  BY <1>3, <1>4, Zenon

\* mappages() has mapped a page of the new area.
LEMMA MapPartly ==
  ASSUME NEW l \in Seq(VmaType), NEW t \in SUBSET PteType, NEW n,
         NEW va \in Int, NEW pg, Partly(l, t, n, va, pg), NEW e,
         pg # None, e.va = va, e.pa = pg, Aligned(va), va < MAX_ADDR
  PROVE  Partly(l, t \cup {e}, n, va + PGSIZE, None)
<1> DEFINE u == t \cup {e}
<1>1. n \in 1..Len(l) /\ NodeOK(l[n]) /\ Sane(l)
  BY Zenon DEF Partly, Sane, InOrder
<1>2. l[n].start \in Int /\ l[n].end \in Int
  BY <1>1, NodeInts, Zenon
<1>3. l[n].start <= va
  BY Zenon DEF Partly
<1>4. va \in VPages /\ l[n].start <= va + PGSIZE
  BY <1>1, <1>2, <1>3, Layout DEF NodeOK, VPages, Aligned
<1>5. {f.va : f \in u} = {f.va : f \in t} \cup {va}
  BY Zenon
<1>6. \A a \in VPages : a < va + PGSIZE <=> a < va \/ a = va
  <2> SUFFICES ASSUME NEW a \in VPages
               PROVE  a < va + PGSIZE <=> a < va \/ a = va
    BY Zenon
  <2>1. a \in Int /\ Aligned(a)
    BY DEF VPages, Aligned
  <2>2. va < a => va + PGSIZE <= a
    BY <2>1, AlignedApart, Zenon
  <2> QED
    BY <2>1, <2>2, Layout
<1>7. {f.va : f \in t} =
        {a \in VPages : \/ l[n].start <= a /\ a < va
                       \/ \E k \in (1..Len(l)) \ {n} : Covers(l[k], a)}
  BY Zenon DEF Partly
<1>8. {f.va : f \in u} =
        {a \in VPages : \/ l[n].start <= a /\ a < va + PGSIZE
                       \/ \E k \in (1..Len(l)) \ {n} : Covers(l[k], a)}
  BY <1>3, <1>4, <1>5, <1>6, <1>7, Zenon
<1>9. \A k \in (2..Len(l)) \ {n} : NonEmpty(l[k]) => FirstFrame(u, l[k])
  BY Zenon DEF Partly, FirstFrame
<1>10. n = 1 \/ FirstFrame(u, l[n])
  <2>1. CASE FirstFrame(t, l[n])
    BY <2>1, Zenon DEF FirstFrame
  <2>2. CASE va = l[n].start /\ l[n].pa = pg
    BY <2>2, Zenon DEF FirstFrame
  <2> QED
    BY <2>1, <2>2, Zenon DEF Partly
<1> HIDE DEF u
<1>11. Partly(l, u, n, va + PGSIZE, None)
  BY <1>1, <1>4, <1>8, <1>9, <1>10, Zenon DEF Partly
<1> QED
  BY <1>11, Zenon DEF u

\* A loop that will panic has not panicked at va, so it still will.
LEMMA MapDoomed ==
  ASSUME NEW t \in SUBSET PteType, NEW va \in Int, NEW end \in Int,
         Doomed(t, va, end), NEW e, Aligned(va), va < MAX_ADDR,
         va \notin {f.va : f \in t}
  PROVE  Doomed(t \cup {e}, va + PGSIZE, end)
<1>1. CASE va <= MAX_ADDR /\ MAX_ADDR <= end
  <2>1. Aligned(MAX_ADDR) /\ MAX_ADDR \in Int
    BY LayoutAssumption DEF Aligned
  <2>2. va + PGSIZE <= MAX_ADDR
    BY <2>1, AlignedApart, Zenon
  <2> QED
    BY <1>1, <2>2, Zenon DEF Doomed
<1>2. CASE \E f \in t : Aligned(f.va) /\ va <= f.va /\ f.va <= end
  <2>1. PICK f \in t : Aligned(f.va) /\ va <= f.va /\ f.va <= end
    BY <1>2, Zenon
  <2>2. f.va \in Int /\ f.va # va
    BY EntryVa, Zenon
  <2>3. va < f.va
    BY <2>1, <2>2
  <2>4. va + PGSIZE <= f.va
    BY <2>1, <2>2, <2>3, AlignedApart, Zenon
  <2> QED
    BY <2>1, <2>4, Zenon DEF Doomed
<1> QED
  BY <1>1, <1>2, Zenon DEF Doomed

\* The loop of sys_mmap ends right behind the area ...
LEMMA LoopEnd ==
  ASSUME NEW va \in Int, NEW end \in Int, Aligned(va), Aligned(end + 1),
         va <= end + 1, ~ (va < end)
  PROVE  va = end + 1
<1> SUFFICES ASSUME va < end + 1 PROVE FALSE
  OBVIOUS
<1>1. va + PGSIZE <= end + 1
  BY AlignedApart
<1> QED
  BY <1>1, Layout

\* ... which it does not if it is to panic ...
LEMMA DoneNotDoomed ==
  ASSUME NEW t \in SUBSET PteType, NEW va \in Int, NEW end \in Int,
         va = end + 1
  PROVE  ~ Doomed(t, va, end)
<1>1. ~ (va <= MAX_ADDR /\ MAX_ADDR <= end)
  BY Layout
<1>2. \A a \in Int : ~ (va <= a /\ a <= end)
  OBVIOUS
<1>3. \A f \in t : f.va \in Int
  BY EntryVa, Zenon
<1> QED
  BY <1>1, <1>2, <1>3, Zenon DEF Doomed

\* ... and then the whole area is mapped.
LEMMA DoneTidy ==
  ASSUME NEW l \in Seq(VmaType), NEW t \in SUBSET PteType, NEW n,
         NEW va \in Int, Partly(l, t, n, va, None), va = l[n].end + 1
  PROVE  Tidy(l, t)
<1>1. n \in 1..Len(l) /\ l[n] \in VmaType /\ l[n].start \in Int /\ l[n].end \in Int
  BY NodeInts, Zenon DEF Partly
<1>2. n = 1 \/ FirstFrame(t, l[n])
  <2>1. l[n].start <= l[n].end
    BY Zenon DEF Partly, NonEmpty
  <2>2. va # l[n].start
    BY <1>1, <2>1
  <2> QED
    BY <2>2, Zenon DEF Partly
<1>3. \A a \in VPages : l[n].start <= a /\ a < va <=> Covers(l[n], a)
  <2>1. \A a \in VPages : a \in Int
    BY DEF VPages
  <2> QED
    BY <2>1, <1>1 DEF Covers
<1>4. {e.va : e \in t} =
        {a \in VPages : \/ l[n].start <= a /\ a < va
                       \/ \E k \in (1..Len(l)) \ {n} : Covers(l[k], a)}
  BY Zenon DEF Partly
<1>5. \A a \in VPages : (\E k \in 1..Len(l) : Covers(l[k], a))
        <=> Covers(l[n], a) \/ \E k \in (1..Len(l)) \ {n} : Covers(l[k], a)
  BY <1>1, Zenon
<1>6. {e.va : e \in t} = {a \in VPages : \E k \in 1..Len(l) : Covers(l[k], a)}
  BY <1>3, <1>4, <1>5, Zenon
<1>7. \A k \in 2..Len(l) : NonEmpty(l[k]) => FirstFrame(t, l[k])
  <2>1. \A k \in 2..Len(l) : k # 1
    OBVIOUS
  <2> QED
    BY <2>1, <1>2, Zenon DEF Partly
<1>8. Sane(l)
  BY Zenon DEF Partly
<1> QED
  BY <1>6, <1>7, <1>8, Zenon DEF Tidy

(***************************************************************************)
(* Guard pages, growth and exec().                                         *)
(***************************************************************************)
\* A list that differs from a tidy one in its guard pages only.
LEMMA SameTidy ==
  ASSUME NEW l \in Seq(VmaType), NEW m \in Seq(VmaType),
         NEW t \in SUBSET PteType, Tidy(l, t), Len(m) = Len(l),
         \A i \in 1..Len(l) :
           /\ m[i].start = l[i].start /\ m[i].end = l[i].end
           /\ m[i].space_after = l[i].space_after /\ m[i].pa = l[i].pa
           /\ m[i].guardstart \in {l[i].guardstart, NOGUARD, l[i].end + 1}
  PROVE  Tidy(m, t)
<1>1. Sane(l) /\ \A i \in 1..Len(l) : NodeOK(l[i])
  BY Zenon DEF Tidy, Sane, InOrder
<1>2. \A i \in 1..Len(l) : m[i].guardstart \in {0, JUNK, NOGUARD, m[i].end + 1}
  BY <1>1, Zenon DEF NodeOK
<1>3. Sane(m)
  <2>1. \A i \in 1..Len(l) :
          /\ m[i].start = l[i].start /\ m[i].end = l[i].end
          /\ m[i].space_after = l[i].space_after
          /\ m[i].guardstart \in {0, JUNK, NOGUARD, m[i].end + 1}
    BY <1>2, Zenon
  <2> QED
    BY <1>1, <2>1, SameSane, Zenon
<1>4. \A a \in VPages : (\E k \in 1..Len(l) : Covers(l[k], a))
        <=> \E k \in 1..Len(m) : Covers(m[k], a)
  BY Zenon DEF Covers
<1>5. {e.va : e \in t} = {a \in VPages : \E k \in 1..Len(l) : Covers(l[k], a)}
  BY Zenon DEF Tidy
<1>6. {e.va : e \in t} = {a \in VPages : \E k \in 1..Len(m) : Covers(m[k], a)}
  BY <1>4, <1>5, Zenon
<1>7. \A k \in 2..Len(m) : NonEmpty(m[k]) => FirstFrame(t, m[k])
  <2> SUFFICES ASSUME NEW k \in 2..Len(l), NonEmpty(m[k])
               PROVE  FirstFrame(t, m[k])
    BY Zenon
  <2>0. k \in 1..Len(l)
    OBVIOUS
  <2>1. m[k].start = l[k].start /\ m[k].end = l[k].end /\ m[k].pa = l[k].pa
    BY <2>0, Zenon
  <2>2. NonEmpty(l[k])
    BY <2>1, Zenon DEF NonEmpty
  <2>3. FirstFrame(t, l[k])
    BY <2>2, Zenon DEF Tidy
  <2> QED
    BY <2>1, <2>3, Zenon DEF FirstFrame
<1> QED
  BY <1>3, <1>6, <1>7, Zenon DEF Tidy

\* The guard page of one node is set or dropped.
LEMMA GuardTidy ==
  ASSUME NEW l \in Seq(VmaType), NEW t \in SUBSET PteType, Tidy(l, t),
         NEW k \in 1..Len(l), NEW x \in Int, x \in {NOGUARD, l[k].end + 1},
         NEW m, m = [l EXCEPT ![k].guardstart = x]
  PROVE  Tidy(m, t)
<1> DEFINE v == [l[k] EXCEPT !.guardstart = x]
<1>1. l[k] \in VmaType
  BY NodeInts, Zenon
<1>2. /\ v.start = l[k].start /\ v.end = l[k].end /\ v.pa = l[k].pa
      /\ v.space_after = l[k].space_after /\ v.guardstart = x
  BY <1>1, Zenon DEF VmaType
<1>3. m = [l EXCEPT ![k] = v]
  BY Zenon
<1>4. m \in Seq(VmaType) /\ Len(m) = Len(l)
  BY GuardFieldType, Zenon
<1> HIDE DEF v
<1>5. m[k] = v /\ \A i \in (1..Len(l)) \ {k} : m[i] = l[i]
  BY <1>3
<1>6. \A i \in 1..Len(l) :
        /\ m[i].start = l[i].start /\ m[i].end = l[i].end
        /\ m[i].space_after = l[i].space_after /\ m[i].pa = l[i].pa
        /\ m[i].guardstart \in {l[i].guardstart, NOGUARD, l[i].end + 1}
  BY <1>2, <1>5, Zenon
<1> QED
  BY <1>4, <1>6, SameTidy, Zenon

\* The guard pages at the end of sys_mmap.
LEMMA GuardsTidy ==
  ASSUME NEW l \in Seq(VmaType), NEW t \in SUBSET PteType, Tidy(l, t),
         NEW k \in 1..Len(l), k + 1 \in 1..Len(l)
  PROVE  Tidy(SetGuard(DropPrevGuard(l, k), k + 1), t)
<1> DEFINE prev == IF k = 1 THEN 1 ELSE k - 1
           m == DropPrevGuard(l, k)
<1>1. prev \in 1..Len(l) /\ NOGUARD \in Int
  BY Layout
<1> HIDE DEF prev
<1>2. m = l \/ m = [l EXCEPT ![prev].guardstart = NOGUARD]
  BY Zenon DEF DropPrevGuard, prev
<1>3. m \in Seq(VmaType) /\ Len(m) = Len(l)
  BY DropPrevGuardType, Zenon
<1>4. Tidy(m, t)
  <2>1. CASE m = l
    BY <2>1, Zenon
  <2>2. CASE m = [l EXCEPT ![prev].guardstart = NOGUARD]
    BY <2>2, <1>1, GuardTidy, Zenon
  <2> QED
    BY <1>2, <2>1, <2>2, Zenon
<1> HIDE DEF m
<1>5. k + 1 \in 1..Len(m) /\ m[k + 1].end + 1 \in Int
  <2>1. k + 1 \in 1..Len(m)
    BY <1>3, Zenon
  <2>2. m[k + 1].end \in Int
    BY <2>1, <1>3, NodeInts, Zenon
  <2> QED
    BY <2>1, <2>2
<1>6. Tidy([m EXCEPT ![k + 1].guardstart = m[k + 1].end + 1], t)
  BY <1>3, <1>4, <1>5, GuardTidy, Zenon
<1>7. Tidy(SetGuard(m, k + 1), t)
  BY <1>4, <1>6, Zenon DEF SetGuard
<1> QED
  BY <1>7, Zenon DEF m

\* The page-fault handler has mapped the guard page and lets the node grow.
LEMMA GrowTidy ==
  ASSUME NEW l \in Seq(VmaType), NEW t \in SUBSET PteType, Tidy(l, t),
         NEW k \in 2..Len(l), NEW va \in Int, va = l[k].end + 1,
         va < MAX_ADDR, va \notin {f.va : f \in t}, NEW e, e.va = va
  PROVE  Tidy(Grown(l, k), t \cup {e})
<1> DEFINE end == l[k].end + PGSIZE
           g == IF uint(NextStart(l, k) - (end + 1)) < 2 * PGSIZE
                THEN NOGUARD ELSE end + 1
           v == [l[k] EXCEPT !.end = end, !.guardstart = g]
           m == Grown(l, k)
           u == t \cup {e}
<1>0. Len(l) \in Nat /\ k \in 1..Len(l) /\ l # <<>>
  OBVIOUS
<1>1. /\ l[k] \in VmaType /\ l[k].start \in Int /\ l[k].end \in Int
      /\ l[k].space_after \in Int
  BY <1>0, NodeInts, Zenon
<1>2. m = [l EXCEPT ![k] = v]
  BY Zenon DEF Grown
<1>3. /\ v.start = l[k].start /\ v.end = end /\ v.pa = l[k].pa
      /\ v.space_after = l[k].space_after /\ v.guardstart = g
  BY <1>1, Zenon DEF VmaType
<1>4. g \in {NOGUARD, end + 1}
  BY Zenon
<1>5. m \in Seq(VmaType) /\ Len(m) = Len(l)
  BY <1>0, GrownType, Zenon
<1> HIDE DEF v, g, m
<1>6. m[k] = v /\ \A i \in (1..Len(l)) \ {k} : m[i] = l[i]
  BY <1>0, <1>2
<1>7. /\ \A i \in 1..Len(l) : NodeOK(l[i])
      /\ \A i \in 2..Len(l) : NonEmpty(l[i])
      /\ \A i, j \in 1..Len(l) : i < j => l[i].end < l[j].start
      /\ l[1].start = MIN_ADDR
      /\ \A i \in 2..Len(l) : RoomAt(l, i)
      /\ RoomAtHead(l) /\ Sane(l)
  BY Zenon DEF Tidy, Sane, InOrder
<1>8. /\ Aligned(l[k].start) /\ Aligned(va) /\ MIN_ADDR <= l[k].start
      /\ l[k].start <= l[k].end /\ l[k].space_after <= MAX_ADDR - MIN_ADDR
  BY <1>0, <1>7, Zenon DEF NodeOK, NonEmpty
<1>9. end \in Int /\ end + 1 = va + PGSIZE /\ end > l[k].end
  <2>1. \A x \in Int : /\ x + PGSIZE \in Int /\ x + PGSIZE > x
                        /\ x + PGSIZE + 1 = x + 1 + PGSIZE
    BY Layout
  <2> QED
    BY <2>1, <1>1, Zenon
<1>10. end < MAX_ADDR /\ Aligned(end + 1)
  <2>1. Aligned(MAX_ADDR) /\ MAX_ADDR \in Int
    BY LayoutAssumption DEF Aligned
  <2>2. va + PGSIZE <= MAX_ADDR
    BY <2>1, <1>8, AlignedApart, Zenon
  <2>3. Aligned(va + PGSIZE)
    BY <1>8, AlignedNext, Zenon
  <2> QED
    BY <2>1, <2>2, <2>3, <1>9
<1> HIDE DEF end
<1>11. \A j \in 1..Len(l) : k < j => end < l[j].start
  <2> SUFFICES ASSUME NEW j \in 1..Len(l), k < j PROVE end < l[j].start
    BY Zenon
  <2>1. l[j].start \in Int /\ j \in 2..Len(l)
    BY <1>0, NodeInts
  <2>2. l[k].end < l[j].start /\ NonEmpty(l[j]) /\ Aligned(l[j].start)
    BY <2>1, <1>0, <1>7, Zenon DEF NodeOK
  <2>3. \E f \in t : f.va = l[j].start
    BY <2>2, FirstMapped, Zenon
  <2>4. l[j].start # va
    BY <2>3, Zenon
  <2>5. va < l[j].start
    BY <2>1, <2>2, <2>4, <1>1
  <2>6. va + PGSIZE <= l[j].start
    BY <2>1, <2>2, <2>5, <1>8, AlignedApart, Zenon
  <2> QED
    BY <2>1, <2>6, <1>9, Layout
<1>12. NodeOK(v) /\ NonEmpty(v)
  <2>1. l[k].start <= end /\ l[k].start <= end + 1
    BY <1>1, <1>8, <1>9
  <2> QED
    BY <2>1, <1>3, <1>4, <1>8, <1>10, Zenon DEF NodeOK, NonEmpty
<1>13. \A i \in 1..Len(l) : m[i].start = l[i].start /\ m[i].space_after = l[i].space_after
  BY <1>3, <1>6, Zenon
<1>14. InOrder(m)
  <2>1. m[1].start = MIN_ADDR
    <3>1. 1 \in 1..Len(l)
      BY <1>0
    <3> QED
      BY <3>1, <1>7, <1>13, Zenon
  <2>2. \A i \in 1..Len(m) : NodeOK(m[i])
    BY <1>5, <1>6, <1>7, <1>12, Zenon
  <2>3. \A i \in 2..Len(m) : NonEmpty(m[i])
    <3>1. \A i \in 2..Len(l) : i \in 1..Len(l)
      OBVIOUS
    <3> QED
      BY <3>1, <1>5, <1>6, <1>7, <1>12, Zenon
  <2>4. \A i, j \in 1..Len(m) : i < j => m[i].end < m[j].start
    BY <1>3, <1>5, <1>6, <1>7, <1>11, <1>13, Zenon
  <2> QED
    BY <2>1, <2>2, <2>3, <2>4, Zenon DEF InOrder
<1>15. \A i \in 1..Len(l) : NextStart(m, i) = NextStart(l, i)
  BY <1>0, <1>5, <1>13 DEF NextStart
<1>16. \A i \in 2..Len(m) : RoomAt(m, i)
  <2> SUFFICES ASSUME NEW i \in 2..Len(l) PROVE RoomAt(m, i)
    BY <1>5, Zenon
  <2>1. i \in 1..Len(l)
    OBVIOUS
  <2>2. CASE i # k
    BY <2>1, <2>2, <1>6, <1>7, <1>15, Zenon DEF RoomAt
  <2>3. CASE i = k
    <3>1. NextStart(l, k) \in Int
      BY <1>0, <1>7, NextStartIs, Zenon
    <3>2. l[k].space_after >= NextStart(l, k) - l[k].end
      BY <1>7, Zenon DEF RoomAt
    <3>3. \A s, n, a, b \in Int : s >= n - a /\ b > a => s >= n - b
      OBVIOUS
    <3>4. l[k].space_after >= NextStart(l, k) - end
      BY <3>1, <3>2, <3>3, <1>1, <1>9, Zenon
    <3> QED
      BY <2>1, <2>3, <3>4, <1>3, <1>6, <1>15, Zenon DEF RoomAt
  <2> QED
    BY <2>2, <2>3, Zenon
<1>17. RoomAtHead(m)
  <2>1. 1 \in 1..Len(l) /\ k # 1
    BY <1>0
  <2>2. m[1] = l[1] /\ NextStart(m, 1) = NextStart(l, 1)
    BY <2>1, <1>6, <1>15, Zenon
  <2>3. \A i \in 2..Len(l) : m[i].space_after = l[i].space_after
    <3>1. \A i \in 2..Len(l) : i \in 1..Len(l)
      OBVIOUS
    <3> QED
      BY <3>1, <1>13, Zenon
  <2> QED
    BY <2>2, <2>3, <1>5, <1>7, Zenon DEF RoomAtHead, RoomAt
<1>18. Sane(m)
  <2>1. m # <<>>
    BY <1>0, <1>5
  <2> QED
    BY <2>1, <1>14, <1>16, <1>17, Zenon DEF Sane
<1>19. va \in VPages
  BY <1>1, <1>8, Layout DEF VPages, Aligned
<1>20. \A a \in VPages : Covers(v, a) <=> Covers(l[k], a) \/ a = va
  <2> SUFFICES ASSUME NEW a \in VPages
               PROVE  Covers(v, a) <=> Covers(l[k], a) \/ a = va
    BY Zenon
  <2>1. a \in Int /\ Aligned(a)
    BY DEF VPages, Aligned
  <2>2. va < a => va + PGSIZE <= a
    BY <2>1, <1>8, AlignedApart, Zenon
  <2>3. a <= end <=> a <= l[k].end \/ a = va
    BY <2>1, <2>2, <1>1, <1>9, Layout
  <2>4. l[k].start <= va
    BY <1>1, <1>8
  <2> QED
    BY <2>3, <2>4, <1>3, Zenon DEF Covers
<1>21. {f.va : f \in u} = {f.va : f \in t} \cup {va}
  BY Zenon
<1>22. {f.va : f \in t} = {a \in VPages : \E i \in 1..Len(l) : Covers(l[i], a)}
  BY Zenon DEF Tidy
<1>23. \A a \in VPages : (\E i \in 1..Len(m) : Covers(m[i], a))
         <=> a = va \/ \E i \in 1..Len(l) : Covers(l[i], a)
  BY <1>0, <1>5, <1>6, <1>20, Zenon
<1>24. {f.va : f \in u} = {a \in VPages : \E i \in 1..Len(m) : Covers(m[i], a)}
  BY <1>19, <1>21, <1>22, <1>23, Zenon
<1>25. \A i \in 2..Len(m) : NonEmpty(m[i]) => FirstFrame(u, m[i])
  <2> SUFFICES ASSUME NEW i \in 2..Len(l), NonEmpty(m[i])
               PROVE  FirstFrame(u, m[i])
    BY <1>5, Zenon
  <2>0. i \in 1..Len(l)
    OBVIOUS
  <2>1. NonEmpty(l[i])
    <3>1. CASE i = k
      BY <3>1, <1>8, Zenon DEF NonEmpty
    <3>2. CASE i # k
      BY <2>0, <3>2, <1>6, Zenon
    <3> QED
      BY <3>1, <3>2, Zenon
  <2>2. FirstFrame(t, l[i])
    BY <2>1, Zenon DEF Tidy
  <2>3. m[i].start = l[i].start /\ m[i].pa = l[i].pa
    BY <2>0, <1>3, <1>6, Zenon
  <2> QED
    BY <2>2, <2>3, Zenon DEF FirstFrame
<1> HIDE DEF u
<1>26. Tidy(m, u)
  BY <1>18, <1>24, <1>25, Zenon DEF Tidy
<1> QED
  BY <1>26, Zenon DEF m, u

\* exec() makes a tidy list: nothing is mapped and the head is empty.
LEMMA EmptyTidy ==
  ASSUME NEW l \in Seq(VmaType),
         l # <<>> => l[1].guardstart \in {0, JUNK, NOGUARD}
  PROVE  /\ Tidy(EmptyList(l), {})
         /\ EmptyList(l)[1].guardstart \in {0, JUNK, NOGUARD}
<1> DEFINE head == IF l = <<>> THEN ZeroHead ELSE l[1]
           v == [head EXCEPT !.valid = FALSE, !.start = MIN_ADDR,
                             !.end = MIN_ADDR - 1,
                             !.space_after = MAX_ADDR - MIN_ADDR]
           m == EmptyList(l)
<1>1. head \in VmaType /\ head.guardstart \in {0, JUNK, NOGUARD}
  <2>1. ZeroHead \in VmaType /\ ZeroHead.guardstart = 0
    BY DEF ZeroHead, VmaType
  <2>2. l # <<>> => l[1] \in VmaType
    <3>1. l # <<>> => 1 \in 1..Len(l)
      OBVIOUS
    <3> QED
      BY <3>1, NodeInts, Zenon
  <2> QED
    BY <2>1, <2>2, Zenon
<1>2. m = <<v>>
  BY Zenon DEF EmptyList
<1> HIDE DEF head
<1>3. /\ v.start = MIN_ADDR /\ v.end = MIN_ADDR - 1
      /\ v.space_after = MAX_ADDR - MIN_ADDR /\ v.guardstart = head.guardstart
  BY <1>1, Zenon DEF VmaType
<1> HIDE DEF v, m
<1>4. Len(m) = 1 /\ m[1] = v /\ m # <<>>
  BY <1>2, Zenon
<1>5. MIN_ADDR - 1 + 1 = MIN_ADDR /\ ~ (MIN_ADDR <= MIN_ADDR - 1)
      /\ MIN_ADDR <= MIN_ADDR /\ MIN_ADDR - 1 < MAX_ADDR
      /\ MAX_ADDR - MIN_ADDR <= MAX_ADDR - MIN_ADDR
  BY Layout
<1>6. Aligned(MIN_ADDR)
  BY LayoutAssumption, Zenon DEF Aligned
<1>7. NodeOK(v) /\ ~ NonEmpty(v)
  BY <1>1, <1>3, <1>5, <1>6, Zenon DEF NodeOK, NonEmpty
<1>8. 1..Len(m) = {1} /\ 2..Len(m) = {}
  BY <1>4
<1>9. InOrder(m)
  <2>1. \A i, j \in {1} : ~ (i < j)
    OBVIOUS
  <2> QED
    BY <2>1, <1>3, <1>4, <1>7, <1>8, Zenon DEF InOrder
<1>10. RoomAtHead(m)
  <2>1. NextStart(m, 1) = MAX_ADDR
    BY <1>4 DEF NextStart
  <2> QED
    BY <2>1, <1>3, <1>4, <1>8, Zenon DEF RoomAtHead
<1>11. Sane(m)
  BY <1>4, <1>8, <1>9, <1>10, Zenon DEF Sane
<1>12. \A a \in VPages : ~ Covers(v, a)
  <2>1. \A a \in VPages : a \in Int
    BY DEF VPages
  <2> QED
    BY <2>1, <1>3, Layout DEF Covers
<1>13. {f.va : f \in {}} = {a \in VPages : \E i \in 1..Len(m) : Covers(m[i], a)}
  BY <1>4, <1>8, <1>12, Zenon
<1>14. Tidy(m, {})
  BY <1>4, <1>7, <1>8, <1>11, <1>13, Zenon DEF Tidy
<1> QED
  BY <1>1, <1>3, <1>4, <1>14, Zenon DEF m
===========================================================================
