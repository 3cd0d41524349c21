------------------------------ MODULE Umalloc ------------------------------
(***************************************************************************)
(* malloc() and free() of umalloc.c, on the heap of one process: hdr is    *)
(* the headers, by address, of the blocks in use (live) and of the free    *)
(* ones, which their ptr link into a ring.  Addresses and sizes count      *)
(* headers.                                                                *)
(***************************************************************************)
EXTENDS Integers, FiniteSets, FiniteSetsExt

CONSTANTS
  MINCORE    \* units that morecore() asks for at least

NULL == -1
base == 0    \* below every address that sbrk() returns

\* got: the units that morecore() has got.
NoHeap == [hdr |-> [a \in {base} |-> [ptr |-> base, size |-> 0]],
           freep |-> NULL, live |-> {}, got |-> {}]

Blocks(h) == DOMAIN h.hdr \ h.live
Ptr(h, a) == h.hdr[a].ptr
Size(h, a) == h.hdr[a].size
Units(h, a) == a..(a + Size(h, a) - 1)

\* The k-th free block from freep.
Nth(h, n) ==
  LET nth[k \in 0..n] == IF k = 0 THEN h.freep ELSE Ptr(h, nth[k - 1])
  IN  nth[n]

\* The headers of h with those of new in their place, without the ones in gone.
Patch(h, new, gone) ==
  [a \in (DOMAIN h.hdr \cup DOMAIN new) \ gone |->
     IF a \in DOMAIN new THEN new[a] ELSE h.hdr[a]]

Header(ptr, size) == [ptr |-> ptr, size |-> size]

(***************************************************************************)
(* free().                                                                 *)
(***************************************************************************)
\* The loop stops at p: bp is between p and the next block, or p is the last
\* and bp comes after it or before the first.
After(h, bp, p) ==
  LET q == Ptr(h, p)
  IN  \/ bp > p /\ bp < q
      \/ p >= q /\ (bp > p \/ bp < q)

Prev(h, bp) ==
  Nth(h, Min({k \in 0..Cardinality(Blocks(h)) : After(h, bp, Nth(h, k))}))

\* Mutant: the block is joined with the next one but not with the one before.
PutUp(h, bp, p) ==
  LET q  == Ptr(h, p)
      up == bp + Size(h, bp) = q
      b  == IF up THEN Header(Ptr(h, q), Size(h, bp) + Size(h, q))
            ELSE Header(q, Size(h, bp))
  IN  [h EXCEPT !.live = @ \ {bp}, !.freep = p,
                !.hdr = Patch(h, [a \in {p, bp} |-> IF a = p
                                    THEN Header(bp, Size(h, p)) ELSE b],
                              IF up THEN {q} ELSE {})]

\* bp goes after p, and is joined with the next block and with p where they
\* touch.
Put(h, bp, p) ==
  LET q    == Ptr(h, p)
      up   == bp + Size(h, bp) = q
      down == p + Size(h, p) = bp
      b    == IF up THEN Header(Ptr(h, q), Size(h, bp) + Size(h, q))
              ELSE Header(q, Size(h, bp))
      pp   == IF down THEN Header(b.ptr, Size(h, p) + b.size)
              ELSE Header(bp, Size(h, p))
  IN  [h EXCEPT !.live = @ \ {bp}, !.freep = p,
                !.hdr = Patch(h, [a \in {p, bp} |-> IF a = p THEN pp ELSE b],
                              (IF up THEN {q} ELSE {})
                              \cup (IF down THEN {bp} ELSE {}))]

Free(h, bp) == Put(h, bp, Prev(h, bp))

\* morecore(): the nu units at hp, which sbrk() returned.
Morecore(h, hp, nu) ==
  Free([h EXCEPT !.hdr = Patch(h, [a \in {hp} |-> Header(NULL, nu)], {}),
                 !.got = @ \cup (hp..(hp + nu - 1))], hp)

(***************************************************************************)
(* malloc().                                                               *)
(***************************************************************************)
Started(h) == IF h.freep = NULL THEN [h EXCEPT !.freep = base] ELSE h

\* The blocks that are large enough, by their place after freep.
Fits(h, nunits) ==
  {k \in 1..Cardinality(Blocks(h)) : Size(h, Nth(h, k)) >= nunits}

\* Mutant: the tail of a block is taken one unit too low.
TakeLow(h, nunits) ==
  LET k    == Min(Fits(h, nunits))
      prev == Nth(h, k - 1)
      p    == Nth(h, k)
      rest == Size(h, p) - nunits
  IN  IF rest = 0
      THEN [h EXCEPT !.live = @ \cup {p}, !.freep = prev,
                     !.hdr[prev].ptr = Ptr(h, p)]
      ELSE [h EXCEPT !.live = @ \cup {p + rest - 1}, !.freep = prev,
                     !.hdr = Patch(h, [a \in {p, p + rest - 1} |->
                         IF a = p THEN Header(Ptr(h, p), rest)
                         ELSE Header(NULL, nunits)], {})]

\* The first block that fits is taken whole, or its tail.
Take(h, nunits) ==
  LET k    == Min(Fits(h, nunits))
      prev == Nth(h, k - 1)
      p    == Nth(h, k)
      rest == Size(h, p) - nunits
  IN  IF rest = 0
      THEN [h EXCEPT !.live = @ \cup {p}, !.freep = prev,
                     !.hdr[prev].ptr = Ptr(h, p)]
      ELSE [h EXCEPT !.live = @ \cup {p + rest}, !.freep = prev,
                     !.hdr = Patch(h, [a \in {p, p + rest} |->
                         IF a = p THEN Header(Ptr(h, p), rest)
                         ELSE Header(NULL, nunits)], {})]
=============================================================================
