------------------------------- MODULE Inodes -------------------------------
(***************************************************************************)
(* The on-disk file system of fs.c below the inode cache: the block        *)
(* allocator, inodes with direct blocks and one index block, their         *)
(* contents, and directories; and the image mkfs.c makes.                  *)
(*                                                                         *)
(* A block is a row of BSIZE cells.  A cell is a directory entry           *)
(* <<inum, name>>, a block number of an index block or a byte of a file    *)
(* <<n, "">>; offsets and sizes count cells.  The operators take the disk  *)
(* as the buffer cache shows it, a record of the bitmap, the blocks, the   *)
(* inodes and the panic message, and return the changed one.               *)
(***************************************************************************)
EXTENDS Integers, Sequences, FiniteSets, SequencesExt, FiniteSetsExt

CONSTANTS
  BSIZE,      \* cells of a block
  NDIRECT,    \* direct blocks of an inode
  NBLOCKS,    \* data blocks of the disk, numbered from 1
  NINODES     \* inodes of the disk, numbered from 1; 1 is ROOTINO

ASSUME InodesAssumption ==
  /\ BSIZE \in Nat \ {0} /\ NDIRECT \in Nat \ {0}
  /\ NBLOCKS \in Nat /\ NINODES \in Nat \ {0}

ROOTINO == 1
Inums == 1..NINODES
NINDIRECT == BSIZE
MAXFILE == NDIRECT + NINDIRECT

Zero == <<0, "">>
ZeroBlock == [k \in 0..(BSIZE - 1) |-> Zero]
FreeInode ==
  [type |-> "none", nlink |-> 0, size |-> 0, addrs |-> [k \in 0..NDIRECT |-> 0]]

\* F(x), with x computed once.
With(x, F(_)) == CHOOSE y \in {F(v) : v \in {x}} : TRUE

(***************************************************************************)
(* Blocks and inodes.                                                      *)
(***************************************************************************)
Panicked(d, what) == [d EXCEPT !.panic = what]

Balloc(d) ==
  LET free == (1..NBLOCKS) \ d.used
  IN  IF free = {} THEN [b |-> 0, d |-> Panicked(d, "balloc: out of blocks")]
      ELSE [b |-> Min(free),
            d |-> [d EXCEPT !.used = @ \cup {Min(free)},
                            !.data[Min(free)] = ZeroBlock]]

Iupdate(d, inum, ip) == [d EXCEPT !.inode[inum] = ip]

\* The new inode, with everything but its type zero.
Ialloc(d, type) ==
  LET free == {i \in Inums : d.inode[i].type = "none"}
  IN  IF free = {} THEN [i |-> 0, d |-> Panicked(d, "ialloc: no inodes")]
      ELSE [i |-> Min(free),
            d |-> Iupdate(d, Min(free), [FreeInode EXCEPT !.type = type])]

(***************************************************************************)
(* Contents.                                                               *)
(***************************************************************************)
\* The block numbers an inode holds, by place: the direct ones, the index
\* block, and what the index block lists.
Place(d, ip, k) ==
  IF k <= NDIRECT THEN ip.addrs[k]
  ELSE d.data[ip.addrs[NDIRECT]][k - NDIRECT - 1][1]

Held(d, ip) ==
  LET places == {k \in 0..MAXFILE : Place(d, ip, k) # 0}
  IN  [k \in places |-> Place(d, ip, k)]

\* Whether bfree() frees every block once.
Freeable(d, held) ==
  /\ \A k \in DOMAIN held : held[k] \in d.used
  /\ \A k, m \in DOMAIN held : held[k] = held[m] => k = m

\* Mutant: the index block stays allocated.
ItruncKeepsIndex(d, inum, ip) ==
  LET held == Held(d, ip)
      none == [ip EXCEPT !.size = 0, !.addrs = FreeInode.addrs]
      dd   == IF Freeable(d, held)
              THEN [d EXCEPT !.used = @ \ {held[k] : k \in DOMAIN held \ {NDIRECT}}]
              ELSE Panicked(d, "freeing free block")
  IN  [d |-> Iupdate(dd, inum, none), ip |-> none]

Itrunc(d, inum, ip) ==
  LET held == Held(d, ip)
      none == [ip EXCEPT !.size = 0, !.addrs = FreeInode.addrs]
      dd   == IF Freeable(d, held)
              THEN [d EXCEPT !.used = @ \ {held[k] : k \in DOMAIN held}]
              ELSE Panicked(d, "freeing free block")
  IN  [d |-> Iupdate(dd, inum, none), ip |-> none]

\* The block of ip with number bn, allocated if it is not there: a direct
\* block or the index block first, then the block the index block lists.
Bmap(d, ip, bn) ==
  LET k == IF bn < NDIRECT THEN bn ELSE NDIRECT
      Listed(r) ==
        LET y == [ip EXCEPT !.addrs[k] = r.b]
            e == r.d.data[r.b][bn - NDIRECT][1]
        IN  IF bn < NDIRECT \/ e # 0
            THEN [d |-> r.d, ip |-> y, b |-> IF bn < NDIRECT THEN r.b ELSE e]
            ELSE With(Balloc(r.d), LAMBDA n :
                   [d |-> [n.d EXCEPT !.data[r.b][bn - NDIRECT] = <<n.b, "">>],
                    ip |-> y, b |-> n.b])
  IN  With(IF ip.addrs[k] # 0 THEN [b |-> ip.addrs[k], d |-> d] ELSE Balloc(d),
           Listed)

\* Every cell below the size has a block, so that readi() allocates none.
Cell(d, ip, off) ==
  LET bn == off \div BSIZE
      b  == Place(d, ip, IF bn < NDIRECT THEN bn ELSE bn + 1)
  IN  d.data[b][off % BSIZE]

\* The cells read, or nothing behind the end.
Readi(d, ip, off, n) ==
  LET m == IF off + n > ip.size THEN ip.size - off ELSE n
  IN  [k \in 1..m |-> Cell(d, ip, off + k - 1)]

\* One step of the loop of writei(), for one cell.
Store(x, cell) ==
  With(x, LAMBDA v :
    With(Bmap(v.d, v.ip, v.off \div BSIZE), LAMBDA y :
      [d |-> [y.d EXCEPT !.data[y.b][v.off % BSIZE] = cell],
       ip |-> y.ip, off |-> v.off + 1]))

Writei(d, inum, ip, off, cells) ==
  LET Sized(x) ==
        LET y == [x.ip EXCEPT !.size = x.off]
        IN  IF x.off > ip.size
            THEN [d |-> Iupdate(x.d, inum, y), ip |-> y, n |-> Len(cells)]
            ELSE [d |-> x.d, ip |-> x.ip, n |-> Len(cells)]
  IN  IF off > ip.size \/ off + Len(cells) > MAXFILE * BSIZE
      THEN [d |-> d, ip |-> ip, n |-> -1]
      ELSE With(FoldLeft(Store, [d |-> d, ip |-> ip, off |-> off], cells), Sized)

(***************************************************************************)
(* Directories.                                                            *)
(***************************************************************************)
\* Where the name is in the directory, if it is.
Dirlookup(d, dp, name) ==
  {off \in 0..(dp.size - 1) : /\ Cell(d, dp, off)[1] # 0
                              /\ Cell(d, dp, off)[2] = name}

\* The first empty entry, or the end.
Slot(d, dp) ==
  Min({off \in 0..(dp.size - 1) : Cell(d, dp, off)[1] = 0} \cup {dp.size})

\* dirlink() when the name is not there.
Dirlink(d, dinum, dp, name, inum) ==
  With(Writei(d, dinum, dp, Slot(d, dp), <<<<inum, name>>>>), LAMBDA w :
    [d |-> IF w.n = 1 THEN w.d ELSE Panicked(w.d, "dirlink"), ip |-> w.ip])

Isdirempty(d, dp) == \A off \in 2..(dp.size - 1) : Cell(d, dp, off)[1] = 0

(***************************************************************************)
(* mkfs.c: an image with a root directory that holds the given files, each *)
(* of the given number of cells.                                           *)
(***************************************************************************)
Blank ==
  [used |-> {}, data |-> [b \in 0..NBLOCKS |-> ZeroBlock],
   inode |-> [i \in Inums |-> FreeInode], panic |-> "none"]

\* ialloc() of mkfs: the next inode, with one link.
MkInode(d, inum, type) ==
  Iupdate(d, inum, [FreeInode EXCEPT !.type = type, !.nlink = 1])

\* iappend(): block numbers are given out in order and the bitmap is
\* written at the end, so that taking the lowest free one is the same.
Iappend(d, inum, cells) ==
  Writei(d, inum, d.inode[inum], d.inode[inum].size, cells).d

\* The size of the root directory is rounded up to a block behind its last
\* entry.
MkRoot(d) ==
  [d EXCEPT !.inode[ROOTINO].size = ((@ \div BSIZE) + 1) * BSIZE]

\* One file of the command line.
MkFile(d, file) ==
  With(d, LAMBDA e :
    LET inum == Min({i \in Inums : e.inode[i].type = "none"})
    IN  With(Iappend(MkInode(e, inum, "file"), ROOTINO, <<<<inum, file[1]>>>>),
             LAMBDA f : Iappend(f, inum, [k \in 1..file[2] |-> <<inum, "">>])))

Mkfs(files) ==
  LET root == Iappend(MkInode(Blank, ROOTINO, "dir"), ROOTINO,
                      <<<<ROOTINO, ".">>, <<ROOTINO, "..">>>>)
  IN  With(FoldLeft(MkFile, root, files), MkRoot)
=============================================================================
