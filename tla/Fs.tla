--------------------------------- MODULE Fs ---------------------------------
(***************************************************************************)
(* The inode cache of fs.c, path names, and the system calls of sysfile.c  *)
(* and file.c on them, made by several processes.                          *)
(*                                                                         *)
(* A step is what a process does from taking the sleep lock of an inode to *)
(* giving it up, or up to the next lock it may have to wait for; in        *)
(* between it touches the inode cache once.  Every call runs within        *)
(* begin_op() and end_op(), so its disk writes are atomic (module Log); a  *)
(* panic leaves what it finds.                                             *)
(***************************************************************************)
EXTENDS Inodes

CONSTANTS
  Procs,
  NINODE,     \* entries of the inode cache
  Script,     \* bound: the calls with a path to choose from at first, when
              \* one call is made after the other
  Calls,      \* the calls with a path the programs make then
  Writes,     \* the lengths of their writes
  Files,      \* what mkfs puts into the image
  MaxCalls,   \* bound: calls made altogether
  None        \* nobody

VARIABLES
  disk,       \* see Inodes
  icache,     \* the inode cache
  cwd,        \* of every process: its current directory
  ofile,      \* of every process: its open file, if any
  loc,        \* of every process: the call it is in
  calls

vars == <<disk, icache, cwd, ofile, loc, calls>>

Slots == 1..NINODE
Overflow == NINODE + 1
NoFile == [ip |-> 0, off |-> 0, writable |-> FALSE]

\* pc: the next step; op, new: the call; path, par: the arguments of namex();
\* ip, dp, name: local variables; old: the first inode of link();
\* put: the inode of an iput() under way, dropping: past its locked part.
Idle ==
  [pc |-> "idle", op |-> "none", new |-> <<>>, path |-> <<>>, par |-> FALSE,
   name |-> "", ip |-> 0, dp |-> 0, old |-> 0, put |-> 0, dropping |-> FALSE]

\* The first process has the root directory as its current one, and the
\* others got theirs by fork().
Init ==
  /\ disk = Mkfs(Files)
  /\ icache = [s \in Slots |->
       [inum |-> IF s = 1 THEN ROOTINO ELSE 0, lock |-> None,
        ref |-> IF s = 1 THEN Cardinality(Procs) ELSE 0,
        valid |-> FALSE, ip |-> FreeInode]]
  /\ cwd = [p \in Procs |-> 1]
  /\ ofile = [p \in Procs |-> NoFile]
  /\ loc = [p \in Procs |-> Idle]
  /\ calls = 0

(***************************************************************************)
(* The inode cache.                                                        *)
(***************************************************************************)
Iget(c, inum) ==
  LET hits  == {s \in Slots : c[s].ref > 0 /\ c[s].inum = inum}
      empty == {s \in Slots : c[s].ref = 0}
  IN  IF hits # {}
      THEN [s |-> Min(hits), c |-> [c EXCEPT ![Min(hits)].ref = @ + 1]]
      ELSE IF empty = {} THEN [s |-> Overflow, c |-> c]
      ELSE [s |-> Min(empty),
            c |-> [c EXCEPT ![Min(empty)].inum = inum, ![Min(empty)].ref = 1,
                            ![Min(empty)].valid = FALSE]]

\* Mutant: the reference is not counted.
IdupUncounted(c, s) == c

Idup(c, s) == [c EXCEPT ![s].ref = @ + 1]

\* The inode as ilock() makes it valid.
Loaded(s) == IF icache[s].valid THEN icache[s].ip ELSE disk.inode[icache[s].inum]

Lockable(s) == icache[s].lock = None

\* The cache with s locked by p, and unlocked with the inode ip in it.
Ilock(c, s, p) ==
  [c EXCEPT ![s].lock = p, ![s].valid = TRUE, ![s].ip = Loaded(s)]
Set(c, s, ip) == [c EXCEPT ![s].ip = ip]
Iunlock(c, s) == [c EXCEPT ![s].lock = None]

\* The inode whose lock p takes next, if any.
Wants(p) ==
  LET l == loc[p]
  IN  IF l.put # 0 THEN (IF l.dropping THEN 0 ELSE l.put)
      ELSE IF l.pc \in {"namex", "open", "exists", "unlink it", "link", "chdir"}
      THEN l.ip
      ELSE IF l.pc \in {"create", "unlink", "link new"} THEN l.dp
      ELSE IF l.pc = "link bad" THEN l.old
      ELSE 0

Stops(why) ==
  /\ disk' = Panicked(disk, why)
  /\ UNCHANGED <<icache, cwd, ofile, loc, calls>>

\* What a step leaves: the disk, the cache, the local variables, the open
\* file and the current directory.  ilock() of a freed inode and iget() with
\* the cache full panic, and so may what the step does to the disk.
Change(p, d, c, l, f, dir) ==
  LET s   == Wants(p)
      why == IF loc[p].put = 0 /\ s # 0 /\ Loaded(s).type = "none"
             THEN "ilock: no type"
             ELSE IF Overflow \in {l.ip, l.dp, l.put} THEN "iget: no inodes"
             ELSE d.panic
  IN  IF why # "none" THEN Stops(why)
      ELSE /\ disk' = d
           /\ icache' = c
           /\ loc' = [loc EXCEPT ![p] = l]
           /\ ofile' = [ofile EXCEPT ![p] = f]
           /\ cwd' = [cwd EXCEPT ![p] = dir]
           /\ UNCHANGED calls

Step(p, d, c, l) == Change(p, d, c, l, ofile[p], cwd[p])

\* The process is at pc, with no iput() to finish.
At(p, pc) == loc[p].pc = pc /\ loc[p].put = 0 /\ disk.panic = "none"

\* The program makes a call of its own.
Calling(p) == At(p, "idle") /\ Len(Script) <= calls /\ calls < MaxCalls

\* The calls with a path that may be made now: at first those Script lists.
Offered ==
  IF calls >= Len(Script) THEN (IF calls < MaxCalls THEN Calls ELSE {})
  ELSE IF \A p \in Procs : At(p, "idle") THEN Script[calls + 1] ELSE {}

\* Mutant: the inode is freed whoever else refers to it.
IputLockedAnyway(p) ==
  LET s == loc[p].put
      c == icache[s]
      t == Itrunc(disk, c.inum, c.ip)
      z == [t.ip EXCEPT !.type = "none"]
  IN  /\ s # 0 /\ ~ loc[p].dropping /\ disk.panic = "none"
      /\ c.lock = None
      /\ IF c.valid /\ c.ip.nlink = 0
         THEN Step(p, Iupdate(t.d, c.inum, z),
                   [icache EXCEPT ![s].ip = z, ![s].valid = FALSE],
                   [loc[p] EXCEPT !.dropping = TRUE])
         ELSE Step(p, disk, icache, [loc[p] EXCEPT !.dropping = TRUE])

\* Mutant: the links are not looked at.
IputLockedNamed(p) ==
  LET s == loc[p].put
      c == icache[s]
      t == Itrunc(disk, c.inum, c.ip)
      z == [t.ip EXCEPT !.type = "none"]
  IN  /\ s # 0 /\ ~ loc[p].dropping /\ disk.panic = "none"
      /\ c.lock = None
      /\ IF c.valid /\ c.ref = 1
         THEN Step(p, Iupdate(t.d, c.inum, z),
                   [icache EXCEPT ![s].ip = z, ![s].valid = FALSE],
                   [loc[p] EXCEPT !.dropping = TRUE])
         ELSE Step(p, disk, icache, [loc[p] EXCEPT !.dropping = TRUE])

\* The part of iput() under the lock of the inode: free an inode without
\* links if this is the last reference.
IputLocked(p) ==
  LET s == loc[p].put
      c == icache[s]
      t == Itrunc(disk, c.inum, c.ip)
      z == [t.ip EXCEPT !.type = "none"]
  IN  /\ s # 0 /\ ~ loc[p].dropping /\ disk.panic = "none"
      /\ c.lock = None
      /\ IF c.valid /\ c.ip.nlink = 0 /\ c.ref = 1
         THEN Step(p, Iupdate(t.d, c.inum, z),
                   [icache EXCEPT ![s].ip = z, ![s].valid = FALSE],
                   [loc[p] EXCEPT !.dropping = TRUE])
         ELSE Step(p, disk, icache, [loc[p] EXCEPT !.dropping = TRUE])

\* The rest of iput(): drop the reference.
IputDrop(p) ==
  /\ loc[p].dropping /\ disk.panic = "none"
  /\ Step(p, disk, [icache EXCEPT ![loc[p].put].ref = @ - 1],
          [loc[p] EXCEPT !.put = 0, !.dropping = FALSE])

(***************************************************************************)
(* Path names: a sequence of elements, behind "/" if absolute.             *)
(***************************************************************************)
\* Where namex() goes on when it has found the inode.
Found(l) ==
  CASE l.op \in {"creat", "mkdir", "mknod"} -> "create"
    [] l.op = "link" -> IF l.old = 0 THEN "link" ELSE "link new"
    [] l.op \in {"open", "openw"} -> "open"
    [] l.op \in {"unlink", "chdir"} -> l.op

\* The call fails, or link() takes its first half back.
Failed(l) ==
  [l EXCEPT !.pc = IF l.old = 0 THEN "idle" ELSE "link bad",
            !.ip = 0, !.dp = 0, !.path = <<>>]

\* The loop of namex() is left when the path is used up.
Loop(l) ==
  IF l.path # <<>> THEN [l EXCEPT !.pc = "namex"]
  ELSE IF l.par THEN [Failed(l) EXCEPT !.put = l.ip]
  ELSE [l EXCEPT !.pc = Found(l)]

\* The start of namex(): the cache and the local variables.
Namex(c, p, l, path, par) ==
  LET abs == path[1] = "/"
      g   == IF abs THEN Iget(c, ROOTINO) ELSE [s |-> cwd[p], c |-> Idup(c, cwd[p])]
  IN  [c |-> g.c,
       l |-> Loop([l EXCEPT !.ip = g.s, !.par = par,
                            !.path = IF abs THEN Tail(path) ELSE path])]

\* One turn of the loop: ip is locked, searched and put.
NamexElem(p) ==
  LET l    == loc[p]
      c    == Iunlock(Ilock(icache, l.ip, p), l.ip)
      ip   == c[l.ip].ip
      name == Head(l.path)
      offs == Dirlookup(disk, ip, name)
      g    == Iget(c, Cell(disk, ip, Min(offs))[1])
  IN  /\ At(p, "namex") /\ Lockable(l.ip)
      /\ IF ip.type = "dir" /\ l.par /\ Len(l.path) = 1
         THEN Step(p, disk, c, [l EXCEPT !.pc = Found(l), !.dp = l.ip, !.ip = 0,
                                         !.name = name, !.path = <<>>])
         ELSE IF ip.type # "dir" \/ offs = {}
         THEN Step(p, disk, c, [Failed(l) EXCEPT !.put = l.ip])
         ELSE Step(p, disk, g.c, [Loop([l EXCEPT !.ip = g.s, !.path = Tail(@)])
                                    EXCEPT !.put = l.ip])

(***************************************************************************)
(* System calls with a path.                                               *)
(***************************************************************************)
Begin(p, call) ==
  LET l == [Idle EXCEPT !.op = call.op, !.new = call.new]
      n == Namex(icache, p, l, call.path,
                 call.op \in {"creat", "mkdir", "mknod", "unlink"})
  IN  /\ At(p, "idle")
      /\ IF n.l.ip = Overflow THEN Stops("iget: no inodes")
         ELSE /\ icache' = n.c
              /\ loc' = [loc EXCEPT ![p] = n.l]
              /\ calls' = calls + 1
              /\ UNCHANGED <<disk, cwd, ofile>>

\* The end of open(): a descriptor for the locked inode ip.  A process has
\* one descriptor; with none left the inode is put again.
Opened(p, c, l, writable) ==
  IF ofile[p].ip = 0
  THEN Change(p, disk, Iunlock(c, l.ip), Idle,
              [ip |-> l.ip, off |-> 0, writable |-> writable], cwd[p])
  ELSE Step(p, disk, Iunlock(c, l.ip), [Idle EXCEPT !.put = l.ip])

\* open() without O_CREATE, for reading, or for writing: not a directory.
Open(p) ==
  LET l == loc[p]
      c == Ilock(icache, l.ip, p)
  IN  /\ At(p, "open") /\ Lockable(l.ip)
      /\ IF c[l.ip].ip.type = "dir" /\ l.op = "openw"
         THEN Step(p, disk, Iunlock(c, l.ip), [Failed(l) EXCEPT !.put = l.ip])
         ELSE Opened(p, c, l, l.op = "openw")

\* The inode a.i with one link, for a directory with its two entries, which
\* make one link more to dp.
Fresh(a, type, dinum, dp) ==
  LET n  == [a.d.inode[a.i] EXCEPT !.nlink = 1]
      up == [dp EXCEPT !.nlink = @ + 1]
  IN  IF type # "dir" THEN [d |-> Iupdate(a.d, a.i, n), ip |-> n, dp |-> dp]
      ELSE With(Dirlink(Iupdate(Iupdate(a.d, a.i, n), dinum, up), a.i, n, ".", a.i),
             LAMBDA x : With(Dirlink(x.d, a.i, x.ip, "..", dinum),
               LAMBDA y : [d |-> y.d, ip |-> y.ip, dp |-> up]))

\* create() in a directory without the name.  Nobody else knows the new
\* inode, so its lock is free.
Created(p, c, type) ==
  LET l     == loc[p]
      dinum == c[l.dp].inum
  IN  \E a \in {Ialloc(disk, type)} :
        IF a.i = 0 THEN Step(p, a.d, icache, l)
        ELSE \E g \in {Iget(c, a.i)}, x \in {Fresh(a, type, dinum, c[l.dp].ip)} :
             \E y \in {Dirlink(x.d, dinum, x.dp, l.name, a.i)} :
               Step(p, y.d,
                    [g.c EXCEPT ![l.dp].ip = y.ip, ![l.dp].lock = None,
                                ![g.s].lock = p, ![g.s].valid = TRUE,
                                ![g.s].ip = x.ip],
                    [l EXCEPT !.pc = "created", !.ip = g.s, !.dp = 0, !.put = l.dp])

CreateType == [creat |-> "file", mkdir |-> "dir", mknod |-> "dev"]

Create(p) ==
  LET l    == loc[p]
      c    == Ilock(icache, l.dp, p)
      offs == Dirlookup(disk, c[l.dp].ip, l.name)
      g    == Iget(c, Cell(disk, c[l.dp].ip, Min(offs))[1])
  IN  /\ At(p, "create") /\ Lockable(l.dp)
      /\ IF offs = {} THEN Created(p, c, CreateType[l.op])
         ELSE Step(p, disk, Iunlock(g.c, l.dp),
                   [l EXCEPT !.pc = "exists", !.ip = g.s, !.dp = 0, !.put = l.dp])

\* create() found the name: it is opened if it is a file.
Exists(p) ==
  LET l == loc[p]
      c == Ilock(icache, l.ip, p)
  IN  /\ At(p, "exists") /\ Lockable(l.ip)
      /\ IF l.op = "creat" /\ c[l.ip].ip.type = "file" THEN Opened(p, c, l, TRUE)
         ELSE Step(p, disk, Iunlock(c, l.ip), [Failed(l) EXCEPT !.put = l.ip])

\* After create(): open() opens the inode, mkdir() and mknod() put it.
AfterCreate(p) ==
  LET l == loc[p]
  IN  /\ At(p, "created")
      /\ IF l.op = "creat" THEN Opened(p, icache, l, TRUE)
         ELSE Step(p, disk, Iunlock(icache, l.ip), [Idle EXCEPT !.put = l.ip])

\* The process itself is the only one to see its current directory, so the
\* assignment after the iput() of the old one is made here.
Chdir(p) ==
  LET l == loc[p]
      c == Iunlock(Ilock(icache, l.ip, p), l.ip)
  IN  /\ At(p, "chdir") /\ Lockable(l.ip)
      /\ IF c[l.ip].ip.type # "dir"
         THEN Step(p, disk, c, [Failed(l) EXCEPT !.put = l.ip])
         ELSE Change(p, disk, c, [Idle EXCEPT !.put = cwd[p]], ofile[p], l.ip)

(***************************************************************************)
(* unlink() and link().                                                    *)
(***************************************************************************)
Unlink(p) ==
  LET l    == loc[p]
      c    == Ilock(icache, l.dp, p)
      offs == Dirlookup(disk, c[l.dp].ip, l.name)
      g    == Iget(c, Cell(disk, c[l.dp].ip, Min(offs))[1])
  IN  /\ At(p, "unlink") /\ Lockable(l.dp)
      /\ IF l.name \in {".", ".."} \/ offs = {}
         THEN Step(p, disk, Iunlock(c, l.dp), [Failed(l) EXCEPT !.put = l.dp])
         ELSE Step(p, disk, g.c, [l EXCEPT !.pc = "unlink it", !.ip = g.s])

\* With dp and ip locked: the entry is erased.
UnlinkIt(p) ==
  LET l    == loc[p]
      c    == Ilock(icache, l.ip, p)
      ip   == c[l.ip].ip
      dp   == c[l.dp].ip
      dinum == c[l.dp].inum
      off  == Min(Dirlookup(disk, dp, l.name))
      w    == Writei(disk, dinum, dp, off, <<Zero>>)
      down == IF ip.type = "dir" THEN [w.ip EXCEPT !.nlink = @ - 1] ELSE w.ip
  IN  /\ At(p, "unlink it") /\ Lockable(l.ip)
      /\ IF ip.nlink < 1 THEN Step(p, Panicked(disk, "unlink: nlink < 1"), icache, l)
         ELSE IF ip.type = "dir" /\ ~ Isdirempty(disk, ip)
         THEN Step(p, disk, Iunlock(c, l.ip),
                   [l EXCEPT !.pc = "unlink bad", !.ip = 0, !.put = l.ip])
         ELSE Step(p, IF ip.type = "dir" THEN Iupdate(w.d, dinum, down) ELSE w.d,
                   Iunlock(Set(c, l.dp, down), l.dp),
                   [l EXCEPT !.pc = "unlinked", !.dp = 0, !.put = l.dp])

UnlinkBad(p) ==
  LET l == loc[p]
  IN  /\ At(p, "unlink bad")
      /\ Step(p, disk, Iunlock(icache, l.dp), [Failed(l) EXCEPT !.put = l.dp])

\* Mutant: the count is changed in the cache only.
RelinkQuiet(p, c, s, n, l) ==
  LET ip == [c[s].ip EXCEPT !.nlink = @ + n]
  IN  Step(p, disk, Iunlock(Set(c, s, ip), s), l)

\* The link count of the locked inode s, by n.
Relink(p, c, s, n, l) ==
  LET ip == [c[s].ip EXCEPT !.nlink = @ + n]
  IN  Step(p, Iupdate(disk, c[s].inum, ip), Iunlock(Set(c, s, ip), s), l)

Unlinked(p) ==
  LET l == loc[p]
  IN  /\ At(p, "unlinked")
      /\ Relink(p, icache, l.ip, -1, [Idle EXCEPT !.put = l.ip])

\* The first inode of link(), then the search for the second name.
Link(p) ==
  LET l == loc[p]
      c == Ilock(icache, l.ip, p)
      n == Namex(c, p, [l EXCEPT !.old = l.ip], l.new, TRUE)
  IN  /\ At(p, "link") /\ Lockable(l.ip)
      /\ IF c[l.ip].ip.type = "dir"
         THEN Step(p, disk, Iunlock(c, l.ip), [Failed(l) EXCEPT !.put = l.ip])
         ELSE Relink(p, n.c, l.ip, 1, n.l)

\* dirlink(), which puts the inode it finds while dp is still locked.
LinkNew(p) ==
  LET l    == loc[p]
      c    == Ilock(icache, l.dp, p)
      offs == Dirlookup(disk, c[l.dp].ip, l.name)
      g    == Iget(c, Cell(disk, c[l.dp].ip, Min(offs))[1])
      y    == Dirlink(disk, c[l.dp].inum, c[l.dp].ip, l.name, c[l.old].inum)
  IN  /\ At(p, "link new") /\ Lockable(l.dp)
      /\ IF offs # {}
         THEN Step(p, disk, g.c, [l EXCEPT !.pc = "link exists", !.put = g.s])
         ELSE Step(p, y.d, Iunlock(Set(c, l.dp, y.ip), l.dp),
                   [l EXCEPT !.pc = "linked", !.dp = 0, !.put = l.dp])

LinkExists(p) ==
  LET l == loc[p]
  IN  /\ At(p, "link exists")
      /\ Step(p, disk, Iunlock(icache, l.dp), [Failed(l) EXCEPT !.put = l.dp])

Linked(p) ==
  /\ At(p, "linked")
  /\ Step(p, disk, icache, [Idle EXCEPT !.put = loc[p].old])

\* Mutant: the count is not taken back.
LinkBadKeeps(p) ==
  LET l == loc[p]
      c == Ilock(icache, l.old, p)
  IN  /\ At(p, "link bad") /\ Lockable(l.old)
      /\ Step(p, disk, Iunlock(c, l.old), [Idle EXCEPT !.put = l.old])

LinkBad(p) ==
  LET l == loc[p]
      c == Ilock(icache, l.old, p)
  IN  /\ At(p, "link bad") /\ Lockable(l.old)
      /\ Relink(p, c, l.old, -1, [Idle EXCEPT !.put = l.old])

(***************************************************************************)
(* Calls on an open file, and the end of a process.                        *)
(***************************************************************************)
\* read() of one cell.  Reading or writing a device leaves the file system
\* alone.
Read(p) ==
  LET f  == ofile[p]
      c  == Iunlock(Ilock(icache, f.ip, p), f.ip)
      ip == c[f.ip].ip
  IN  /\ Calling(p)
      /\ f.ip # 0 /\ Lockable(f.ip) /\ ip.type # "dev"
      /\ icache' = c
      /\ ofile' = [ofile EXCEPT ![p].off = @ + Len(Readi(disk, ip, f.off, 1))]
      /\ calls' = calls + 1
      /\ UNCHANGED <<disk, cwd, loc>>

\* write() of n cells, few enough for one transaction.
Write(p, n) ==
  LET f == ofile[p]
      c == Ilock(icache, f.ip, p)
      w == Writei(disk, c[f.ip].inum, c[f.ip].ip, f.off,
                  [k \in 1..n |-> <<c[f.ip].inum, "">>])
  IN  /\ Calling(p)
      /\ f.ip # 0 /\ f.writable /\ Lockable(f.ip)
      /\ c[f.ip].ip.type # "dev"
      /\ IF w.d.panic # "none" THEN Stops(w.d.panic)
         ELSE /\ disk' = w.d
              /\ icache' = Iunlock(Set(c, f.ip, w.ip), f.ip)
              /\ ofile' = [ofile EXCEPT ![p].off = IF w.n > 0 THEN @ + w.n ELSE @]
              /\ calls' = calls + 1
              /\ UNCHANGED <<cwd, loc>>

\* close() of the only descriptor: the inode is put in a transaction.
Close(p) ==
  /\ Calling(p)
  /\ ofile[p].ip # 0
  /\ ofile' = [ofile EXCEPT ![p] = NoFile]
  /\ loc' = [loc EXCEPT ![p] = [Idle EXCEPT !.put = ofile[p].ip]]
  /\ calls' = calls + 1
  /\ UNCHANGED <<disk, icache, cwd>>

(***************************************************************************)
(* The specification.                                                      *)
(***************************************************************************)
Act(p) ==
  \/ IputLocked(p) \/ IputDrop(p) \/ NamexElem(p) \/ Open(p) \/ Create(p)
  \/ Exists(p) \/ AfterCreate(p) \/ Chdir(p) \/ Unlink(p) \/ UnlinkIt(p)
  \/ UnlinkBad(p) \/ Unlinked(p) \/ Link(p) \/ LinkNew(p) \/ LinkExists(p)
  \/ Linked(p) \/ LinkBad(p)

\* Every call has been made and has returned, or its process waits for ever,
\* or the kernel has panicked.
Stuck(p) == Wants(p) # 0 /\ icache[Wants(p)].lock # None
Done ==
  /\ \/ disk.panic # "none"
     \/ \A p \in Procs : Stuck(p) \/ (calls = MaxCalls /\ At(p, "idle"))
  /\ UNCHANGED vars

Next ==
  \/ \E p \in Procs : Act(p) \/ Read(p) \/ Close(p)
  \/ \E p \in Procs, call \in Offered : Begin(p, call)
  \/ \E p \in Procs, n \in Writes : Write(p, n)
  \/ Done

Spec == Init /\ [][Next]_vars

(***************************************************************************)
(* Properties.                                                             *)
(***************************************************************************)
\* The inodes as the file system knows them.
Cached(i) == {s \in Slots : icache[s].ref > 0 /\ icache[s].inum = i}
Table ==
  [i \in Inums |->
     LET v == {s \in Cached(i) : icache[s].valid}
     IN  IF v = {} THEN disk.inode[i] ELSE icache[Min(v)].ip]

Live(t) == {i \in Inums : t[i].type # "none"}

\* The used entries of all directories: which one, what it leads to, its name.
Entry(t, i, off) ==
  LET c == Cell(disk, t[i], off)
  IN  [dir |-> i, off |-> off, inum |-> c[1], name |-> c[2]]
Entries(t) ==
  {e \in UNION {{Entry(t, i, off) : off \in 0..(t[i].size - 1)} :
                  i \in {i \in Inums : t[i].type = "dir"}} : e.inum # 0}

\* Directories without a name, that somebody still uses.
Orphans(t, entries) ==
  {i \in Inums : t[i].type = "dir" /\ i # ROOTINO}
  \ {e.inum : e \in {e \in entries : e.name \notin {".", ".."}}}

\* The reference count of a cached inode is the number of pointers to it, in
\* current directories, open files and calls under way; and an inode is
\* cached once.
RefsCounted ==
  /\ \A s \in Slots : icache[s].ref =
       Cardinality({p \in Procs : cwd[p] = s})
       + Cardinality({p \in Procs : ofile[p].ip = s})
       + Cardinality({x \in Procs \X {"ip", "dp", "old", "put"} : loc[x[1]][x[2]] = s})
  /\ \A i \in Inums : Cardinality(Cached(i)) <= 1

\* A block is marked in use exactly if one inode holds it in one place; and
\* every cell below the size of an inode has a block.
BlocksOwned ==
  \A t \in {Table} :
  \A held \in {[i \in Live(t) |-> Held(disk, t[i])]} :
    /\ disk.used = UNION {Range(held[i]) : i \in Live(t)}
    /\ Cardinality(disk.used)
         = MapThenSumSet(LAMBDA i : Cardinality(DOMAIN held[i]), Live(t))
    /\ \A i \in Live(t) : \A bn \in 0..(MAXFILE - 1) :
         bn * BSIZE < t[i].size
         => (IF bn < NDIRECT THEN bn ELSE bn + 1) \in DOMAIN held[i]

\* An inode that nobody has locked is on disk as it is in the cache.
WriteThrough ==
  \A s \in Slots :
    icache[s].ref > 0 /\ icache[s].valid /\ icache[s].lock = None
    => disk.inode[icache[s].inum] = icache[s].ip

\* No name leads to a freed inode, except the ".." of a directory that has
\* been removed while somebody was in it.
NamesLead ==
  \A t \in {Table} : \A entries \in {Entries(t)} :
    \A e \in {e \in entries : t[e.inum].type = "none"} :
      e.name = ".." /\ e.dir \in Orphans(t, entries)

\* Links a call has counted and not entered, or erased and not yet counted.
Pending(i) ==
  Cardinality({p \in Procs :
    \/ /\ loc[p].old # 0 /\ loc[p].pc # "linked"
       /\ icache[loc[p].old].inum = i
    \/ loc[p].pc = "unlinked" /\ icache[loc[p].ip].inum = i})

\* The links an inode counts beyond the names that lead to it, where a
\* directory has no name in its own "." nor in the ".." of a removed one.
ExtraLinks(t, entries) ==
  LET orphans == Orphans(t, entries)
      counted == {e \in entries : /\ e.name # "."
                                  /\ e.name = ".." => e.dir \notin orphans}
  IN  [i \in Live(t) |->
         t[i].nlink - Pending(i) - Cardinality({e \in counted : e.inum = i})]
Extra ==
  CHOOSE x \in {ExtraLinks(t, entries) : t \in {Table}, entries \in {Entries(Table)}} :
    TRUE

\* Files and directories count exactly the names that lead to them: link(),
\* also when it fails half-way and takes its count back, unlink() and create()
\* keep to that.  The only step that leaves a count too large frees a directory
\* with the name in it, which create() or link() entered after the directory
\* had been removed.
LinksCounted ==
  /\ \A i \in DOMAIN Extra : Extra[i] = 0
  /\ [][\A old \in {Extra}, new \in {Extra'} : \A i \in DOMAIN new :
          LET was == IF i \in DOMAIN old THEN old[i] ELSE 0
          IN  new[i] # was =>
                /\ new[i] > was
                /\ \E e \in Entries(Table) : /\ e.inum = i
                                             /\ e.dir \notin DOMAIN new
       ]_vars

\* The file system never contradicts itself: no block is freed twice, no inode
\* with a name has no link, and nobody meets a freed inode, unless they follow
\* the ".." of a removed directory.  (Panics for want of blocks, inodes or
\* entries of the inode cache do happen.)
NoContradiction ==
  /\ disk.panic \notin {"freeing free block", "unlink: nlink < 1"}
  /\ disk.panic = "ilock: no type" =>
       \E p \in Procs, e \in Entries(Table) :
         /\ e.name = ".." /\ e.dir \in Orphans(Table, Entries(Table))
         /\ Wants(p) # 0 /\ icache[Wants(p)].inum = e.inum

(***************************************************************************)
(* What a test looks for and the code does.                                *)
(***************************************************************************)
\* "another concurrent link/unlink/create test, to look for deadlocks": no
\* processes wait for each other's inode locks in a circle.
NoDeadlock ==
  \A S \in SUBSET Procs :
    ~ (S # {} /\ \A p \in S : Stuck(p) /\ icache[Wants(p)].lock \in S)
=============================================================================
