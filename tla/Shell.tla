------------------------------- MODULE Shell -------------------------------
(***************************************************************************)
(* The command  cat | cat  as sh.c runs it: the left cat reads the         *)
(* console and writes to a pipe, the right one reads the pipe and writes   *)
(* to the console, while the user types, edits and sends characters off,   *)
(* and either process may be killed.                                       *)
(***************************************************************************)
EXTENDS Console, Files

CONSTANTS
  BufSize,    \* sizeof(buf) in cat.c
  MaxKeys     \* bound: keys pressed

ASSUME ShellAssumption ==
  /\ Procs = {"sh", "left", "right"}
  /\ NOFILE >= 3 /\ NFILE >= 1
  /\ BufSize \in Nat \ {0} /\ MaxKeys \in Nat

VARIABLES
  out,        \* what the right cat has written
  keys        \* the number of keys pressed

vars == <<taskVars, pipe, fileVars, consVars, out, keys>>

\* The shell has the console open three times over.
Init ==
  /\ ConsInit
  /\ pipe = NoPipe
  /\ ftable = [f \in FileIds |->
                 IF f = 1 THEN File("cons", "none", 3) ELSE Closed]
  /\ ofile = [p \in Procs |->
                [fd \in Fds |-> IF p = "sh" /\ fd < 3 THEN 1 ELSE 0]]
  /\ ending = [p \in Procs |-> "none"]
  /\ pc = [p \in Procs |-> IF p = "sh" THEN "pipe" ELSE "none"]
  /\ io = [p \in Procs |-> <<>>]
  /\ killed = [p \in Procs |-> FALSE]
  /\ out = <<>>
  /\ keys = 0

\* p[0] and p[1] of runcmd().
P0 == 3
P1 == 4

\* A program goes on when fileclose() has returned and it was not killed.
At(p, l) == pc[p] = l /\ ending[p] = "none" /\ ~ killed[p]
Rest == UNCHANGED <<consVars, out, keys>>

(***************************************************************************)
(* runcmd(): case PIPE.                                                    *)
(***************************************************************************)
ShPipe == At("sh", "pipe") /\ SysPipe("sh", "fork left") /\ Rest

\* fork1(): without a slot or memory for a child fork() returns -1 and the
\* shell gives up.  The shell has no mappings for fork() to copy.
Fork(child, start, next) ==
  /\ \/ /\ ForkFiles("sh", child)
        /\ pc' = [pc EXCEPT !["sh"] = next, ![child] = start]
     \/ pc' = Goto("sh", "fail") /\ UNCHANGED fileVars
  /\ UNCHANGED <<io, killed, pipe>>
  /\ Rest

ShForkLeft == At("sh", "fork left") /\ Fork("left", "close 1", "fork right")
ShForkRight == At("sh", "fork right") /\ Fork("right", "close 0", "close p0")

\* Who closes which descriptor, and what comes next.
Closes ==
  {<<"left", "close 1", 1, "dup p1">>, <<"left", "close p0", P0, "close p1">>,
   <<"left", "close p1", P1, "cat">>,
   <<"right", "close 0", 0, "dup p0">>, <<"right", "close p0", P0, "close p1">>,
   <<"right", "close p1", P1, "cat">>,
   <<"sh", "close p0", P0, "close p1">>, <<"sh", "close p1", P1, "wait">>}

Close(p) ==
  \E c \in Closes :
    /\ c[1] = p /\ At(p, c[2])
    /\ SysClose(p, c[3], c[4])
    /\ Rest

Dup(p) ==
  /\ \/ p = "left" /\ At(p, "dup p1") /\ SysDup(p, P1, "close p0")
     \/ p = "right" /\ At(p, "dup p0") /\ SysDup(p, P0, "close p0")
  /\ Rest

Children == {"left", "right"}

\* wait(), twice.
ShWait ==
  /\ At("sh", "wait")
  /\ \/ \E q \in Children :
          /\ pc[q] = "zombie"
          /\ pc' = [pc EXCEPT ![q] = "gone"]
     \/ /\ \A q \in Children : pc[q] = "gone"
        /\ pc' = Goto("sh", "exit")
     \/ /\ \A q \in Children : pc[q] # "zombie"
        /\ \E q \in Children : pc[q] # "gone"
        /\ pc' = Goto("sh", "waiting")
  /\ UNCHANGED <<io, killed, pipe, fileVars>>
  /\ Rest

(***************************************************************************)
(* cat.c, with the file behind a descriptor deciding what read() and       *)
(* write() are.                                                            *)
(***************************************************************************)
FileOf(p, fd) == ftable[ofile[p][fd]]

Read(p) ==
  /\ At(p, "cat") \/ pc[p] \in {"cons", "read"}
  /\ IF FileOf(p, 0).type = "cons"
     THEN ConsoleRead(p, BufSize, "got") /\ UNCHANGED pipe
     ELSE PipeRead(p, BufSize, "got") /\ UNCHANGED consVars
  /\ UNCHANGED <<fileVars, out, keys>>

\* Mutant: the loop goes on at the end of the file.
GotGoesOn(p) ==
  /\ At(p, "got")
  /\ pc' = Goto(p, IF io[p] = <<>> THEN "cat" ELSE "write")
  /\ UNCHANGED <<io, killed, pipe, fileVars>>
  /\ Rest

\* The test of cat()'s loop.
Got(p) ==
  /\ At(p, "got")
  /\ pc' = Goto(p, IF io[p] = <<>> THEN "exit" ELSE "write")
  /\ UNCHANGED <<io, killed, pipe, fileVars>>
  /\ Rest

Write(p) ==
  /\ At(p, "write") \/ pc[p] = "more"
  /\ IF FileOf(p, 1).type = "cons"
     THEN /\ ConsoleWrite(p, "cat")
          /\ out' = out \o io[p]
          /\ UNCHANGED pipe
     ELSE PipeWrite(p, "cat") /\ UNCHANGED <<consVars, out>>
  /\ UNCHANGED <<fileVars, keys>>

\* A system call of a program returned -1.
Fail(p) ==
  /\ At(p, "fail")
  /\ pc' = Goto(p, "exit")
  /\ UNCHANGED <<io, killed, pipe, fileVars>>
  /\ Rest

(***************************************************************************)
(* The specification.                                                      *)
(***************************************************************************)
Exit(p) == ExitFiles(p) /\ Rest
CloseEnd(p) == FileCloseEnd(p) /\ Rest
Killed(p) ==
  ending[p] = "none" /\ KilledExit(p) /\ UNCHANGED <<pipe, fileVars>> /\ Rest

Step(p) ==
  \/ Close(p) \/ CloseEnd(p) \/ Dup(p) \/ Read(p) \/ Got(p) \/ Write(p)
  \/ Fail(p) \/ Killed(p) \/ Exit(p)
  \/ p = "sh" /\ (ShPipe \/ ShForkLeft \/ ShForkRight \/ ShWait)

\* Bound: the user types while the shell waits.  What is typed earlier only
\* stays in the line buffer.
Key(c) ==
  /\ keys < MaxKeys
  /\ pc["sh"] \in {"wait", "waiting"}
  /\ ConsoleIntr(c)
  /\ keys' = keys + 1
  /\ UNCHANGED <<pipe, fileVars, out>>

\* Bound: one kill.
KillChild(p) ==
  /\ \A q \in Procs : ~ killed[q]
  /\ Kill(p)
  /\ UNCHANGED <<pipe, fileVars>>
  /\ Rest

\* What other programs do to the file table.
Others ==
  /\ OtherOpen \/ \E f \in FileIds : OtherClose(f)
  /\ UNCHANGED <<taskVars, pipe>>
  /\ Rest

\* The command is over, or waits for a user who types no more.
Done ==
  /\ pc["sh"] = "zombie" \/ (pc["left"] = "consoleread" /\ keys = MaxKeys)
  /\ UNCHANGED vars

Next ==
  \/ \E p \in Procs : Step(p)
  \/ \E c \in Keys : Key(c)
  \/ \E p \in Children : KillChild(p)
  \/ Others
  \/ Done

\* The scheduler runs some process that can go on, and none can go on for
\* ever; the user may stop typing.
Spec == Init /\ [][Next]_vars /\ WF_vars(\E p \in Procs : Step(p))

(***************************************************************************)
(* Properties.                                                             *)
(***************************************************************************)

\* The reference count of an open file is the number of descriptors for it in
\* all processes; the pipe is open for an end as long as somebody holds that
\* end or is closing it, and its page is freed with the last end.
FilesCounted ==
  /\ \A f \in FileIds : ftable[f].type \in {"pipe", "cons"} =>
       ftable[f].ref = Cardinality({x \in Procs \X Fds : ofile[x[1]][x[2]] = f})
  /\ \A p \in Procs : \A fd \in OpenFds(p) : ftable[ofile[p][fd]].ref > 0
  /\ pipe.readopen = (\/ \E f \in FileIds : ftable[f].end = "r"
                      \/ \E p \in Procs : ending[p] = "r")
  /\ pipe.writeopen = (\/ \E f \in FileIds : ftable[f].end = "w"
                       \/ \E p \in Procs : ending[p] = "w")
  /\ pipe.live = (pipe.readopen \/ pipe.writeopen)

\* Nothing is lost, doubled or reordered on the way from the keyboard through
\* the line buffer, the left cat, the pipe and the right cat, whatever wraps
\* around and whoever sleeps where (unless somebody is killed).  The marks ^D
\* end at the first read.
NothingLost ==
  LET Text(s) == SelectSeq(s, LAMBDA c : c # "^D")
  IN  (\A p \in Procs : ~ killed[p]) =>
        Text(typed)
          = Text(out \o io["right"] \o Content \o io["left"] \o Unread)

\* Nobody sleeps with the input there: a process asleep in consoleread() has
\* no line to read, a writer asleep has a full pipe, a reader asleep an empty
\* one.  (A killed writer leaves pipewrite() without waking the reader, who
\* then has to wait for the writer's exit.)
NoLostWakeup ==
  \A p \in Procs :
    /\ pc[p] = "consoleread" => Unread = <<>>
    /\ pc[p] = "pipewrite" => Used = PIPESIZE /\ pipe.readopen
    /\ pc[p] = "piperead" =>
         pipe.writeopen /\ (Used = 0 \/ \E q \in Procs : killed[q])

\* The cursor stays on the screen, whose last row cgaputc() keeps empty, with
\* the echo of the keyboard and the output of the programs mixed.
CursorOnScreen == pos < ROWS * COLS

Alive == \A p \in Procs : ~ killed[p]

\* Every line the user has sent off before a ^D is printed by the right cat.
Arrives ==
  []<>(\/ \A k \in 1..Len(typed) :
            typed[k] = "\n" /\ (\A i \in 1..k : typed[i] # "^D")
            => Len(out) >= k
       \/ ~ Alive
       \/ pc["sh"] = "zombie")

\* A ^D, or killing the left cat, ends the whole pipeline: every copy of the
\* write end gets closed, the right cat sees the end of file, and the shell
\* collects both.  (What is typed and who is killed stays so.)
PipelineEnds ==
  []<>((\E i \in 1..Len(typed) : typed[i] = "^D") \/ killed["left"]
       => pc["sh"] = "zombie")
============================================================================
