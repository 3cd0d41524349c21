------------------------------- MODULE Files -------------------------------
(***************************************************************************)
(* Open files: the system-wide table of file.c with its reference counts,  *)
(* the descriptors of every process, and the system calls on them          *)
(* (sysfile.c).  A step is what a process does under ftable.lock.          *)
(***************************************************************************)
EXTENDS Pipe

CONSTANTS
  NOFILE,     \* descriptors of a process
  NFILE       \* entries of ftable

VARIABLES
  ofile,      \* p->ofile: an entry of ftable, or 0
  ftable,
  ending      \* the end of the pipe that fileclose() is about to close

fileVars == <<ofile, ftable, ending>>

Fds == 0..(NOFILE - 1)
FileIds == 1..NFILE

Least(S) == CHOOSE x \in S : \A y \in S : x <= y

\* struct file; an end of the pipe is readable or writable, never both.
File(type, end, ref) == [type |-> type, end |-> end, ref |-> ref]
Closed == File("none", "none", 0)

Vacant(t) == {f \in FileIds : t[f].ref = 0}
OpenFds(p) == {fd \in Fds : ofile[p][fd] # 0}
FreeFds(p) == Fds \ OpenFds(p)

(***************************************************************************)
(* pipe().                                                                 *)
(***************************************************************************)
\* pipealloc() and two fdalloc().  The files opened are closed again when
\* there is no room for the second one, for the pipe or for the descriptors.
SysPipe(p, next) ==
  LET rf  == Least(Vacant(ftable))
      wf  == Least(Vacant(ftable) \ {rf})
      fd0 == Least(FreeFds(p))
      fd1 == Least(FreeFds(p) \ {fd0})
  IN  /\ \/ /\ Cardinality(Vacant(ftable)) >= 2
            /\ Cardinality(FreeFds(p)) >= 2
            /\ ftable' = [ftable EXCEPT ![rf] = File("pipe", "r", 1),
                                        ![wf] = File("pipe", "w", 1)]
            /\ ofile' = [ofile EXCEPT ![p][fd0] = rf, ![p][fd1] = wf]
            /\ pipe' = NewPipe
            /\ pc' = Return(p, next)
         \/ /\ pc' = Return(p, "fail")
            /\ UNCHANGED <<ftable, ofile, pipe>>
      /\ UNCHANGED <<io, killed, ending>>

SysDup(p, fd, next) ==
  LET f == ofile[p][fd]
  IN  /\ IF f # 0 /\ FreeFds(p) # {}
         THEN /\ ofile' = [ofile EXCEPT ![p][Least(FreeFds(p))] = f]
              /\ ftable' = [ftable EXCEPT ![f].ref = @ + 1]
         ELSE UNCHANGED <<ofile, ftable>>
      /\ pc' = Return(p, next)
      /\ UNCHANGED <<io, killed, pipe, ending>>

\* Mutant: the child shares the descriptors without counting them.
ForkFilesUncounted(p, q) ==
  /\ ofile' = [ofile EXCEPT ![q] = ofile[p]]
  /\ UNCHANGED <<ftable, ending>>

\* filedup() of every open file for the child q.
ForkFiles(p, q) ==
  /\ ofile' = [ofile EXCEPT ![q] = ofile[p]]
  /\ ftable' = [f \in FileIds |->
                  [ftable[f] EXCEPT !.ref =
                     @ + Cardinality({fd \in Fds : ofile[p][fd] = f})]]
  /\ UNCHANGED ending

\* fileclose() of the file behind fd, up to the release of ftable.lock; the
\* last reference to an end of the pipe closes that end afterwards.
FileClose(p, fd) ==
  LET f    == ofile[p][fd]
      last == ftable[f].ref = 1
  IN  /\ ftable' = [ftable EXCEPT ![f] = IF last THEN Closed
                                         ELSE [@ EXCEPT !.ref = @ - 1]]
      /\ ofile' = [ofile EXCEPT ![p][fd] = 0]
      /\ ending' = [ending EXCEPT ![p] = IF last THEN ftable[f].end ELSE "none"]

SysClose(p, fd, next) ==
  /\ ending[p] = "none"
  /\ IF ofile[p][fd] # 0
     THEN FileClose(p, fd)
     ELSE UNCHANGED fileVars
  /\ pc' = Return(p, next)
  /\ UNCHANGED <<io, killed, pipe>>

\* The rest of fileclose().
FileCloseEnd(p) ==
  /\ ending[p] # "none"
  /\ PipeClose(pc, ending[p])
  /\ ending' = [ending EXCEPT ![p] = "none"]
  /\ UNCHANGED <<io, killed, ofile, ftable>>

\* Another program opens a file that is no pipe, or closes it: filealloc()
\* gives it the first entry that is free at that moment.
OtherOpen ==
  /\ Vacant(ftable) # {}
  /\ ftable' = [ftable EXCEPT ![Least(Vacant(ftable))] = File("other", "none", 1)]
  /\ UNCHANGED <<ofile, ending>>

OtherClose(f) ==
  /\ ftable[f].type = "other"
  /\ ftable' = [ftable EXCEPT ![f] = Closed]
  /\ UNCHANGED <<ofile, ending>>

\* exit(): the descriptors are closed one by one, then the parent is woken.
ExitFiles(p) ==
  /\ pc[p] = "exit" /\ ending[p] = "none"
  /\ IF OpenFds(p) # {}
     THEN FileClose(p, Least(OpenFds(p))) /\ UNCHANGED pc
     ELSE /\ pc' = Wakeup(Goto(p, "zombie"), "waiting")
          /\ UNCHANGED fileVars
  /\ UNCHANGED <<io, killed, pipe>>
============================================================================
