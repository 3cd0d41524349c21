-------------------------------- MODULE Pipe --------------------------------
(***************************************************************************)
(* pipe.c: a ring of PIPESIZE bytes between processes that sleep when it   *)
(* is empty or full.  A step is what a process does under p->lock.         *)
(***************************************************************************)
EXTENDS Tasks

CONSTANTS
  PIPESIZE,
  Word        \* unsigned counters are numbers below Word (2^32 in the code)

ASSUME PipeAssumption ==
  /\ PIPESIZE \in Nat \ {0}
  /\ Word \in Nat /\ Word > PIPESIZE /\ Word % PIPESIZE = 0

VARIABLE pipe \* struct pipe, and whether its page is allocated

NewPipe ==
  [data |-> [i \in 0..(PIPESIZE - 1) |-> "junk"], nread |-> 0, nwrite |-> 0,
   readopen |-> TRUE, writeopen |-> TRUE, live |-> TRUE]

NoPipe ==
  [NewPipe EXCEPT !.readopen = FALSE, !.writeopen = FALSE, !.live = FALSE]

\* The bytes in the pipe, oldest first.
Used == (pipe.nwrite - pipe.nread) % Word
Content == [i \in 1..Used |-> pipe.data[(pipe.nread + i - 1) % PIPESIZE]]

\* The pipe after the first k bytes of s have been stored.
Stored(s, k) ==
  [pipe EXCEPT
     !.data = [j \in 0..(PIPESIZE - 1) |->
                 LET h == ((j - pipe.nwrite) % PIPESIZE) + 1
                 IN  IF h <= k THEN s[h] ELSE pipe.data[j]],
     !.nwrite = (@ + k) % Word]

\* How many bytes fit: the loop stops at nwrite = nread + PIPESIZE.
Room == PIPESIZE - Used

\* One round of pipewrite(): until everything is stored, or the pipe is full.
\* io holds what is left to be written; next is where the caller goes on.
PipeWrite(p, next) ==
  LET k == IF Len(io[p]) <= Room THEN Len(io[p]) ELSE Room
  IN  /\ pipe' = Stored(io[p], k)
      /\ io' = [io EXCEPT ![p] = SubSeq(@, k + 1, Len(@))]
      /\ pc' = IF k = Len(io[p]) THEN Wakeup(Return(p, next), "piperead")
               ELSE IF ~ pipe.readopen \/ killed[p] THEN Return(p, "fail")
               ELSE Wakeup(Goto(p, "pipewrite"), "piperead")
      /\ UNCHANGED killed

\* Mutant: the reader does not wake the writer.
PipeReadQuiet(p, n, next) ==
  LET k == IF n <= Used THEN n ELSE Used
  IN  /\ IF Used = 0 /\ pipe.writeopen
         THEN /\ pc' = IF killed[p] THEN Return(p, "fail") ELSE Goto(p, "piperead")
              /\ UNCHANGED <<pipe, io>>
         ELSE /\ pipe' = [pipe EXCEPT !.nread = (@ + k) % Word]
              /\ io' = [io EXCEPT ![p] = SubSeq(Content, 1, k)]
              /\ pc' = Return(p, next)
      /\ UNCHANGED killed

\* piperead() of at most n bytes, up to its sleep.
PipeRead(p, n, next) ==
  LET k == IF n <= Used THEN n ELSE Used
  IN  /\ IF Used = 0 /\ pipe.writeopen
         THEN /\ pc' = IF killed[p] THEN Return(p, "fail") ELSE Goto(p, "piperead")
              /\ UNCHANGED <<pipe, io>>
         ELSE /\ pipe' = [pipe EXCEPT !.nread = (@ + k) % Word]
              /\ io' = [io EXCEPT ![p] = SubSeq(Content, 1, k)]
              /\ pc' = Wakeup(Return(p, next), "pipewrite")
      /\ UNCHANGED killed

\* pipeclose() of one end by a process that goes on at q[p].
PipeClose(q, end) ==
  LET s == IF end = "w" THEN [pipe EXCEPT !.writeopen = FALSE]
                        ELSE [pipe EXCEPT !.readopen = FALSE]
  IN  /\ pipe' = [s EXCEPT !.live = s.readopen \/ s.writeopen]
      /\ pc' = Wakeup(q, IF end = "w" THEN "piperead" ELSE "pipewrite")
============================================================================
