------------------------------ MODULE Console ------------------------------
(***************************************************************************)
(* console.c: the line editor in the keyboard interrupt, consoleread(),    *)
(* consolewrite() and the cursor of the screen.  A step is what a handler  *)
(* or a process does under cons.lock.                                      *)
(***************************************************************************)
EXTENDS Tasks

CONSTANTS
  INPUT_BUF,
  ConsWord,   \* the indices are numbers below ConsWord (2^32 in the code)
  Chars,      \* ordinary characters
  COLS, ROWS, \* the screen; 80 and 24 in the code, plus one row
  ConsStart   \* the indices when the command starts

ASSUME ConsoleAssumption ==
  /\ INPUT_BUF \in Nat \ {0}
  /\ ConsWord \in Nat /\ ConsWord > INPUT_BUF /\ ConsWord % INPUT_BUF = 0
  /\ {"\n", "^D", "^U", "^H"} \cap Chars = {}
  /\ COLS \in Nat \ {0} /\ ROWS \in Nat \ {0}
  /\ ConsStart \in 0..(ConsWord - 1)

VARIABLES
  input,      \* the ring and its indices r, w and e
  pos,        \* the cursor
  line,       \* the line being edited
  typed       \* what the user has sent off

consVars == <<input, pos, line, typed>>

\* All earlier input has been read.
ConsInit ==
  /\ input = [buf |-> [i \in 0..(INPUT_BUF - 1) |-> "junk"],
              r |-> ConsStart, w |-> ConsStart, e |-> ConsStart]
  /\ pos = 0
  /\ line = <<>>
  /\ typed = <<>>

Keys == Chars \cup {"\n", "^D", "^U", "^H"}

(***************************************************************************)
(* The screen.                                                             *)
(***************************************************************************)
\* Mutant: the screen scrolls one row late.
ScrolledLate(k) == IF k \div COLS >= ROWS + 1 THEN k - COLS ELSE k

Scrolled(k) == IF k \div COLS >= ROWS THEN k - COLS ELSE k

\* cgaputc() of one character with the cursor at k.
Cgaputc(k, c) ==
  CASE c = "\n" -> Scrolled(k + COLS - (k % COLS))
    [] c = "^H" -> IF k > 0 THEN k - 1 ELSE k
    [] OTHER    -> Scrolled(k + 1)

\* consputc() of every character of s.
Shown(k, s) == FoldLeft(Cgaputc, k, s)

(***************************************************************************)
(* consoleintr() for one character.                                        *)
(***************************************************************************)
Slot(i) == i % INPUT_BUF

\* input.e - input.w and input.e - input.r.
Editable == (input.e - input.w) % ConsWord
Buffered == (input.e - input.r) % ConsWord

\* How many characters ^U takes back.
Erased ==
  CHOOSE k \in 0..Editable :
    /\ \A j \in 1..k : input.buf[Slot(input.e - j)] # "\n"
    /\ k < Editable => input.buf[Slot(input.e - k - 1)] = "\n"

TakeBack(k) ==
  /\ input' = [input EXCEPT !.e = (@ - k) % ConsWord]
  /\ pos' = Shown(pos, [i \in 1..k |-> "^H"])
  /\ line' = SubSeq(line, 1, Len(line) - k)
  /\ UNCHANGED <<typed, taskVars>>

\* Mutant: the room is measured from the last line sent off.
FitsEdited == Editable < INPUT_BUF

Fits == Buffered < INPUT_BUF

\* Whether the character c, after which the edit index is e, ends the line.
EndsLine(c, e) == c \in {"\n", "^D"} \/ e = (input.r + INPUT_BUF) % ConsWord

Store(c) ==
  LET e == (input.e + 1) % ConsWord
  IN  /\ pos' = Shown(pos, <<c>>)
      /\ IF EndsLine(c, e)
         THEN /\ input' = [input EXCEPT !.buf[Slot(input.e)] = c, !.e = e, !.w = e]
              /\ typed' = typed \o Append(line, c)
              /\ line' = <<>>
              /\ pc' = Wakeup(pc, "consoleread")
         ELSE /\ input' = [input EXCEPT !.buf[Slot(input.e)] = c, !.e = e]
              /\ line' = Append(line, c)
              /\ UNCHANGED <<typed, pc>>
      /\ UNCHANGED <<io, killed>>

ConsoleIntr(c) ==
  CASE c = "^U" -> TakeBack(Erased)
    [] c = "^H" -> Editable # 0 /\ TakeBack(1)
    [] OTHER    -> Fits /\ Store(c)

(***************************************************************************)
(* consoleread() and consolewrite().                                       *)
(***************************************************************************)
\* What was sent off and not read.
Unread ==
  [i \in 1..((input.w - input.r) % ConsWord) |->
     input.buf[Slot(input.r + i - 1)]]

\* Mutant: a newline does not end a read.
EndsReadNever(c) == FALSE

EndsRead(c) == c = "\n"

\* How far a read goes that wants n more bytes: up to a newline, a ^D, the
\* last byte wanted or the last byte there is.
Taken(n) ==
  CHOOSE k \in 0..n :
    /\ k <= Len(Unread)
    /\ \A i \in 1..k : Unread[i] # "^D" /\ (i < k => ~ EndsRead(Unread[i]))
    /\ \/ k \in {n, Len(Unread)}
       \/ k > 0 /\ EndsRead(Unread[k])
       \/ Unread[k + 1] = "^D"

\* consoleread() of n bytes up to its sleep or its end; io holds what it has.
ConsoleRead(p, n, next) ==
  LET k    == Taken(n - Len(io[p]))
      got  == io[p] \o SubSeq(Unread, 1, k)
      full == Len(got) = n \/ (k > 0 /\ EndsRead(Unread[k]))
      eof  == ~ full /\ k < Len(Unread)
      skip == IF eof /\ got = <<>> THEN 1 ELSE 0
  IN  /\ input' = [input EXCEPT !.r = (@ + k + skip) % ConsWord]
      /\ io' = [io EXCEPT ![p] = got]
      /\ pc' = IF full \/ eof THEN Return(p, next)
               ELSE IF killed[p] THEN Return(p, "fail")
               ELSE Goto(p, "consoleread")
      /\ UNCHANGED <<killed, pos, line, typed>>

\* consolewrite() of io.
ConsoleWrite(p, next) ==
  /\ pos' = Shown(pos, io[p])
  /\ io' = [io EXCEPT ![p] = <<>>]
  /\ pc' = Return(p, next)
  /\ UNCHANGED <<killed, input, line, typed>>
============================================================================
