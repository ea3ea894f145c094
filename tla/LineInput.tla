----------------------------- MODULE LineInput -----------------------------
(***************************************************************************)
(* gets(), the line editor of the user library.  It keeps the line in a    *)
(* buffer p of sz + 1 bytes, of which "realsz" are the line, and a         *)
(* position i in it; it tells the console what to change on the screen.    *)
(*                                                                         *)
(* The buffer grows when i reaches sz, and only then: a line that gets     *)
(* longer by insertions in its middle grows past the buffer.  What such a  *)
(* write does to the heap is undefined; the process stops here.            *)
(***************************************************************************)
EXTENDS Console

CONSTANTS Chunk,       \* how much the buffer grows by: 10
          MaxLine,     \* bound on the length of a line
          Key,         \* the characters that are typed
          Marker       \* what is shown for ^q and ^w

ASSUME LineAssumption ==
    /\ Chunk \in Nat \ {0} /\ MaxLine \in Nat
    /\ Marker \in Seq(Printable) /\ Key \subseteq Printable

VARIABLE line          \* the locals of gets

NoLine == [p |-> << >>, i |-> 0, sz |-> 0, real |-> 0, in |-> FALSE,
           smashed |-> FALSE, inserted |-> FALSE, marked |-> FALSE]

(* p[j] in C is p[j + 1] here.                                             *)
At(l, j) == l.p[j + 1]
Fits(l, j) == j + 1 \in DOMAIN l.p
Typed(l) == SubSeq(l.p, 1, l.real)

(* The buffer is full up to the position: realloc, and clear what is new.  *)
Grow(l) ==
    IF l.i < l.sz THEN l
    ELSE [l EXCEPT !.sz = @ + Chunk, !.p = [j \in 1 .. l.sz + Chunk + 1 |->
                                            IF j <= l.real THEN l.p[j] ELSE Nul]]

(* The top of the loop, up to getchar().                                   *)
Loop(l) == line' = Grow(l)

GetsBegin ==
    /\ ~line.in
    /\ Loop([NoLine EXCEPT !.in = TRUE])

Editing == line.in /\ ~line.smashed

GetsLeft ==
    /\ Editing /\ line.i > 0
    /\ screen' = Put(screen, Left)
    /\ Loop([line EXCEPT !.i = @ - 1])

GetsRight ==
    /\ Editing /\ line.i < line.real
    /\ screen' = Put(screen, Right)
    /\ Loop([line EXCEPT !.i = @ + 1])

(* ^q and ^w show themselves but do not become part of the line; the       *)
(* arrows up and down do nothing at all.                                   *)
GetsMark ==
    /\ Editing /\ ~line.marked
    /\ screen' = Puts(screen, Marker)
    /\ Loop([line EXCEPT !.marked = TRUE])

\* Mutant: the byte behind the shorter line is not cleared.
GetsBackspaceUncleared ==
    /\ Editing /\ line.i > 0
    /\ LET l == [line EXCEPT !.i = @ - 1, !.real = @ - 1]
           q == [j \in DOMAIN l.p |-> IF j > l.i /\ j <= l.real THEN l.p[j + 1] ELSE l.p[j]]
           tail == SubSeq(q, l.i + 1, l.real)
       IN  /\ screen' = Puts(screen, <<Left>> \o tail \o <<Blank>> \o Times(Len(tail) + 1, Left))
           /\ Loop([l EXCEPT !.p = q])

GetsBackspace ==
    /\ Editing /\ line.i > 0
    /\ LET l == [line EXCEPT !.i = @ - 1, !.real = @ - 1]
           q == [j \in DOMAIN l.p |-> IF j > l.i /\ j <= l.real THEN l.p[j + 1]
                                      ELSE IF j = l.real + 1 THEN Nul ELSE l.p[j]]
           tail == SubSeq(q, l.i + 1, l.real)
       IN  /\ screen' = Puts(screen, <<Left>> \o tail \o <<Blank>> \o Times(Len(tail) + 1, Left))
           /\ Loop([l EXCEPT !.p = q])

(* The rest of the line, if there is any, moves one byte up, up to p[real].*)
Opened(l, c) ==
    [j \in DOMAIN l.p |-> IF j <= l.i \/ j > l.real + 1 THEN l.p[j]
                          ELSE IF j = l.i + 1 THEN c ELSE l.p[j - 1]]

\* Mutant: whether there is a rest of the line is seen from the buffer's size.
GetsCharEnd(c) ==
    /\ Editing /\ line.real < MaxLine
    /\ LET middle == line.i + 1 < line.sz
           grown == [line EXCEPT !.real = @ + 1]
           q == IF middle THEN Opened(line, c) ELSE [line.p EXCEPT ![line.i + 1] = c]
           tail == SubSeq(q, line.i + 2, grown.real)
       IN  \/ /\ middle /\ ~Fits(line, line.real)
              /\ screen' = Put(screen, c)
              /\ line' = [grown EXCEPT !.smashed = TRUE, !.inserted = TRUE]
           \/ /\ middle => Fits(line, line.real)
              /\ screen' = Puts(screen, IF middle THEN <<c>> \o tail \o Times(Len(tail), Left) ELSE <<c>>)
              /\ Loop([grown EXCEPT !.p = q, !.i = @ + 1, !.inserted = @ \/ middle])

GetsChar(c) ==
    /\ Editing /\ line.real < MaxLine
    /\ LET middle == At(line, line.i) # Nul
           grown == [line EXCEPT !.real = @ + 1]
           q == IF middle THEN Opened(line, c) ELSE [line.p EXCEPT ![line.i + 1] = c]
           tail == SubSeq(q, line.i + 2, grown.real)
       IN  \/ /\ middle /\ ~Fits(line, line.real)
              /\ screen' = Put(screen, c)
              /\ line' = [grown EXCEPT !.smashed = TRUE, !.inserted = TRUE]
           \/ /\ middle => Fits(line, line.real)
              /\ screen' = Puts(screen, IF middle THEN <<c>> \o tail \o Times(Len(tail), Left) ELSE <<c>>)
              /\ Loop([grown EXCEPT !.p = q, !.i = @ + 1, !.inserted = @ \/ middle])

(* Enter ends the string at p[real] and the screen's line at the cursor.   *)
GetsEnter ==
    /\ Editing
    /\ screen' = Put(screen, NL)
    /\ line' = IF Fits(line, line.real) THEN NoLine
               ELSE [line EXCEPT !.smashed = TRUE]

-----------------------------------------------------------------------------

LineTypeOK ==
    /\ line.p \in Seq(Printable \union {Nul})
    /\ line.i \in Nat /\ line.sz \in Nat /\ line.real \in 0 .. MaxLine
    /\ {line.in, line.smashed, line.inserted, line.marked} \subseteq BOOLEAN

(* What stands on the screen before the cursor and after it is the line,   *)
(* and nothing of a longer line is left behind it (libc.c:31-124).         *)
ScreenShowsLine ==
    Editing /\ ~line.marked =>
        LET start == Address(screen.row, screen.col) - line.i
        IN  /\ \A k \in 1 .. line.real : screen.cell[start + k - 1] = line.p[k]
            /\ start + line.real \in Cell => screen.cell[start + line.real] = Blank

(* A line that is typed from left to right, with corrections, stays in the *)
(* buffer, and is ended by a 0 wherever the cursor goes (libc.c:20-124).   *)
StaysInBuffer ==
    /\ line.smashed => line.inserted /\ line.real > line.sz
    /\ Editing => line.i <= line.real /\ (Fits(line, line.real) => At(line, line.real) = Nul)

LineText == INSTANCE TextBuffer WITH Char <- Printable, Texts <- {<< >>},
    active <- line.in, text <- IF Editing THEN Typed(line) ELSE << >>,
    pos <- IF Editing THEN line.i ELSE 0

(* As long as the line has stayed in the buffer, gets is a line editor.    *)
ImplementsLine == LineText!Init /\ [][line'.smashed \/ LineText!Next]_<<line>>
=============================================================================
