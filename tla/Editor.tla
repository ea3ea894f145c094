------------------------------- MODULE Editor -------------------------------
(***************************************************************************)
(* The file editor.  A file is a doubly linked list of lines; "top" is the *)
(* first line on the screen (currentLine), "my" the line that is edited    *)
(* (myLine) and "off" the position in it (offset).  The place of the       *)
(* cursor on the screen is kept by the console alone: after every change   *)
(* the editor draws the screen anew and puts the cursor where it believes  *)
(* it to belong.                                                           *)
(***************************************************************************)
EXTENDS Console, Strings, FiniteSets

CONSTANTS MaxNodes,      \* bound on the lines of a file
          MaxText,       \* bound on the characters of a line
          MaxEdits       \* bound on the changes to a text

ASSUME EditorAssumption == MaxNodes \in Nat \ {0} /\ MaxText \in Nat /\ MaxEdits \in Nat

VARIABLES ed,            \* the editor's variables
          edits          \* how many changes there were

Null == 0
Node == 1 .. MaxNodes
Unused == [line |-> << >>, next |-> Null, prev |-> Null, used |-> FALSE]

NoEditor == [node |-> [n \in Node |-> Unused], head |-> Null, my |-> Null,
             top |-> Null, off |-> 0, on |-> FALSE, plain |-> FALSE, smashed |-> FALSE]

Line(e, n) == e.node[n].line
Next1(e, n) == e.node[n].next
Prev1(e, n) == e.node[n].prev
Unallocated(e) == {n \in Node : ~e.node[n].used}

(* Where "top" is no line of the list, or no longer one, the editor follows *)
(* a pointer to nowhere, and where a tag of the heap is destroyed anything *)
(* may come of the next allocation: it is not modelled any further.        *)
Intact == ed.on /\ ~ed.smashed
Sound == Intact /\ ed.top \in Node \ Unallocated(ed)

Smash ==
    /\ ed' = [ed EXCEPT !.smashed = TRUE]
    /\ UNCHANGED screen

(* The rows that a line is counted with.                                   *)
NumberOfLines(str) == ((Len(str) + 1) \div Cols) + 1

(* What is put on the screen from line n on when "put" rows are taken: the *)
(* first lines, as long as their rows fit.                                 *)
PutLines(e) ==
    LET lines[n \in Node \union {Null}, put \in 0 .. Rows] ==
          IF n = Null \/ Rows - put < NumberOfLines(Line(e, n)) THEN << >>
          ELSE (IF put # 0 THEN <<NL>> ELSE << >>) \o Line(e, n)
                  \o lines[Next1(e, n), put + NumberOfLines(Line(e, n))]
    IN  lines

Display(s, e) == Puts(Clear(s), PutLines(e)[e.top, 0])

(* The line is the one that did not fit, or one behind it.                 *)
OnNonprintedLine(e) ==
    LET beyond[n \in Node \union {Null}, put \in Nat] ==
          /\ put <= Rows /\ n # Null
          /\ \/ Rows - put < NumberOfLines(Line(e, n)) /\ n = e.my
             \/ beyond[Next1(e, n), put + NumberOfLines(Line(e, n))]
    IN  beyond[e.top, 0]

(* The lines from n on: as many as there may be.                           *)
LinesFrom(e, n) ==
    LET lines[k \in 0 .. MaxNodes, m \in Node \union {Null}] ==
          IF k = 0 \/ m = Null THEN << >> ELSE <<Line(e, m)>> \o lines[k - 1, Next1(e, m)]
    IN  lines[MaxNodes, n]

(* A file's content is its lines with a newline after each of them.        *)
Content(lines) == FoldLeft(LAMBDA text, line : text \o line \o <<NL>>, << >>, lines)

Text(e) == Content(LinesFrom(e, e.head))

(* "plain" is history: since the file was opened nothing has been scrolled *)
(* and every line has left the last two cells of its row free.             *)
Narrow(e) == \A n \in Node : Len(Line(e, n)) <= Cols - 2

Becomes(e) == ed' = [e EXCEPT !.plain = @ /\ e.top = ed.top /\ Narrow(e)]

-----------------------------------------------------------------------------
(* The list is made of what each newline ends; what follows the last one   *)
(* is dropped, and a file without one makes the editor follow a null       *)
(* pointer.  A line is shown and written only up to a 0 in it.             *)
CString(s) ==
    LET zeros == {i \in 1 .. Len(s) : s[i] = Nul}
    IN  IF zeros = {} THEN s ELSE SubSeq(s, 1, Min(zeros) - 1)

Split(text) ==
    LET ends == SetToSortSeq({i \in 1 .. Len(text) : text[i] = NL}, <)
        start(k) == IF k = 1 THEN 1 ELSE ends[k - 1] + 1
    IN  [k \in DOMAIN ends |-> CString(SubSeq(text, start(k), ends[k] - 1))]

Opens(lines) ==
    LET n == Len(lines)
        e == [NoEditor EXCEPT !.on = TRUE, !.head = 1, !.top = 1, !.my = 1,
                !.node = [k \in Node |-> IF k > n THEN Unused
                    ELSE [line |-> lines[k], used |-> TRUE, prev |-> k - 1,
                          next |-> IF k = n THEN Null ELSE k + 1]]]
    IN  /\ ed' = [e EXCEPT !.plain = Narrow(e)]
        /\ screen' = SetCursor(Display(screen, e), 0, 0)

LeftKey ==
    /\ Sound /\ ed.off > 0
    /\ screen' = Put(screen, Left)
    /\ ed' = [ed EXCEPT !.off = @ - 1]
    /\ UNCHANGED edits

RightKey ==
    /\ Sound /\ ed.off < Len(Line(ed, ed.my))
    /\ screen' = Put(screen, Right)
    /\ ed' = [ed EXCEPT !.off = @ + 1]
    /\ UNCHANGED edits

(* The line that the cursor has come to may be shorter.                    *)
Clamp(s, e) ==
    IF e.off <= Len(Line(e, e.my)) THEN screen' = s /\ Becomes(e)
    ELSE LET off == Len(Line(e, e.my))
         IN  /\ screen' = SetCursor(s, s.row - (e.off \div Cols) + (off \div Cols), off % Cols)
             /\ Becomes([e EXCEPT !.off = off])

(* As many rows up as the line above has; at the top of the screen the     *)
(* list is scrolled by a line, and that is all.                            *)
UpKey ==
    /\ Sound /\ Prev1(ed, ed.my) # Null
    /\ LET e == [ed EXCEPT !.my = Prev1(ed, ed.my)]
           rows == NumberOfLines(Line(e, e.my))
           above == IF screen.row > 0 THEN screen.row ELSE 0
           s == Puts(screen, Times(Min({rows, above}), Up))
           f == [e EXCEPT !.top = Prev1(e, e.top)]
       IN  IF above < rows /\ Prev1(e, e.top) # Null
           THEN Clamp(SetCursor(Display(s, f), s.row, s.col), f)
           ELSE Clamp(s, e)
    /\ UNCHANGED edits

(* One row down; below the screen, or on a line that is not displayed, the *)
(* list is scrolled by a line and the cursor put back by its rows.         *)
RowDown(st, k) ==
    LET s == Put(st.s, Down)
        f == [st.e EXCEPT !.top = Next1(st.e, st.e.top)]
    IN  IF (Told(st.s, Down) = 2 \/ OnNonprintedLine(st.e)) /\ f.top # Null
        THEN [s |-> SetCursor(Display(s, f), s.row - NumberOfLines(Line(st.e, st.e.top)), s.col),
              e |-> f]
        ELSE [s |-> s, e |-> st.e]

DownKey ==
    /\ Sound /\ Next1(ed, ed.my) # Null
    /\ LET e == [ed EXCEPT !.my = Next1(ed, ed.my)]
           st == FoldLeft(RowDown, [s |-> screen, e |-> e],
                          [k \in 1 .. NumberOfLines(Line(ed, ed.my)) |-> k])
       IN  Clamp(st.s, st.e)
    /\ UNCHANGED edits

-----------------------------------------------------------------------------
Change == Sound /\ edits < MaxEdits /\ edits' = edits + 1

(* The list is scrolled until the new line's rows are above the bottom.    *)
Scrolled(e, room) ==
    LET to[n \in Node, count \in Nat] ==
          IF room + count > 0 THEN [e |-> [e EXCEPT !.top = n], count |-> count]
          ELSE to[Next1(e, n), count + NumberOfLines(Line(e, n))]
    IN  to[e.top, 0]

(* The line is cut in two at the position.                                 *)
Linked(e, new) ==
    [e EXCEPT !.node = [n \in Node |->
        CASE n = new -> [line |-> SubSeq(Line(e, e.my), e.off + 1, Len(Line(e, e.my))),
                         next |-> Next1(e, e.my), prev |-> e.my, used |-> TRUE]
          [] n = e.my -> [@[n] EXCEPT !.line = SubSeq(@, 1, e.off), !.next = new]
          [] n = Next1(e, e.my) -> [@[n] EXCEPT !.prev = new]
          [] OTHER -> @[n]],
        !.my = new, !.off = 0]

\* Mutant: the cursor stays in the row of the line that was cut.
NewlineKeyHere ==
    /\ Change /\ Unallocated(ed) # {}
    /\ LET e == Linked(ed, Min(Unallocated(ed)))
           r == Scrolled(e, Rows - screen.row - NumberOfLines(Line(e, e.my)))
       IN  /\ Becomes(r.e)
           /\ screen' = SetCursor(Display(screen, r.e), screen.row - r.count, 0)

NewlineKey ==
    /\ Change /\ Unallocated(ed) # {}
    /\ LET e == Linked(ed, Min(Unallocated(ed)))
           r == Scrolled(e, Rows - screen.row - NumberOfLines(Line(e, e.my)))
       IN  /\ Becomes(r.e)
           /\ screen' = SetCursor(Display(screen, r.e), screen.row + 1 - r.count, 0)

(* The line goes to the end of the one before it.                          *)
Unlinked(e) ==
    LET up == Prev1(e, e.my)
    IN  [e EXCEPT !.node = [n \in Node |->
            CASE n = e.my -> Unused
              [] n = up -> [@[n] EXCEPT !.line = AppendAt(@, Line(e, e.my), Len(@)),
                                        !.next = Next1(e, e.my)]
              [] n = Next1(e, e.my) -> [@[n] EXCEPT !.prev = up]
              [] OTHER -> @[n]],
            !.my = up, !.off = Len(Line(e, up)),
            !.top = IF screen.row = 0 THEN Prev1(e, e.top) ELSE @]

(* append has freed the line that goes, and it is freed again: that does   *)
(* nothing if its tag says so, but the tag is an old one, and the heap is  *)
(* destroyed, if the block was merged with the one before it.  In the top  *)
(* row "prev" is read from the node after its free, which has written only *)
(* to the words before "prev" and behind it.                               *)
JoinKey ==
    /\ Change /\ ed.off = 0 /\ Prev1(ed, ed.my) # Null
    /\ Len(Line(ed, Prev1(ed, ed.my))) + Len(Line(ed, ed.my)) <= MaxText
    /\ \/ LET e == Unlinked(ed)
          IN  /\ Becomes(e)
              /\ screen' = SetCursor(Display(screen, e),
                      IF screen.row = 0 THEN screen.row + (e.off \div Cols) ELSE screen.row - 1,
                      e.off % Cols)
       \/ Smash

BackspaceKey ==
    /\ Change /\ ed.off > 0
    /\ \/ LET e == [ed EXCEPT !.node[ed.my].line = DeleteChar(@, ed.off - 1), !.off = @ - 1]
          IN  /\ Becomes(e)
              /\ screen' = IF (e.off + 1) % Cols = 0
                           THEN SetCursor(Display(screen, e), screen.row - 1, Cols - 1)
                           ELSE SetCursor(Display(screen, e), screen.row, screen.col - 1)
       \/ DeleteOverruns(Line(ed, ed.my)) /\ Smash

CharKey(c) ==
    /\ Change /\ Len(Line(ed, ed.my)) < MaxText
    /\ LET e == [ed EXCEPT !.node[ed.my].line = AddChar(@, ed.off, c)]
           hidden == OnNonprintedLine(e)
           f == IF hidden THEN [e EXCEPT !.top = Next1(e, e.top)] ELSE e
           up == IF hidden THEN NumberOfLines(Line(e, e.top)) ELSE 0
           x == IF screen.col >= Cols THEN screen.row + 1 ELSE screen.row
           y == IF screen.col >= Cols THEN 0 ELSE screen.col
       IN  /\ Becomes([f EXCEPT !.off = @ + 1])
           /\ screen' = SetCursor(Display(screen, f), x - up, y + 1)

(* ^w: the screen is used for a message, then drawn again.                 *)
SaveKey ==
    /\ Sound
    /\ screen' = SetCursor(Display(screen, ed), screen.row, screen.col)
    /\ UNCHANGED <<ed, edits>>

QuitKey ==
    /\ Intact
    /\ screen' = Clear(screen)
    /\ ed' = NoEditor
    /\ UNCHANGED edits

-----------------------------------------------------------------------------
(* Types of the editor's state (edit.c:8-15).                              *)
EditorTypeOK ==
    /\ ed.node \in [Node -> [line: Seq(Printable), next: Node \union {Null},
                             prev: Node \union {Null}, used: BOOLEAN]]
    /\ {ed.head, ed.my, ed.top} \subseteq Node \union {Null}
    /\ ed.off \in 0 .. MaxText /\ edits \in 0 .. MaxEdits
    /\ {ed.on, ed.plain, ed.smashed} \subseteq BOOLEAN

(* The nodes from n on.                                                    *)
Reached(e, n) ==
    LET nodes[k \in 0 .. MaxNodes, m \in Node \union {Null}] ==
          IF k = 0 \/ m = Null THEN {} ELSE {m} \union nodes[k - 1, Next1(e, m)]
    IN  nodes[MaxNodes, n]

(* Until the heap is destroyed, lines that are split and joined            *)
(* (edit.c:334-396) leave a list that is linked both ways and holds        *)
(* exactly the lines that are allocated, the edited one among them.        *)
ListIsLinked ==
    Intact =>
        LET used == Node \ Unallocated(ed)
        IN  /\ Prev1(ed, ed.head) = Null /\ Reached(ed, ed.head) = used
            /\ \A n \in used : Next1(ed, n) # Null => Prev1(ed, Next1(ed, n)) = n
            /\ ed.my \in used /\ ed.off <= Len(Line(ed, ed.my))

(* While every line fits in a row, row k of the screen is the k-th line    *)
(* from "top" on, to the bottom, whatever was scrolled (edit.c:17-33).     *)
ScreenShowsLines ==
    Sound /\ Narrow(ed) =>
        LET shown == LinesFrom(ed, ed.top)
        IN  \A r \in 0 .. Rows - 1, c \in 0 .. Cols - 1 :
                screen.cell[Address(r, c)] =
                    IF r < Len(shown) /\ c < Len(shown[r + 1]) THEN shown[r + 1][c + 1] ELSE Blank

Behind(e) == Len(LinesFrom(e, e.my))

(* The cursor, which only the console keeps, stands where the next key     *)
(* takes effect.  Not once the list was scrolled or a line has filled its  *)
(* row: then the editor loses it (edit.c:305, 401, 425).                   *)
CursorOnText ==
    Intact /\ ed.plain =>
        /\ screen.row = Len(LinesFrom(ed, ed.head)) - Behind(ed)
        /\ screen.col = ed.off

(* The list, the screen and the cursor stand for the same text, as long as *)
(* the heap that they are in is not destroyed (edit.c:17-48, 232-431).     *)
ScreenShowsText == ListIsLinked /\ ScreenShowsLines /\ CursorOnText

FileText == INSTANCE TextBuffer WITH
    Char <- Printable \union {NL}, Texts <- Seq(Printable \union {NL}),
    active <- ed.on,
    text <- IF ed.on THEN Text(ed) ELSE << >>,
    pos <- IF ed.on THEN Len(Text(ed)) - Len(Content(LinesFrom(ed, ed.my))) + ed.off ELSE 0

(* Wherever the cursor may stand, the lines and the position in them are a *)
(* text that every key (edit.c:232-431) changes as it should, as long as   *)
(* it does not destroy the heap: there the model of the editor ends.       *)
ImplementsFile == FileText!Spec
=============================================================================
