------------------------------ MODULE Console ------------------------------
(***************************************************************************)
(* The text screen: the frame buffer of VGA and the cursor arithmetic of   *)
(* Console, as operators on a screen record.  The colours are left out.    *)
(*                                                                         *)
(* The frame buffer is one row after the other in memory: a column past    *)
(* the end of a row is a cell of the next row, and a cell outside all rows *)
(* is somebody else's memory.  Nothing keeps the cursor on the screen: no  *)
(* code gives it a first place, and it leaves the first row backwards.     *)
(* Two fields are history, from the last time that a program has put the   *)
(* cursor somewhere: "lost" says that it left the screen in one of these   *)
(* two ways, "stray" that a cell outside all rows was written.             *)
(***************************************************************************)
EXTENDS Integers, Sequences, SequencesExt

CONSTANTS Rows, Cols,     \* 25 and 80
          Printable,      \* characters from 0x20 to 0x7e
          LengthCap,      \* bound up to which "length" is counted
          Leftover        \* what the stack may hold where row and col are

VARIABLE screen

Nul == 0
BS == 8
Del == 127
NL == 10
Blank == 32
Left == 240               \* ~0xf and so on, as the keyboard delivers them
Right == 241
Up == 242
Down == 243

ASSUME ConsoleAssumption ==
    /\ Rows \in Nat \ {0} /\ Cols \in Nat \ {0} /\ LengthCap \in Nat \ {0}
    /\ Blank \in Printable /\ Printable \subseteq 32 .. 126
    /\ Leftover \subseteq Int \X Int

Cell == 0 .. Rows * Cols - 1
OnScreen(r, c) == r \in 0 .. Rows - 1 /\ c \in 0 .. Cols - 1
Address(r, c) == r * Cols + c
InFrame(r, c) == Address(r, c) \in Cell

Screen == [cell: [Cell -> Printable \union {Nul}], row: Int, col: Int,
           length: 0 .. LengthCap, lost: BOOLEAN, stray: BOOLEAN]

-----------------------------------------------------------------------------
(* VGA::put and VGA::cursor (which sets a colour) write without looking,   *)
(* VGA::get looks.                                                         *)
VgaPut(s, r, c, ch) ==
    IF InFrame(r, c) THEN [s EXCEPT !.cell[Address(r, c)] = ch]
    ELSE [s EXCEPT !.stray = TRUE]

VgaGet(s, r, c) == IF OnScreen(r, c) THEN s.cell[Address(r, c)] ELSE Nul

ShowCursor(s) == IF InFrame(s.row, s.col) THEN s ELSE [s EXCEPT !.stray = TRUE]

ClearRow(s, r) ==
    [s EXCEPT !.cell = [k \in Cell |-> IF k \div Cols = r THEN Blank ELSE @[k]]]

(* The cursor is put somewhere, whatever it was before.                    *)
Placed(s, r, c) ==
    [s EXCEPT !.row = r, !.col = c, !.lost = ~OnScreen(r, c), !.stray = FALSE]

Clear(s) == Placed([s EXCEPT !.cell = [k \in Cell |-> Blank]], 0, 0)

(* What kernelMain leaves: the Console is a local variable there, and      *)
(* neither its constructor nor init sets row and col.                      *)
FirstScreen(start) ==
    Placed([cell |-> [k \in Cell |-> Blank], row |-> 0, col |-> 0,
            length |-> 0, lost |-> FALSE, stray |-> FALSE], start[1], start[2])


ShiftUp(s) ==
    [ClearRow([s EXCEPT !.cell = [k \in Cell |-> IF k + Cols \in Cell THEN @[k + Cols] ELSE @[k]]],
              Rows - 1)
        EXCEPT !.row = @ - 1]

ShiftDown(s) ==
    [ClearRow([s EXCEPT !.cell = [k \in Cell |-> IF k >= Cols THEN @[k - Cols] ELSE @[k]]], 0)
        EXCEPT !.row = @ + 1]

MoveToZero(s) == ShowCursor(Placed(ShiftDown(s), 0, 0))

SetCursor(s, x, y) == ShowCursor(Placed(s, x, y))

-----------------------------------------------------------------------------
IncrementRow(s) ==
    LET t == [s EXCEPT !.col = 0, !.row = @ + 1]
    IN  IF t.row >= Rows THEN ShiftUp(t) ELSE t

NextColumn(s) ==
    LET t == [s EXCEPT !.col = @ + 1] IN IF t.col >= Cols THEN IncrementRow(t) ELSE t

IncrementColumn(s) ==
    NextColumn([s EXCEPT !.length = IF @ < LengthCap THEN @ + 1 ELSE @])

(* Whether there is a row above is not asked.                              *)
DecrementOnlyRow(s) == [s EXCEPT !.row = @ - 1, !.lost = @ \/ s.row <= 0]
DecrementRow(s) == [DecrementOnlyRow(s) EXCEPT !.col = Cols - 1]

PreviousColumn(s) == IF s.col > 0 THEN [s EXCEPT !.col = @ - 1] ELSE DecrementRow(s)

CursorLeft(s) == IF s.length = 0 THEN s ELSE PreviousColumn(s)

DecrementColumn(s) ==
    IF s.length = 0 THEN s ELSE PreviousColumn([s EXCEPT !.length = @ - 1])

CursorRight(s) == NextColumn(s)

(* The new row must be one of the screen; if not, the caller is told that  *)
(* it has to scroll: 1 upwards, 2 downwards.                               *)
CursorUp(s) == IF s.row - 1 < 0 THEN s ELSE [s EXCEPT !.row = @ - 1]
CursorDown(s) == IF s.row + 1 >= Rows THEN s ELSE [s EXCEPT !.row = @ + 1]

Told(s, ch) ==
    CASE ch = Up   -> IF s.row - 1 < 0 THEN 1 ELSE 0
      [] ch = Down -> IF s.row + 1 >= Rows THEN 2 ELSE 0
      [] OTHER       -> 0

(* The rest of the row moves one cell to the left.                         *)
Backspace(s) ==
    LET t == DecrementColumn(s)
        Pulled(u, i) == VgaPut(u, u.row, i, VgaGet(u, u.row, i + 1))
    IN  VgaPut(FoldLeft(Pulled, VgaPut(t, t.row, t.col, Blank),
                        [k \in 1 .. Cols - 1 - t.col |-> t.col + k - 1]),
               t.row, Cols - 1, Blank)

(* Console::putcolor, which is putchar for the user.                       *)
Put(before, ch) ==
    LET s == ShowCursor(before)
    IN  CASE ch = Up   -> ShowCursor(CursorUp(s))
          [] ch = Down -> ShowCursor(CursorDown(s))
          [] ch \in Printable -> ShowCursor(IncrementColumn(VgaPut(s, s.row, s.col, ch)))
          [] ch = NL           -> ShowCursor(IncrementRow(s))
          [] ch = Left         -> ShowCursor(CursorLeft(s))
          [] ch = Right        -> ShowCursor(CursorRight(s))
          [] ch \in {BS, Del}  -> ShowCursor(Backspace(s))
          [] OTHER             -> s

Puts(s, str) == FoldLeft(Put, s, str)

Times(n, ch) == [k \in 1 .. n |-> ch]
=============================================================================
