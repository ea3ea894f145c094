------------------------------ MODULE Terminal ------------------------------
(***************************************************************************)
(* What a user at the keyboard meets: programs that print, draw and sleep, *)
(* the line that is typed, reading a file at any position, and the shell,  *)
(* which splits the line into words, looks the first one up and prints or  *)
(* executes the file, here the editor, ls, echo or cat.  One process at a  *)
(* time has the console: the shell joins every program it starts.          *)
(*                                                                         *)
(* The parts are independent of each other and Init chooses one.  In the   *)
(* shell's part a line is typed in one step.                               *)
(***************************************************************************)
EXTENDS LineInput, Editor, Files, Timers

CONSTANTS Prompt,        \* what gets() and the shell are preceded by
          Typeable,      \* lines that are typed for the shell
          FirstTexts,    \* what the text file may contain
          Thirds,        \* the name of a third file
          Slots,         \* handles in a process's table: 99
          Earlier,       \* how many handles lines typed before have left
          MaxCommands,   \* bound on the lines typed for the shell
          MaxPrint,      \* bound on what is printed
          MaxDraw,       \* bound on what is drawn
          MaxRead        \* bound on the length of the file that is read

ASSUME TerminalAssumption ==
    /\ Prompt \in Seq(Printable) /\ FirstTexts \subseteq Seq(Printable \union {NL})
    /\ Thirds \subseteq Seq(Printable)
    /\ Slots \in Nat \ {0} /\ Earlier \subseteq 0 .. Slots
    /\ {MaxCommands, MaxPrint, MaxDraw, MaxRead} \subseteq Nat
    /\ Rows * Cols > Len(Prompt) + MaxLine

VARIABLES
    mode,     \* the part, and in the shell's part where it is
    said,     \* what was printed, for the properties
    disk,     \* the drive with its file system
    handle,   \* an open file and what was last read from it
    shell     \* the shell's table and line

vars == <<clock, screen, line, ed, edits, mode, said, disk, handle, shell>>

Root == 1
EditorFile == 2
TextFile == 3
TextChain == <<TextFile, 4>>
Magic == <<127, 69, 76, 70>>
EditName == <<101>>            \* the names of the files
Note == <<102>>

(* A directory of the editor, a third name, whose entry lies over the end  *)
(* of the block, and the text.  (mkfs puts all it has in one block, the    *)
(* kernel takes any.)                                                      *)
Directory(third) == <<[name |-> EditName, start |-> EditorFile],
                      [name |-> third, start |-> EditorFile],
                      [name |-> Note, start |-> TextFile]>>
Entry(file) == file.name \o [k \in 1 .. NameLen - Len(file.name) |-> Zero] \o Bytes(file.start)
Entries(files) == FlattenSeq([i \in DOMAIN files |-> Entry(files[i])])
EmptyDisk == [block |-> [b \in 0 .. 5 |-> [k \in 1 .. BlockSize |-> Junk]],
              fat |-> [b \in 0 .. 5 |-> 0]]
Mounted(files, text) ==
    Write(Write(Write(EmptyDisk, <<Root, 5>>, Entries(files)), <<EditorFile>>, Magic),
          TextChain, text)

Programs == {"edit", "ls", "echo", "cat"}    \* what the first file can be

NoHandle == [off |-> 0, from |-> 0, want |-> 0, got |-> << >>, all |-> FALSE, of |-> << >>]
Unclaimed == 0
Semaphore == -1
Child == -2
NoShell == [slot |-> [i \in 1 .. Slots |-> Unclaimed], typed |-> << >>, lines |-> 0,
            program |-> "edit", length |-> 0, lost |-> {}, saved |-> << >>, files |-> << >>, before |-> 0]

(* Earlier lines have left n handles.                                      *)
FirstShell(files, text, n, program) ==
    [NoShell EXCEPT !.program = program, !.saved = text, !.files = files, !.before = n,
        !.slot = [i \in 1 .. Slots |-> IF i <= n THEN Semaphore ELSE Unclaimed]]

Counting(n) == [k \in 1 .. n |-> k]

(* What was printed before on the way to the first place of the cursor, if *)
(* that is on the screen.                                                  *)
Reaching(s) == IF s.lost THEN << >> ELSE Times(s.row, NL) \o Times(s.col, Blank)

NothingTyped == ed = NoEditor /\ edits = 0 /\ line = NoLine /\ clock = NoClock
NothingStored == disk = EmptyDisk /\ handle = NoHandle /\ shell = NoShell

(* Where printing and drawing begin nobody has put the cursor anywhere;    *)
(* the other parts come after a program that has.                          *)
Init ==
    /\ NothingTyped
    /\ \E start \in Leftover :
          LET first == FirstScreen(start)
          IN  \/ /\ mode \in {"print", "draw"} /\ NothingStored
                 /\ screen = first /\ said = Reaching(first)
              \/ /\ mode = "sleep" /\ NothingStored
                 /\ screen = Clear(first) /\ said = << >>
              \/ /\ mode = "rain" /\ NothingStored
                 /\ screen = Clear(Puts(first, Prompt \o <<NL>>)) /\ said = << >>
              \/ /\ mode = "line" /\ NothingStored /\ said = << >>
                 /\ \E r \in 0 .. Rows - 1 : screen = Puts(SetCursor(first, r, 0), Prompt)
              \/ /\ mode = "read" /\ shell = NoShell
                 /\ screen = Clear(first) /\ said = << >>
                 /\ \E n \in 0 .. MaxRead :
                       /\ disk = Mounted(<< >>, Counting(n))
                       /\ handle = [NoHandle EXCEPT !.of = Counting(n)]
              \/ /\ mode = "prompt" /\ handle = NoHandle
                 /\ screen = Clear(first) /\ said = << >>
                 /\ \E third \in Thirds, text \in FirstTexts, n \in Earlier, program \in Programs :
                       /\ disk = Mounted(Directory(third), text)
                       /\ shell = FirstShell(Directory(third), text, n, program)

-----------------------------------------------------------------------------
(* A program that prints.                                                  *)
PutChar(c) ==
    /\ mode = "print" /\ Len(said) < MaxPrint
    /\ screen' = Put(screen, c)
    /\ said' = Append(said, c)
    /\ UNCHANGED <<clock, line, ed, edits, mode, disk, handle, shell>>

(* cmatrix: random numbers choose the columns, never the last one, where   *)
(* letters begin or end in a row, which is drawn at the top after the rest *)
(* has moved down.  (A negative random number goes to memory before the    *)
(* row, which is not on the screen.)                                       *)
RainRow == {row \in [1 .. Cols -> Key \union {Blank}] : row[Cols] = Blank}

Rain(row) ==
    /\ mode = "rain" /\ Len(said) < MaxDraw
    /\ screen' = Puts(MoveToZero(screen), row)
    /\ said' = Append(said, row)
    /\ UNCHANGED <<clock, line, ed, edits, mode, disk, handle, shell>>

(* What else a program can do with the screen, at any position of it.      *)
Draw(s) ==
    /\ mode = "draw" /\ Len(said) < MaxDraw
    /\ screen' = s
    /\ said' = Append(said, Nul)
    /\ UNCHANGED <<clock, line, ed, edits, mode, disk, handle, shell>>

DrawClear == Draw(Clear(screen))
DrawDown == Draw(MoveToZero(screen))
DrawRowUp == Draw(DecrementOnlyRow(screen))
DrawAt(x, y) == Draw(SetCursor(screen, x, y))
Drawable == Key \union {NL, BS, Left, Right, Up, Down}
DrawColor(c) == Draw(Put(screen, c))

(* Programs that sleep, and the timer.                                     *)
Sleeping ==
    /\ mode = "sleep"
    /\ \/ Tick
       \/ \E p \in Sleeper, millis \in 0 .. MaxSleep : SleepFor(p, millis)
       \/ \E a \in clock.asked : SleepUntil(a)
    /\ UNCHANGED <<screen, line, ed, edits, mode, said, disk, handle, shell>>

(* One call of gets.                                                       *)
Gets ==
    /\ mode = "line"
    /\ \/ GetsBegin /\ UNCHANGED <<screen, mode>>
       \/ GetsLeft /\ UNCHANGED mode
       \/ GetsRight /\ UNCHANGED mode
       \/ GetsMark /\ UNCHANGED mode
       \/ GetsBackspace /\ UNCHANGED mode
       \/ (\E c \in Key : GetsChar(c)) /\ UNCHANGED mode
       \/ GetsEnter /\ mode' = "over"
    /\ UNCHANGED <<clock, ed, edits, said, disk, handle, shell>>

-----------------------------------------------------------------------------
(* The system calls seek and read, and readFully in the user's library.    *)
Seek(o) ==
    /\ mode = "read"
    /\ handle' = [handle EXCEPT !.off = o, !.from = o, !.want = 0, !.got = << >>]
    /\ UNCHANGED <<clock, screen, line, ed, edits, mode, said, disk, shell>>

Receives(got, n, all) ==
    /\ handle' = [handle EXCEPT !.off = @ + Len(got), !.from = handle.off,
                                !.want = n, !.got = got, !.all = all]
    /\ UNCHANGED <<clock, screen, line, ed, edits, mode, said, disk, shell>>

ReadCall(n) ==
    /\ mode = "read"
    /\ LET length == StoredLength(disk, TextFile)
       IN  Receives(IF handle.off > length THEN << >>
                    ELSE Read(disk, TextFile, length, handle.off, n), n, FALSE)

ReadFullyCall(n) ==
    /\ mode = "read"
    /\ Receives(ReadFully(disk, TextFile, StoredLength(disk, TextFile), handle.off, n), n, TRUE)

-----------------------------------------------------------------------------
(* Table::open: without a free slot the resource is lost.                  *)
Vacant(slot) == {i \in DOMAIN slot : slot[i] = Unclaimed}

Take(slot, x) ==
    IF Vacant(slot) = {} THEN slot ELSE [slot EXCEPT ![Min(Vacant(slot))] = x]

(* What the shell has of the text file keeps its OpenFile, and with it the *)
(* length that was read when it was opened first.                          *)
Held == TextFile \in shell.lost \/ \E i \in 1 .. Slots : shell.slot[i] = TextFile

\* Mutant: an OpenFile outlives its last handle.
OpenLengthKept(start) == IF start = TextFile /\ shell.length # 0 THEN shell.length
                         ELSE StoredLength(disk, start)

OpenLength(start) == IF start = TextFile /\ Held THEN shell.length ELSE StoredLength(disk, start)

Argv == Tokenize(shell.typed)
WordStart(i) == Lookup(disk, Root, Argv[i])
Start == WordStart(1)

(* What lookup gives for an entry over the end of a block may be no file's *)
(* first block: openFile then looks for an OpenFile wherever that leads.   *)
Astray(start) == start \notin {NotFound, Root, EditorFile, TextFile}
Begins(start) == ReadFully(disk, start, OpenLength(start), 0, 4)
WholeFile(start) == ReadFully(disk, start, OpenLength(start), 0, OpenLength(start))

(* The prompt and gets, whose semaphore stays in the table.                *)
ReadLine(t) ==
    /\ mode = "prompt" /\ shell.lines < MaxCommands
    /\ mode' = "run"
    /\ screen' = Puts(screen, Prompt \o t \o <<NL>>)
    /\ shell' = [shell EXCEPT !.typed = t, !.lines = @ + 1, !.slot = Take(@, Semaphore)]
    /\ UNCHANGED <<clock, line, ed, edits, said, disk, handle>>

Running == mode = "run" /\ UNCHANGED <<clock, line, edits, said, handle>>

EmptyLine ==
    /\ Running /\ Argv = << >>
    /\ mode' = "prompt"
    /\ UNCHANGED <<screen, ed, disk, shell>>

(* open() gives an error: no such name, or no slot.                        *)
CommandNotFound ==
    /\ Running /\ Argv # << >>
    /\ Start = NotFound \/ (Vacant(shell.slot) = {} /\ ~Astray(Start))
    /\ mode' = "prompt"
    /\ screen' = Puts(screen, Argv[1] \o <<NL>>)
    /\ shell' = IF Start = NotFound THEN shell
                ELSE [shell EXCEPT !.lost = @ \union {Start}, !.length = OpenLength(TextFile)]
    /\ UNCHANGED <<ed, disk>>

(* The file that is opened is none: the model ends here.                   *)
CommandAstray ==
    /\ Running /\ Argv # << >> /\ Astray(Start)
    /\ mode' = "astray"
    /\ UNCHANGED <<screen, ed, disk, shell>>

(* isELF has opened the file, and does not close it.                       *)
Opening ==
    /\ Running /\ Argv # << >> /\ Start # NotFound /\ ~Astray(Start)
    /\ Vacant(shell.slot) # {}

WithFile == [shell EXCEPT !.slot = Take(@, Start), !.length = OpenLength(TextFile)]

(* A file that is shorter than the magic number is passed over.            *)
ShortFile ==
    /\ Opening /\ OpenLength(Start) < Len(Magic)
    /\ mode' = "prompt"
    /\ shell' = WithFile
    /\ UNCHANGED <<screen, ed, disk>>

Forks == Opening /\ OpenLength(Start) >= Len(Magic)
HasChild == Cardinality(Vacant(shell.slot)) >= 2

(* There is no handle for the child, which then runs beside the shell.     *)
Crowded ==
    /\ Forks /\ ~HasChild
    /\ mode' = "crowded"
    /\ shell' = WithFile
    /\ UNCHANGED <<screen, ed, disk>>

(* cat says of a name that there is no such file, and goes on to print     *)
(* what it finds in memory that it has not written to.                     *)
CatText(name, found) ==
    LET start == Lookup(disk, Root, name)
    IN  IF start = NotFound THEN name \o <<NL>> \o found ELSE CString(WholeFile(start))

(* The program cat prints the file, and the shell closes the handle 1.     *)
Cat ==
    /\ Forks /\ HasChild /\ Begins(Start) # Magic
    /\ mode' = "prompt"
    /\ screen' = Puts(screen, CatText(Argv[1], << >>))
    /\ shell' = [WithFile EXCEPT !.slot[1] = Unclaimed]
    /\ UNCHANGED <<ed, disk>>

Executes(program) ==
    Forks /\ HasChild /\ Begins(Start) = Magic /\ shell.program = program

Prints(text) ==
    /\ mode' = "prompt"
    /\ screen' = Puts(screen, text)
    /\ shell' = WithFile
    /\ UNCHANGED <<ed, disk>>

(* ls reads the directory as a file, and prints the name of every entry.   *)
Ls ==
    /\ Executes("ls")
    /\ LET buf == WholeFile(Lookup(disk, Root, Dot))
           Name(i) == CString(SubSeq(buf, ((i - 1) * EntrySize) + 1, ((i - 1) * EntrySize) + NameLen))
       IN  Prints(FlattenSeq([i \in 1 .. Len(buf) \div EntrySize |-> Name(i) \o <<NL>>]))

(* echo prints its arguments with a space before each but the first.       *)
Echo ==
    /\ Executes("echo")
    /\ LET Printed(i) == (IF i = 1 THEN << >> ELSE <<Space>>) \o Argv[i + 1]
       IN  Prints(IF Len(Argv) = 1 THEN << >>
                  ELSE FlattenSeq([i \in 1 .. Len(Argv) - 1 |-> Printed(i)]) \o <<NL>>)

(* The editor takes one file.                                              *)
Named == IF Len(Argv) = 2 THEN WordStart(2) ELSE NotFound

(* cat and the editor open a word that names no file; the model ends here. *)
WordAstray ==
    /\ \/ Executes("cat") /\ \E i \in 2 .. Len(Argv) : Astray(WordStart(i))
       \/ Executes("edit") /\ Astray(Named)
    /\ mode' = "astray"
    /\ shell' = WithFile
    /\ UNCHANGED <<screen, ed, disk>>

CatFiles ==
    /\ Executes("cat") /\ \A i \in 2 .. Len(Argv) : ~Astray(WordStart(i))
    /\ \E found \in {<< >>, <<NL>>} :
          Prints(FlattenSeq([i \in 1 .. Len(Argv) - 1 |-> CatText(Argv[i + 1], found)]))

(* The editor gives up: no file or too many, one that there is not, or one *)
(* without a newline, for which it is killed.                              *)
EditorGivesUp ==
    /\ Executes("edit")
    /\ ~Astray(Named) /\ (Named # NotFound => Split(WholeFile(Named)) = << >>)
    /\ mode' = "prompt"
    /\ screen' = IF Len(Argv) > 2 THEN Puts(screen, <<NL>>) ELSE Clear(screen)
    /\ shell' = WithFile
    /\ UNCHANGED <<ed, disk>>

EditorOpens ==
    /\ Executes("edit") /\ Named # NotFound /\ ~Astray(Named)
    /\ LET lines == Split(WholeFile(Named))
       IN lines # << >> /\ Opens(lines)
    /\ mode' = "edit"
    /\ shell' = [WithFile EXCEPT !.slot = Take(@, Child)]
    /\ UNCHANGED disk

-----------------------------------------------------------------------------
(* In the editor, which has the text file open.                            *)
Edit ==
    /\ mode = "edit"
    /\ \/ LeftKey
       \/ RightKey
       \/ UpKey
       \/ DownKey
       \/ NewlineKey
       \/ JoinKey
       \/ BackspaceKey
       \/ \E c \in Key : CharKey(c)
    /\ UNCHANGED <<clock, line, mode, said, disk, handle, shell>>

Save ==
    /\ mode = "edit" /\ SaveKey
    /\ disk' = Write(disk, TextChain, Text(ed))
    /\ shell' = [shell EXCEPT !.saved = Text(ed)]
    /\ UNCHANGED <<clock, line, mode, said, handle>>

(* join gives the child's handle back.                                     *)
Joined(slot) == [i \in 1 .. Slots |-> IF slot[i] = Child THEN Unclaimed ELSE slot[i]]

\* Mutant: join leaves the child's handle in the table.
QuitUnjoined ==
    /\ mode = "edit" /\ QuitKey
    /\ mode' = "prompt"
    /\ UNCHANGED <<clock, line, said, disk, handle, shell>>

Quit ==
    /\ mode = "edit" /\ QuitKey
    /\ mode' = "prompt"
    /\ shell' = [shell EXCEPT !.slot = Joined(@)]
    /\ UNCHANGED <<clock, line, said, disk, handle>>

Next ==
    \/ \E c \in Key \union {NL} : PutChar(c)
    \/ \E row \in RainRow : Rain(row)
    \/ DrawClear \/ DrawDown \/ DrawRowUp
    \/ \E x \in 0 .. Rows, y \in 0 .. Cols - 1 : DrawAt(x, y)
    \/ \E c \in Drawable : DrawColor(c)
    \/ Sleeping
    \/ Gets
    \/ \E o \in 0 .. MaxRead + 1 : Seek(o)
    \/ \E n \in 1 .. MaxRead + 1 : ReadCall(n) \/ ReadFullyCall(n)
    \/ \E t \in Typeable : ReadLine(t)
    \/ EmptyLine \/ CommandNotFound \/ CommandAstray \/ ShortFile \/ Crowded \/ Cat
    \/ Ls \/ Echo \/ CatFiles \/ WordAstray
    \/ EditorGivesUp \/ EditorOpens
    \/ Edit \/ Save \/ Quit

Spec == Init /\ [][Next]_vars

-----------------------------------------------------------------------------
(* Types of the state (console.h:10-23, libc.c:13-17, edit.c:8-15,         *)
(* fs.h:100-107, table.h).                                                 *)
TypeOK ==
    /\ screen \in Screen /\ LineTypeOK /\ EditorTypeOK /\ TimersTypeOK
    /\ mode \in {"print", "rain", "draw", "sleep", "line", "over", "read",
                "prompt", "run", "edit", "crowded", "astray"}
    /\ Len(said) \in 0 .. Max({MaxPrint, MaxDraw})
    /\ DOMAIN disk.block = 0 .. 5 /\ \A b \in 0 .. 5 : Len(disk.block[b]) = BlockSize
    /\ disk.fat \in [0 .. 5 -> 0 .. 5]
    /\ {handle.off, handle.from, handle.want} \subseteq 0 .. MaxRead + 1
    /\ shell.slot \in [1 .. Slots -> {Unclaimed, Semaphore, Child, EditorFile, TextFile}]
    /\ shell.lines \in 0 .. MaxCommands

(* The printed text cut into the rows it takes: a row ends at a newline    *)
(* and when it is full.                                                    *)
Wrapped(text) ==
    LET Add(rows, c) ==
          LET now == rows[Len(rows)]
          IN  IF c = NL THEN Append(rows, << >>)
              ELSE IF Len(now) + 1 = Cols
                   THEN [rows EXCEPT ![Len(rows)] = Append(now, c)] \o << << >> >>
                   ELSE [rows EXCEPT ![Len(rows)] = Append(now, c)]
    IN  FoldLeft(Add, << << >> >>, text)

ShownRow(r) == [c \in 1 .. Cols |-> screen.cell[Address(r, c - 1)]]
Filled(row) == row \o [k \in 1 .. Cols - Len(row) |-> Blank]

(* After any output that began on the screen, it shows the last rows, with *)
(* blanks behind them, and the cursor is at their end (console.cc:48-81,   *)
(* 105-136).                                                               *)
ScreenIsTail ==
    mode = "print" /\ ~screen.lost =>
        LET rows == Wrapped(said)
            over == Max({0, Len(rows) - Rows})
        IN  /\ \A r \in 0 .. Rows - 1 :
                  ShownRow(r) = Filled(IF over + r + 1 \in DOMAIN rows THEN rows[over + r + 1]
                                       ELSE << >>)
            /\ screen.row = Len(rows) - over - 1 /\ screen.col = Len(rows[Len(rows)])

(* Each row that cmatrix has drawn is on the screen, the latest on top     *)
(* (cmatrix.c:29-37, console.cc:36-41, 138-146).                           *)
RainFalls ==
    mode = "rain" =>
        \A r \in 0 .. Rows - 1 :
            ShownRow(r) = IF r < Len(said) THEN said[Len(said) - r] ELSE Filled(<< >>)

(* From where a program has put it, the cursor leaves the screen only over *)
(* the top: by a step to the left or a backspace in the first cell, or by  *)
(* "decrement row" in the first row.  Otherwise it stays on the screen and *)
(* nothing is written beside it, and gets, cmatrix and the shell never do  *)
(* this; the editor may (console.cc:83-119, 155-189, syscall.cc:189-198).  *)
CursorOnScreen ==
    /\ mode # "edit" /\ ~screen.lost => OnScreen(screen.row, screen.col) /\ ~screen.stray
    /\ mode \notin {"print", "draw", "edit"} => ~screen.lost


-----------------------------------------------------------------------------
(* read gives a piece of the content from the position on, and none only   *)
(* at its end; readFully gives all that is wanted and there; the position  *)
(* moves by it: across blocks, and after a seek to or past the end         *)
(* (fs.cc:50-69, 146-150, libc.c:142-153).                                 *)
ReadIsContent ==
    mode = "read" =>
        LET all == SubSeq(handle.of, handle.from + 1,
                          Min({handle.from + handle.want, Len(handle.of)}))
        IN  /\ IsPrefix(handle.got, all)
            /\ IF handle.all THEN handle.got = all ELSE all # << >> => handle.got # << >>
            /\ handle.off = handle.from + Len(handle.got)

(* The arguments of a program are the words of the line (libstr.c:21-111). *)
TokensAreWords == mode = "run" => Argv = Words(shell.typed)

(* A command is found exactly if the directory lists it, except for a name *)
(* whose entry lies over the end of a block: of this lookup sees the first *)
(* bytes twice, and takes 0 for the file's first block or, if the name is  *)
(* longer than an int, the end of the name (fs.cc:110-121, 169-193).       *)
Straddles(i) == ((Header + (i - 1) * EntrySize) % BlockSize) + EntrySize > BlockSize

NamesAreFound ==
    mode = "run" /\ Argv # << >> =>
        LET name == Argv[1]
            listed == {i \in DOMAIN shell.files : shell.files[i].name = name}
        IN  IF listed = {} THEN Start = NotFound
            ELSE IF ~Straddles(Min(listed)) THEN Start = shell.files[Min(listed)].start
            ELSE IF Len(name) \in Wide + 1 .. 2 * Wide - 1
                 THEN Start = Number(SubSeq(name, Wide + 1, Len(name)))
                 ELSE Start = NotFound

(* What is typed is split into its words, and the first names the file     *)
(* that is printed or executed, but for an entry over the end of a block   *)
(* (shell.c:36-97, libstr.c:21-111,            *)
(* fs.cc:169-193).                                                         *)
CommandIsFound == TokensAreWords /\ NamesAreFound

(* ls prints every name of the directory, also the one that lookup cannot  *)
(* find, echo its words, cat the files that it is given as they were saved *)
(* last (ls.c:4-23, echo.c:3-13, cat.c:3-20, shell.c:9-34, libc.c:142-153).*)
Saved(word) ==
    CASE word = Note -> shell.saved [] word = EditName -> Magic [] OTHER -> word \o <<NL>>

ProgramsPrint ==
    [][mode = "run" /\ mode' = "prompt" =>
          \A program \in Programs \ {"edit"} : Executes(program) =>
              LET words == Tail(Words(shell.typed))
              IN  \/ program = "ls" /\ screen' = Puts(screen, FlattenSeq(
                        [i \in DOMAIN shell.files |-> shell.files[i].name \o <<NL>>]))
                  \/ program = "echo" /\ screen' = Puts(screen, FlattenSeq(
                        [i \in 1 .. 2 * Len(words) |-> IF i % 2 = 1 THEN words[(i + 1) \div 2]
                              ELSE IF i = 2 * Len(words) THEN <<NL>> ELSE <<Space>>]))
                  \/ program = "cat" /\ (Held \/ \E found \in {<< >>, <<NL>>} :
                        screen' = Puts(screen, FlattenSeq([i \in DOMAIN words |->
                              Saved(words[i]) \o (IF words[i] \in {Note, EditName} THEN << >>
                                                  ELSE found)])))]_vars

(* Every line costs the shell at most two handles: the semaphore of gets   *)
(* and the file that isELF opens; programs that ran leave none             *)
(* (libc.c:17, shell.c:10, 30, 94).                                        *)
TableLasts ==
    mode \in {"prompt", "run"} =>
        Cardinality(DOMAIN shell.slot \ Vacant(shell.slot)) <= shell.before + (2 * shell.lines)

(* The editor opens what was saved last, unless the shell has kept a       *)
(* handle of the file and with it the old length (fs.cc:39-43, 226-244).   *)
OpenedIsSaved ==
    [][mode = "run" /\ mode' = "edit" /\ ~Held => Text(ed') = shell.saved]_vars

(* A program gets the words of the line, and in every file what was saved  *)
(* last, by itself or by another program before it (cat.c, edit.c:63-190,  *)
(* fs.cc:39-108).                                                          *)
ProgramsSeeSaved == ProgramsPrint /\ OpenedIsSaved
=============================================================================
