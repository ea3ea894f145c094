--------------------------- MODULE TerminalProofs ---------------------------
(***************************************************************************)
(* For screens, lines, tables and words of any size: sleepers wake when    *)
(* their time has come, gets edits its line as a line editor does and      *)
(* stays in its buffer, and a line costs the shell two handles at most.    *)
(***************************************************************************)
EXTENDS Terminal, QueueLemmas, FiniteSetTheorems, WellFoundedInduction

----------------------------------------------------------------------------
(* Sequences that are cut, and put together again.                         *)

\* A piece of a sequence.
LEMMA Piece ==
  ASSUME NEW S, NEW s \in Seq(S), NEW a \in 1..(Len(s) + 1), NEW b \in (a - 1)..Len(s)
  PROVE  /\ SubSeq(s, a, b) \in Seq(S) /\ Len(SubSeq(s, a, b)) = b - a + 1
         /\ \A k \in 1..(b - a + 1) : SubSeq(s, a, b)[k] = s[a + k - 1]
<1>1. Len(s) \in Nat /\ \A i \in 1..Len(s) : s[i] \in S
  BY LenProperties, ElementOfSeq
<1>2. a \in Int /\ b \in Int /\ \A i \in a..b : s[i] \in S
  BY <1>1
<1>3. /\ SubSeq(s, a, b) \in Seq(S)
      /\ Len(SubSeq(s, a, b)) = IF a <= b THEN b - a + 1 ELSE 0
      /\ \A i \in 1..(b - a + 1) : SubSeq(s, a, b)[i] = s[a + i - 1]
  BY <1>2, SubSeqProperties
<1> QED BY <1>1, <1>3

\* What insertion at a position gives.
Inserted(s, n, c) == (SubSeq(s, 1, n) \o <<c>>) \o SubSeq(s, n + 1, Len(s))

IsInsertion(S, s, n, c, t) ==
  /\ t \in Seq(S) /\ Len(t) = Len(s) + 1
  /\ \A k \in 1..(Len(s) + 1) : t[k] = IF k <= n THEN s[k] ELSE IF k = n + 1 THEN c ELSE s[k - 1]

LEMMA Insertion ==
  ASSUME NEW S, NEW s \in Seq(S), NEW c \in S, NEW n \in 0..Len(s)
  PROVE  IsInsertion(S, s, n, c, Inserted(s, n, c))
<1> DEFINE a == SubSeq(s, 1, n)
           z == SubSeq(s, n + 1, Len(s))
           t == Inserted(s, n, c)
<1> HIDE DEF t
<1>1. Len(s) \in Nat /\ n \in Nat
  BY LenProperties
<1>2. a \in Seq(S) /\ Len(a) = n /\ \A k \in 1..n : a[k] = s[k]
  BY <1>1, Piece
<1>3. z \in Seq(S) /\ Len(z) = Len(s) - n /\ \A k \in 1..(Len(s) - n) : z[k] = s[n + k]
  <2>1. /\ z \in Seq(S) /\ Len(z) = Len(s) - (n + 1) + 1
        /\ \A k \in 1..(Len(s) - (n + 1) + 1) : z[k] = s[n + 1 + k - 1]
    BY <1>1, Piece
  <2> QED BY <1>1, <2>1
<1>4. <<c>> \in Seq(S) /\ Len(<<c>>) = 1 /\ <<c>>[1] = c
  OBVIOUS
<1> HIDE DEF a, z
<1>5. PICK b : b = a \o <<c>>
  OBVIOUS
<1>6. b \in Seq(S) /\ Len(b) = n + 1 /\ \A k \in 1..(n + 1) : b[k] = IF k <= n THEN s[k] ELSE c
  <2>1. /\ b \in Seq(S) /\ Len(b) = Len(a) + Len(<<c>>)
        /\ \A k \in 1..(Len(a) + Len(<<c>>)) :
             b[k] = IF k <= Len(a) THEN a[k] ELSE <<c>>[k - Len(a)]
    BY <1>2, <1>4, <1>5, ConcatProperties
  <2> QED BY <1>1, <1>2, <1>4, <2>1
<1>7. t = b \o z
  BY <1>5 DEF a, z, t, Inserted
<1>8. /\ t \in Seq(S) /\ Len(t) = Len(s) + 1
      /\ \A k \in 1..(Len(s) + 1) : t[k] = IF k <= n + 1 THEN b[k] ELSE z[k - (n + 1)]
  <2>1. Len(b) + Len(z) = Len(s) + 1 /\ Len(b) = n + 1
    BY <1>1, <1>3, <1>6
  <2>2. /\ t \in Seq(S) /\ Len(t) = Len(b) + Len(z)
        /\ \A k \in 1..(Len(b) + Len(z)) : t[k] = IF k <= Len(b) THEN b[k] ELSE z[k - Len(b)]
    <3>1. b \in Seq(S) /\ z \in Seq(S)
      BY <1>3, <1>6
    <3>2. /\ b \o z \in Seq(S) /\ Len(b \o z) = Len(b) + Len(z)
          /\ \A k \in 1..(Len(b) + Len(z)) :
               (b \o z)[k] = IF k <= Len(b) THEN b[k] ELSE z[k - Len(b)]
      BY <3>1, ConcatProperties
    <3> QED BY <1>7, <3>2, Zenon
  <2> QED BY <2>1, <2>2
<1>9. ASSUME NEW k \in 1..(Len(s) + 1)
      PROVE  t[k] = IF k <= n THEN s[k] ELSE IF k = n + 1 THEN c ELSE s[k - 1]
  <2>1. t[k] = IF k <= n + 1 THEN b[k] ELSE z[k - (n + 1)]
    BY <1>8
  <2>2. CASE k <= n + 1
    <3>1. k \in 1..(n + 1) /\ (k <= n \/ k = n + 1)
      BY <1>1, <2>2
    <3>2. b[k] = IF k <= n THEN s[k] ELSE c
      BY <1>6, <3>1
    <3> QED BY <1>1, <2>1, <2>2, <3>1, <3>2
  <2>3. CASE k > n + 1
    <3>1. k - (n + 1) \in 1..(Len(s) - n) /\ n + (k - (n + 1)) = k - 1
      BY <1>1, <2>3
    <3>2. z[k - (n + 1)] = s[n + (k - (n + 1))]
      BY <1>3, <3>1
    <3>3. ~ (k <= n + 1) /\ ~ (k <= n) /\ k # n + 1
      BY <1>1, <2>3
    <3> QED BY <2>1, <3>1, <3>2, <3>3
  <2>4. k <= n + 1 \/ k > n + 1
    BY <1>1
  <2> QED BY <2>2, <2>3, <2>4
<1> QED BY <1>8, <1>9 DEF t, IsInsertion

\* What deletion before a position gives.
Without(s, n) == SubSeq(s, 1, n - 1) \o SubSeq(s, n + 1, Len(s))

IsDeletion(S, s, n, t) ==
  /\ t \in Seq(S) /\ Len(t) = Len(s) - 1
  /\ \A k \in 1..(Len(s) - 1) : t[k] = IF k < n THEN s[k] ELSE s[k + 1]

LEMMA Deletion ==
  ASSUME NEW S, NEW s \in Seq(S), NEW n \in 1..Len(s)
  PROVE  IsDeletion(S, s, n, Without(s, n))
<1> DEFINE a == SubSeq(s, 1, n - 1)
           z == SubSeq(s, n + 1, Len(s))
<1>1. Len(s) \in Nat /\ n \in Nat
  BY LenProperties
<1>2. a \in Seq(S) /\ Len(a) = n - 1 /\ \A k \in 1..(n - 1) : a[k] = s[k]
  <2>1. /\ a \in Seq(S) /\ Len(a) = (n - 1) - 1 + 1
        /\ \A k \in 1..((n - 1) - 1 + 1) : a[k] = s[1 + k - 1]
    BY <1>1, Piece
  <2> QED BY <1>1, <2>1
<1>3. z \in Seq(S) /\ Len(z) = Len(s) - n /\ \A k \in 1..(Len(s) - n) : z[k] = s[n + k]
  <2>1. /\ z \in Seq(S) /\ Len(z) = Len(s) - (n + 1) + 1
        /\ \A k \in 1..(Len(s) - (n + 1) + 1) : z[k] = s[n + 1 + k - 1]
    BY <1>1, Piece
  <2> QED BY <1>1, <2>1
<1> HIDE DEF a, z
<1>4. /\ a \o z \in Seq(S) /\ Len(a \o z) = Len(s) - 1
      /\ \A k \in 1..(Len(s) - 1) : (a \o z)[k] = IF k <= n - 1 THEN a[k] ELSE z[k - (n - 1)]
  <2>1. Len(a) + Len(z) = Len(s) - 1
    BY <1>1, <1>2, <1>3
  <2>2. /\ a \o z \in Seq(S) /\ Len(a \o z) = Len(a) + Len(z)
        /\ \A k \in 1..(Len(a) + Len(z)) : (a \o z)[k] = IF k <= Len(a) THEN a[k] ELSE z[k - Len(a)]
    BY <1>2, <1>3, ConcatProperties
  <2>3. Len(a) = n - 1
    BY <1>2
  <2> QED BY <2>1, <2>2, <2>3
<1>5. ASSUME NEW k \in 1..(Len(s) - 1) PROVE (a \o z)[k] = IF k < n THEN s[k] ELSE s[k + 1]
  <2>1. CASE k < n
    BY <1>1, <1>2, <1>4, <2>1
  <2>2. CASE k >= n
    <3>1. k - (n - 1) \in 1..(Len(s) - n) /\ n + (k - (n - 1)) = k + 1
      BY <1>1, <2>2
    <3>2. (a \o z)[k] = z[k - (n - 1)]
      BY <1>1, <1>4, <2>2
    <3> QED BY <1>1, <1>3, <2>2, <3>1, <3>2
  <2>3. k < n \/ k >= n
    BY <1>1
  <2> QED BY <2>1, <2>2, <2>3
<1>6. Without(s, n) = a \o z
  BY DEF a, z, Without
<1> QED BY <1>4, <1>5, <1>6 DEF IsDeletion

----------------------------------------------------------------------------
(* The shell's table of handles.                                           *)

Used(slot) == {i \in 1..Slots : slot[i] # Unclaimed}
Kept(slot) == {i \in Used(slot) : slot[i] # Child}

\* What a table and the shell's record are.
ShellTypeOK ==
  /\ DOMAIN shell = DOMAIN NoShell
  /\ shell = [x \in DOMAIN NoShell |-> shell[x]]
  /\ shell.slot = [i \in 1..Slots |-> shell.slot[i]]
  /\ shell.lines \in Nat /\ shell.before \in Nat

\* gets has taken one of the two handles of a line when it is executed; the
\* child's is given back by join.
TableInv ==
  /\ ShellTypeOK
  /\ mode = "prompt" => Cardinality(Used(shell.slot)) <= shell.before + (2 * shell.lines)
  /\ mode = "run" => Cardinality(Used(shell.slot)) + 1 <= shell.before + (2 * shell.lines)
  /\ mode = "edit" => Cardinality(Kept(shell.slot)) <= shell.before + (2 * shell.lines)

LEMMA ShellFields ==
  DOMAIN NoShell = {"slot", "typed", "lines", "program", "length", "lost", "saved", "files", "before"}
  BY DEF NoShell

LEMMA UsedFacts ==
  ASSUME NEW slot
  PROVE  /\ IsFiniteSet(Used(slot)) /\ Cardinality(Used(slot)) \in Nat
         /\ Kept(slot) \subseteq Used(slot)
         /\ IsFiniteSet(Kept(slot)) /\ Cardinality(Kept(slot)) \in Nat
         /\ Cardinality(Kept(slot)) <= Cardinality(Used(slot))
<1>1. IsFiniteSet(1..Slots)
  BY FS_Interval, TerminalAssumption
<1>2. Used(slot) \in SUBSET (1..Slots) /\ Kept(slot) \in SUBSET Used(slot)
  BY DEF Used, Kept
<1>3. IsFiniteSet(Used(slot))
  BY <1>1, <1>2, FS_Subset
<1>4. IsFiniteSet(Kept(slot)) /\ Cardinality(Kept(slot)) <= Cardinality(Used(slot))
  BY <1>2, <1>3, FS_Subset
<1> QED BY <1>2, <1>3, <1>4, FS_CardinalityType

\* Fewer slots in use are not more.
LEMMA UsedLess ==
  ASSUME NEW s, NEW t, Used(t) \subseteq Used(s)
  PROVE  Cardinality(Used(t)) <= Cardinality(Used(s))
<1>1. Used(t) \in SUBSET Used(s) /\ IsFiniteSet(Used(s))
  BY UsedFacts
<1> QED BY <1>1, FS_Subset

\* Table::open takes one slot, or none.
LEMMA TakeSlot ==
  ASSUME NEW slot, slot = [i \in 1..Slots |-> slot[i]], NEW x
  PROVE  /\ Take(slot, x) = [i \in 1..Slots |-> Take(slot, x)[i]]
         /\ Cardinality(Used(Take(slot, x))) <= Cardinality(Used(slot)) + 1
         /\ \A i \in 1..Slots : Take(slot, x)[i] \in {slot[i], x}
<1> DEFINE t == Take(slot, x)
           m == Min(Vacant(slot))
<1>1. DOMAIN slot = 1..Slots
  OBVIOUS
<1>2. CASE Vacant(slot) = {}
  <2>1. t = slot
    BY <1>2 DEF Take
  <2> HIDE DEF t
  <2>2. Cardinality(Used(slot)) \in Nat
    BY UsedFacts
  <2>3. t = [i \in 1..Slots |-> t[i]] /\ \A i \in 1..Slots : t[i] = slot[i]
    BY <2>1
  <2>4. Cardinality(Used(t)) <= Cardinality(Used(slot)) + 1
    BY <2>1, <2>2
  <2> QED BY <2>3, <2>4 DEF t
<1>3. CASE Vacant(slot) # {}
  <2>1. t = [slot EXCEPT ![m] = x]
    BY <1>3 DEF Take
  <2>2. t = [i \in 1..Slots |-> IF i = m THEN x ELSE slot[i]]
    BY <1>1, <2>1, Zenon
  <2> HIDE DEF m, t
  <2>3. t = [i \in 1..Slots |-> t[i]]
    BY <2>2, Zenon
  <2>4. Used(t) \subseteq Used(slot) \cup {m}
    BY <2>2 DEF Used
  <2>5. IsFiniteSet(Used(slot) \cup {m})
        /\ Cardinality(Used(slot) \cup {m}) <= Cardinality(Used(slot)) + 1
    <3>1. IsFiniteSet(Used(slot)) /\ Cardinality(Used(slot)) \in Nat
      BY UsedFacts
    <3>2. /\ IsFiniteSet(Used(slot) \cup {m})
          /\ Cardinality(Used(slot) \cup {m}) =
               IF m \in Used(slot) THEN Cardinality(Used(slot)) ELSE Cardinality(Used(slot)) + 1
      BY <3>1, FS_AddElement
    <3> QED BY <3>1, <3>2
  <2>6. Used(t) \in SUBSET (Used(slot) \cup {m})
    BY <2>4
  <2>7. Cardinality(Used(t)) <= Cardinality(Used(slot) \cup {m})
        /\ Cardinality(Used(slot) \cup {m}) \in Nat
    BY <2>5, <2>6, FS_Subset, FS_CardinalityType
  <2>8. Cardinality(Used(t)) <= Cardinality(Used(slot)) + 1
    BY <2>5, <2>7, UsedFacts
  <2> QED BY <2>2, <2>3, <2>8 DEF t
<1> QED BY <1>2, <1>3

\* The steps of the shell that begin and end a command.
LEMMA TableInit == Init => TableInv
<1> SUFFICES ASSUME Init PROVE TableInv
  OBVIOUS
<1>1. CASE shell = NoShell /\ mode \notin {"prompt", "run", "edit"}
  BY <1>1, ShellFields, TerminalAssumption DEF TableInv, ShellTypeOK, NoShell
<1>2. CASE mode = "prompt"
  <2>1. PICK third \in Thirds, text \in FirstTexts, n \in Earlier, program \in Programs :
          shell = FirstShell(Directory(third), text, n, program)
    BY <1>2 DEF Init
  <2>2. /\ shell = [slot |-> [i \in 1..Slots |-> IF i <= n THEN Semaphore ELSE Unclaimed],
                    typed |-> << >>, lines |-> 0, program |-> program, length |-> 0, lost |-> {},
                    saved |-> text, files |-> Directory(third), before |-> n]
    BY <2>1 DEF FirstShell, NoShell
  <2>3. n \in Nat /\ n <= Slots /\ Slots \in Nat
    BY TerminalAssumption
  <2>4. Used(shell.slot) = 1..n
    BY <2>2, <2>3 DEF Used, Semaphore, Unclaimed
  <2>5. Cardinality(Used(shell.slot)) = n
    BY <2>3, <2>4, FS_Interval
  <2>6. ShellTypeOK
    BY <2>2, <2>3, ShellFields DEF ShellTypeOK
  <2> QED BY <1>2, <2>2, <2>3, <2>5, <2>6 DEF TableInv
<1> QED BY <1>1, <1>2 DEF Init, NothingStored

\* isELF has taken a slot.
LEMMA WithFileFacts ==
  ASSUME TableInv, mode = "run"
  PROVE  LET w == WithFile
         IN  /\ DOMAIN w = DOMAIN NoShell /\ w = [x \in DOMAIN NoShell |-> w[x]]
             /\ w.slot = [i \in 1..Slots |-> w.slot[i]]
             /\ w.lines = shell.lines /\ w.before = shell.before
             /\ Cardinality(Used(w.slot)) <= shell.before + (2 * shell.lines)
<1> DEFINE w == WithFile
           t == Take(shell.slot, Start)
<1>1. ShellTypeOK /\ Cardinality(Used(shell.slot)) + 1 <= shell.before + (2 * shell.lines)
  BY DEF TableInv
<1>2. t = [i \in 1..Slots |-> t[i]] /\ Cardinality(Used(t)) <= Cardinality(Used(shell.slot)) + 1
  BY <1>1, TakeSlot DEF ShellTypeOK
<1>3. Cardinality(Used(t)) \in Nat /\ Cardinality(Used(shell.slot)) \in Nat
  BY UsedFacts
<1> HIDE DEF t
<1>4. w = [shell EXCEPT !.slot = t, !.length = OpenLength(TextFile)]
  BY DEF WithFile, t
<1>5. /\ DOMAIN w = DOMAIN NoShell /\ w = [x \in DOMAIN NoShell |-> w[x]]
      /\ w.slot = t /\ w.lines = shell.lines /\ w.before = shell.before
  BY <1>1, <1>4, ShellFields DEF ShellTypeOK
<1>6. shell.lines \in Nat /\ shell.before \in Nat
  BY <1>1 DEF ShellTypeOK
<1>7. Cardinality(Used(t)) <= shell.before + (2 * shell.lines)
  BY <1>1, <1>2, <1>3, <1>6
<1> QED BY <1>2, <1>5, <1>7

\* A step that ends the command and leaves the record with the file.
LEMMA CommandEnds ==
  ASSUME TableInv, mode = "run", mode' \in {"prompt", "crowded", "astray"}, shell' = WithFile
  PROVE  TableInv'
<1>1. /\ DOMAIN shell' = DOMAIN NoShell /\ shell' = [x \in DOMAIN NoShell |-> shell'[x]]
      /\ shell'.slot = [i \in 1..Slots |-> shell'.slot[i]]
      /\ shell'.lines = shell.lines /\ shell'.before = shell.before
      /\ Cardinality(Used(shell'.slot)) <= shell.before + (2 * shell.lines)
  BY WithFileFacts
<1>2. shell.lines \in Nat /\ shell.before \in Nat
  BY DEF TableInv, ShellTypeOK
<1>3. ShellTypeOK'
  BY <1>1, <1>2 DEF ShellTypeOK
<1> QED BY <1>1, <1>2, <1>3 DEF TableInv

LEMMA TableNext == TableInv /\ Next => TableInv'
<1> SUFFICES ASSUME TableInv, Next PROVE TableInv'
  OBVIOUS
<1>1. ASSUME UNCHANGED shell, mode' = mode \/ mode' \notin {"prompt", "run", "edit"}
      PROVE  TableInv'
  <2>1. ShellTypeOK'
    BY <1>1 DEF TableInv, ShellTypeOK
  <2> QED BY <1>1, <2>1 DEF TableInv
<1>2. ASSUME UNCHANGED shell, mode = "run", mode' = "prompt" PROVE TableInv'
  <2>1. ShellTypeOK' /\ shell.before \in Nat /\ shell.lines \in Nat
    BY <1>2 DEF TableInv, ShellTypeOK
  <2>2. Cardinality(Used(shell.slot)) \in Nat
    BY UsedFacts
  <2> QED BY <1>2, <2>1, <2>2 DEF TableInv
<1>3. ASSUME NEW c, PutChar(c) PROVE TableInv'
  BY <1>1, <1>3 DEF PutChar
<1>4. ASSUME NEW row, Rain(row) PROVE TableInv'
  BY <1>1, <1>4 DEF Rain
<1>5. CASE DrawClear \/ DrawDown \/ DrawRowUp
  BY <1>1, <1>5 DEF DrawClear, DrawDown, DrawRowUp, Draw
<1>6. ASSUME NEW x, NEW y, DrawAt(x, y) PROVE TableInv'
  BY <1>1, <1>6 DEF DrawAt, Draw
<1>7. ASSUME NEW c, DrawColor(c) PROVE TableInv'
  BY <1>1, <1>7 DEF DrawColor, Draw
<1>8. CASE Sleeping
  BY <1>1, <1>8 DEF Sleeping
<1>9. CASE Gets
  BY <1>1, <1>9 DEF Gets
<1>10. ASSUME NEW o, Seek(o) PROVE TableInv'
  BY <1>1, <1>10 DEF Seek
<1>11. ASSUME NEW n, ReadCall(n) \/ ReadFullyCall(n) PROVE TableInv'
  BY <1>1, <1>11 DEF ReadCall, ReadFullyCall, Receives
<1>12. ASSUME NEW t, ReadLine(t) PROVE TableInv'
  <2> DEFINE u == Take(shell.slot, Semaphore)
  <2>1. ShellTypeOK /\ Cardinality(Used(shell.slot)) <= shell.before + (2 * shell.lines)
    BY <1>12 DEF TableInv, ReadLine
  <2>2. u = [i \in 1..Slots |-> u[i]] /\ Cardinality(Used(u)) <= Cardinality(Used(shell.slot)) + 1
    BY <2>1, TakeSlot DEF ShellTypeOK
  <2>3. Cardinality(Used(u)) \in Nat /\ Cardinality(Used(shell.slot)) \in Nat
    BY UsedFacts
  <2>4. mode' = "run" /\ shell' = [shell EXCEPT !.typed = t, !.lines = @ + 1, !.slot = u]
    BY <1>12 DEF ReadLine
  <2> HIDE DEF u
  <2>5. /\ DOMAIN shell' = DOMAIN NoShell /\ shell' = [x \in DOMAIN NoShell |-> shell'[x]]
        /\ shell'.slot = u /\ shell'.lines = shell.lines + 1 /\ shell'.before = shell.before
    BY <2>1, <2>4, ShellFields DEF ShellTypeOK
  <2>6. ShellTypeOK'
    BY <2>1, <2>2, <2>5 DEF ShellTypeOK
  <2>7. shell.lines \in Nat /\ shell.before \in Nat
    BY <2>1 DEF ShellTypeOK
  <2>8. Cardinality(Used(u)) + 1 <= shell.before + (2 * (shell.lines + 1))
    BY <2>1, <2>2, <2>3, <2>7
  <2> QED BY <2>4, <2>5, <2>6, <2>8 DEF TableInv
<1>13. CASE EmptyLine
  BY <1>2, <1>13 DEF EmptyLine, Running
<1>14. CASE CommandNotFound
  <2>1. mode = "run" /\ mode' = "prompt"
    BY <1>14 DEF CommandNotFound, Running
  <2>2. CASE UNCHANGED shell
    BY <1>2, <2>1, <2>2
  <2>3. CASE shell' = [shell EXCEPT !.lost = @ \union {Start}, !.length = OpenLength(TextFile)]
    <3>1. ShellTypeOK
      BY DEF TableInv
    <3>2. /\ DOMAIN shell' = DOMAIN NoShell /\ shell' = [x \in DOMAIN NoShell |-> shell'[x]]
          /\ shell'.slot = shell.slot /\ shell'.lines = shell.lines /\ shell'.before = shell.before
      BY <2>3, <3>1, ShellFields DEF ShellTypeOK
    <3>3. ShellTypeOK'
      BY <3>1, <3>2 DEF ShellTypeOK
    <3>4. Cardinality(Used(shell.slot)) \in Nat
      BY UsedFacts
    <3>5. Cardinality(Used(shell.slot)) <= shell.before + (2 * shell.lines)
      <4>1. shell.lines \in Nat /\ shell.before \in Nat
        BY <3>1 DEF ShellTypeOK
      <4>2. Cardinality(Used(shell.slot)) + 1 <= shell.before + (2 * shell.lines)
        BY <2>1 DEF TableInv
      <4> QED BY <3>4, <4>1, <4>2
    <3> QED BY <2>1, <3>2, <3>3, <3>5 DEF TableInv
  <2> QED BY <1>14, <2>2, <2>3 DEF CommandNotFound
<1>15. CASE ShortFile \/ Crowded
  BY <1>15, CommandEnds DEF ShortFile, Crowded, Forks, Opening, Running
<1>16. CASE Cat
  <2> DEFINE w == WithFile
  <2>1. mode = "run" /\ mode' = "prompt" /\ shell' = [w EXCEPT !.slot[1] = Unclaimed]
    BY <1>16 DEF Cat, Forks, Opening, Running
  <2>2. /\ DOMAIN w = DOMAIN NoShell /\ w = [x \in DOMAIN NoShell |-> w[x]]
        /\ w.slot = [i \in 1..Slots |-> w.slot[i]]
        /\ w.lines = shell.lines /\ w.before = shell.before
        /\ Cardinality(Used(w.slot)) <= shell.before + (2 * shell.lines)
    BY <2>1, WithFileFacts
  <2> HIDE DEF w
  <2> DEFINE t == [w.slot EXCEPT ![1] = Unclaimed]
  <2>3. t = [i \in 1..Slots |-> t[i]] /\ \A i \in 1..Slots : t[i] # Unclaimed => w.slot[i] # Unclaimed
    BY <2>2
  <2>4. shell' = [w EXCEPT !.slot = t]
    BY <2>1
  <2> HIDE DEF t
  <2>5. /\ DOMAIN shell' = DOMAIN NoShell /\ shell' = [x \in DOMAIN NoShell |-> shell'[x]]
        /\ shell'.slot = t /\ shell'.lines = shell.lines /\ shell'.before = shell.before
    BY <2>2, <2>4, ShellFields
  <2>6. Cardinality(Used(t)) <= Cardinality(Used(w.slot))
    BY <2>3, UsedLess DEF Used
  <2>7. ShellTypeOK'
    BY <2>3, <2>5 DEF ShellTypeOK, TableInv
  <2>8. Cardinality(Used(t)) \in Nat /\ Cardinality(Used(w.slot)) \in Nat
    BY UsedFacts
  <2>9. shell.lines \in Nat /\ shell.before \in Nat
    BY DEF TableInv, ShellTypeOK
  <2>10. Cardinality(Used(t)) <= shell.before + (2 * shell.lines)
    BY <2>2, <2>6, <2>8, <2>9
  <2> QED BY <2>1, <2>5, <2>7, <2>10 DEF TableInv
<1>17. CASE Ls \/ Echo \/ CatFiles \/ WordAstray \/ EditorGivesUp
  BY <1>17, CommandEnds
     DEF Ls, Echo, CatFiles, WordAstray, EditorGivesUp, Prints, Executes, Forks, Opening, Running
<1>18. CASE EditorOpens
  <2> DEFINE w == WithFile
             t == Take(w.slot, Child)
  <2>1. mode = "run" /\ mode' = "edit" /\ shell' = [w EXCEPT !.slot = t]
    BY <1>18 DEF EditorOpens, Executes, Forks, Opening, Running
  <2>2. /\ DOMAIN w = DOMAIN NoShell /\ w = [x \in DOMAIN NoShell |-> w[x]]
        /\ w.slot = [i \in 1..Slots |-> w.slot[i]]
        /\ w.lines = shell.lines /\ w.before = shell.before
        /\ Cardinality(Used(w.slot)) <= shell.before + (2 * shell.lines)
    BY <2>1, WithFileFacts
  <2> HIDE DEF w
  <2>3. t = [i \in 1..Slots |-> t[i]] /\ \A i \in 1..Slots : t[i] \in {w.slot[i], Child}
    BY <2>2, TakeSlot
  <2> HIDE DEF t
  <2>4. Kept(t) \in SUBSET Used(w.slot)
    BY <2>3 DEF Kept, Used
  <2>5. Cardinality(Kept(t)) <= Cardinality(Used(w.slot))
    BY <2>4, UsedFacts, FS_Subset
  <2>6. /\ DOMAIN shell' = DOMAIN NoShell /\ shell' = [x \in DOMAIN NoShell |-> shell'[x]]
        /\ shell'.slot = t /\ shell'.lines = shell.lines /\ shell'.before = shell.before
    BY <2>1, <2>2, ShellFields
  <2>7. ShellTypeOK'
    BY <2>3, <2>6 DEF ShellTypeOK, TableInv
  <2>8. Cardinality(Kept(t)) \in Nat /\ Cardinality(Used(w.slot)) \in Nat
    BY UsedFacts
  <2> QED BY <2>1, <2>2, <2>5, <2>6, <2>7, <2>8 DEF TableInv, ShellTypeOK
<1>19. CASE Edit
  BY <1>1, <1>19 DEF Edit
<1>20. CASE Save
  <2>1. ShellTypeOK /\ mode = "edit" /\ mode' = "edit" /\ shell' = [shell EXCEPT !.saved = Text(ed)]
    BY <1>20 DEF TableInv, Save
  <2>2. /\ DOMAIN shell' = DOMAIN NoShell /\ shell' = [x \in DOMAIN NoShell |-> shell'[x]]
        /\ shell'.slot = shell.slot /\ shell'.lines = shell.lines /\ shell'.before = shell.before
    BY <2>1, ShellFields DEF ShellTypeOK
  <2>3. ShellTypeOK'
    BY <2>1, <2>2 DEF ShellTypeOK
  <2> QED BY <2>1, <2>2, <2>3 DEF TableInv
<1>21. CASE Quit
  <2> DEFINE t == Joined(shell.slot)
  <2>1. ShellTypeOK /\ mode = "edit" /\ mode' = "prompt" /\ shell' = [shell EXCEPT !.slot = t]
    BY <1>21 DEF TableInv, Quit
  <2>2. t = [i \in 1..Slots |-> t[i]] /\ Used(t) = Kept(shell.slot)
    BY DEF Joined, Used, Kept
  <2> HIDE DEF t
  <2>3. /\ DOMAIN shell' = DOMAIN NoShell /\ shell' = [x \in DOMAIN NoShell |-> shell'[x]]
        /\ shell'.slot = t /\ shell'.lines = shell.lines /\ shell'.before = shell.before
    BY <2>1, ShellFields DEF ShellTypeOK
  <2>4. ShellTypeOK'
    BY <2>1, <2>2, <2>3 DEF ShellTypeOK
  <2> QED BY <2>1, <2>2, <2>3, <2>4 DEF TableInv
<1>22. CASE CommandAstray
  BY <1>1, <1>22 DEF CommandAstray, Running
<1> QED BY <1>3, <1>4, <1>5, <1>6, <1>7, <1>8, <1>9, <1>10, <1>11, <1>12, <1>13, <1>14, <1>15,
           <1>16, <1>17, <1>18, <1>19, <1>20, <1>21, <1>22 DEF Next

\* Every line costs the shell two handles at most, whatever is typed and
\* however the programs end (libc.c:17, shell.c:10, 30, 94).
THEOREM TableHolds == Spec => []TableLasts
<1>1. TableInv /\ UNCHANGED vars => TableInv'
  BY DEF vars, TableInv, ShellTypeOK
<1>2. TableInv => TableLasts
  <2> SUFFICES ASSUME TableInv, mode \in {"prompt", "run"}
               PROVE  Cardinality(DOMAIN shell.slot \ Vacant(shell.slot))
                        <= shell.before + (2 * shell.lines)
    BY DEF TableLasts
  <2>1. DOMAIN shell.slot = 1..Slots
    BY DEF TableInv, ShellTypeOK
  <2>2. DOMAIN shell.slot \ Vacant(shell.slot) = Used(shell.slot)
    BY <2>1 DEF Used, Vacant
  <2>3. Cardinality(Used(shell.slot)) \in Nat
    BY UsedFacts
  <2>4. shell.lines \in Nat /\ shell.before \in Nat
    BY DEF TableInv, ShellTypeOK
  <2>5. CASE mode = "prompt"
    BY <2>2, <2>5 DEF TableInv
  <2>6. CASE mode = "run"
    <3>1. Cardinality(Used(shell.slot)) + 1 <= shell.before + (2 * shell.lines)
      BY <2>6 DEF TableInv
    <3> QED BY <2>2, <2>3, <2>4, <3>1
  <2> QED BY <2>5, <2>6
<1> QED BY <1>1, <1>2, TableInit, TableNext, PTL DEF Spec

----------------------------------------------------------------------------
(* gets.                                                                   *)

Byte == Printable \cup {Nul}
Locals == [p : Seq(Byte), i : Nat, sz : Nat, real : Nat, in : BOOLEAN,
          smashed : BOOLEAN, inserted : BOOLEAN, marked : BOOLEAN]

\* Before the buffer grows: the line, and behind it 0s up to the end of the
\* buffer.  One insertion too many has at most overwritten the last 0.
Buffered(l) ==
  /\ l.i <= l.real /\ l.real <= MaxLine
  /\ l.i <= l.sz /\ l.real <= l.sz + 1 /\ l.real <= Len(l.p)
  /\ l.i < l.sz => Len(l.p) = l.sz + 1
  /\ \A k \in 1..l.real : l.p[k] \in Printable
  /\ \A k \in (l.real + 1)..Len(l.p) : l.p[k] = Nul
  /\ l.real > l.sz => l.inserted

LineInv ==
  /\ line \in Locals
  /\ ~line.in => line = NoLine
  /\ line.smashed => line.inserted /\ line.real > line.sz /\ line.real <= MaxLine
  /\ Editing => Buffered(line) /\ line.i < line.sz

LEMMA LineConstants ==
  /\ Chunk \in Nat /\ Chunk > 0 /\ MaxLine \in Nat /\ Key \subseteq Printable
  /\ Nul \in Byte /\ Nul \notin Printable /\ Printable \subseteq Byte
  BY LineAssumption, ConsoleAssumption DEF Nul, Byte

\* gets begins with an empty line.
LEMMA Begun ==
  LET l == [NoLine EXCEPT !.in = TRUE]
  IN  /\ l.p = << >> /\ l.i = 0 /\ l.sz = 0 /\ l.real = 0 /\ l.in = TRUE
      /\ l.smashed = FALSE /\ l.inserted = FALSE /\ l.marked = FALSE
      /\ DOMAIN l = {"p", "i", "sz", "real", "in", "smashed", "inserted", "marked"}
      /\ l = [x \in DOMAIN l |-> l[x]]
<1>1. ASSUME NEW r, NEW e,
             r = [p |-> e, i |-> 0, sz |-> 0, real |-> 0, in |-> FALSE,
                  smashed |-> FALSE, inserted |-> FALSE, marked |-> FALSE]
      PROVE  LET l == [r EXCEPT !.in = TRUE]
             IN  /\ l.p = e /\ l.i = 0 /\ l.sz = 0 /\ l.real = 0 /\ l.in = TRUE
                 /\ l.smashed = FALSE /\ l.inserted = FALSE /\ l.marked = FALSE
                 /\ DOMAIN l = {"p", "i", "sz", "real", "in", "smashed", "inserted", "marked"}
                 /\ l = [x \in DOMAIN l |-> l[x]]
  BY <1>1
<1>2. PICK e : e = << >>
  OBVIOUS
<1>3. NoLine = [p |-> e, i |-> 0, sz |-> 0, real |-> 0, in |-> FALSE,
                smashed |-> FALSE, inserted |-> FALSE, marked |-> FALSE]
  BY <1>2 DEF NoLine
<1> QED BY <1>1, <1>2, <1>3

LEMMA NoLineFacts ==
  /\ NoLine \in Locals /\ ~NoLine.in /\ ~NoLine.smashed /\ NoLine.real = 0
  /\ Buffered([NoLine EXCEPT !.in = TRUE]) /\ [NoLine EXCEPT !.in = TRUE] \in Locals
<1> DEFINE l == [NoLine EXCEPT !.in = TRUE]
<1>1. << >> \in Seq(Byte) /\ Len(<< >>) = 0
  BY EmptySeq
<1>2. /\ l.p = << >> /\ l.i = 0 /\ l.sz = 0 /\ l.real = 0 /\ l.in = TRUE
      /\ l.smashed = FALSE /\ l.inserted = FALSE /\ l.marked = FALSE
      /\ DOMAIN l = {"p", "i", "sz", "real", "in", "smashed", "inserted", "marked"}
      /\ l = [x \in DOMAIN l |-> l[x]]
  BY Begun
<1>3. NoLine \in Locals /\ ~NoLine.in /\ ~NoLine.smashed /\ NoLine.real = 0
  BY <1>1 DEF NoLine, Locals
<1> HIDE DEF l
<1>4. l \in Locals
  <2>1. l.p \in Seq(Byte)
    BY <1>1, <1>2
  <2>2. /\ l.i \in Nat /\ l.sz \in Nat /\ l.real \in Nat /\ l.in \in BOOLEAN
        /\ l.smashed \in BOOLEAN /\ l.inserted \in BOOLEAN /\ l.marked \in BOOLEAN
    <3>1. l.i \in Nat /\ l.sz \in Nat /\ l.real \in Nat
      BY <1>2
    <3>2. TRUE \in BOOLEAN /\ FALSE \in BOOLEAN
      OBVIOUS
    <3> QED BY <1>2, <3>1, <3>2, Zenon
  <2>3. l = [x \in {"p", "i", "sz", "real", "in", "smashed", "inserted", "marked"} |-> l[x]]
    BY <1>2
  <2> QED BY <2>1, <2>2, <2>3 DEF Locals
<1>5. Buffered(l)
  BY <1>1, <1>2, LineConstants DEF Buffered
<1> QED BY <1>3, <1>4, <1>5 DEF l

\* The buffer is larger than the position, and the line is what it was.
LEMMA GrowFacts ==
  ASSUME NEW l \in Locals, Buffered(l), NEW g, g = Grow(l)
  PROVE  /\ g \in Locals /\ Buffered(g) /\ g.i < g.sz
         /\ g.i = l.i /\ g.real = l.real /\ g.in = l.in /\ g.smashed = l.smashed
         /\ \A k \in 1..l.real : g.p[k] = l.p[k]
<1>1. CASE l.i < l.sz
  BY <1>1 DEF Grow
<1>2. CASE ~(l.i < l.sz)
  <2> DEFINE n == l.sz + Chunk + 1
             q == [j \in 1..n |-> IF j <= l.real THEN l.p[j] ELSE Nul]
  <2>1. /\ l.sz \in Nat /\ l.real \in Nat /\ l.i \in Nat /\ Chunk \in Nat /\ Chunk > 0
        /\ l.i <= l.sz /\ l.real <= l.sz + 1
    BY LineConstants DEF Locals, Buffered
  <2>2. n \in Nat /\ l.real < n + 1 /\ l.i < l.sz + Chunk
    BY <1>2, <2>1
  <2>3. \A k \in 1..l.real : l.p[k] \in Byte
    BY LineConstants DEF Buffered
  <2>4. q \in [1..n -> Byte]
    BY <2>2, <2>3, LineConstants
  <2>5. q \in Seq(Byte) /\ Len(q) = n
    BY <2>2, <2>4
  <2>6. g = [l EXCEPT !.sz = @ + Chunk, !.p = q]
    BY <1>2 DEF Grow
  <2>7. \A k \in 1..n : q[k] = IF k <= l.real THEN l.p[k] ELSE Nul
    OBVIOUS
  <2> HIDE DEF n, q
  <2>8. /\ g.p = q /\ g.sz = l.sz + Chunk /\ g.i = l.i /\ g.real = l.real /\ g.in = l.in
        /\ g.smashed = l.smashed /\ g.inserted = l.inserted /\ g.marked = l.marked
        /\ g \in Locals
    <3>1. l.sz + Chunk \in Nat
      BY <2>1
    <3> QED BY <2>5, <2>6, <3>1 DEF Locals
  <2>9. \A k \in 1..l.real : g.p[k] = l.p[k]
    BY <2>1, <2>2, <2>7, <2>8
  <2>10. \A k \in (l.real + 1)..n : g.p[k] = Nul
    BY <2>1, <2>2, <2>7, <2>8
  <2>11. Len(g.p) = g.sz + 1 /\ Len(g.p) = n
    BY <2>1, <2>5, <2>8 DEF n
  <2>12. l.i <= l.real /\ l.real <= MaxLine /\ \A k \in 1..l.real : l.p[k] \in Printable
    BY DEF Buffered
  <2>13. ~(g.real > g.sz)
    BY <2>1, <2>8
  <2>14. g.i <= g.sz /\ g.real <= g.sz + 1 /\ g.real <= Len(g.p) /\ g.i < g.sz
    BY <2>1, <2>2, <2>8, <2>11
  <2> QED BY <2>8, <2>9, <2>10, <2>11, <2>12, <2>13, <2>14 DEF Buffered
<1> QED BY <1>1, <1>2

LEMMA TypedFacts ==
  ASSUME NEW l \in Locals, Buffered(l)
  PROVE  /\ Typed(l) \in Seq(Printable) /\ Len(Typed(l)) = l.real
         /\ \A k \in 1..l.real : Typed(l)[k] = l.p[k]
         /\ l.i \in 0..l.real
<1>1. l.real \in Nat /\ l.i \in Nat /\ l.i <= l.real
  BY DEF Locals, Buffered
<1>2. \A k \in 1..l.real : l.p[k] \in Printable
  BY DEF Buffered
<1>3. /\ Typed(l) \in Seq(Printable) /\ Len(Typed(l)) = IF 1 <= l.real THEN l.real - 1 + 1 ELSE 0
      /\ \A k \in 1..(l.real - 1 + 1) : Typed(l)[k] = l.p[1 + k - 1]
  BY <1>1, <1>2, SubSeqProperties DEF Typed
<1>4. \A k \in 1..l.real : Typed(l)[k] = l.p[k]
  BY <1>1, <1>3
<1> QED BY <1>1, <1>3, <1>4

\* What the end of the loop shows is what the key has made of the line.
LEMMA LoopFacts ==
  ASSUME NEW l \in Locals, Buffered(l), l.in, ~l.smashed, Loop(l)
  PROVE  /\ line' \in Locals /\ Buffered(line') /\ line'.i < line'.sz
         /\ line'.in /\ ~line'.smashed
         /\ line'.i = l.i /\ Typed(line') = Typed(l)
<1>1. /\ line' \in Locals /\ Buffered(line') /\ line'.i < line'.sz
      /\ line'.i = l.i /\ line'.real = l.real /\ line'.in = l.in /\ line'.smashed = l.smashed
      /\ \A k \in 1..l.real : line'.p[k] = l.p[k]
  BY GrowFacts DEF Loop
<1>2. /\ Typed(l) \in Seq(Printable) /\ Len(Typed(l)) = l.real
      /\ \A k \in 1..l.real : Typed(l)[k] = l.p[k]
  BY TypedFacts
<1>3. /\ Typed(line') \in Seq(Printable) /\ Len(Typed(line')) = line'.real
      /\ \A k \in 1..line'.real : Typed(line')[k] = line'.p[k]
  BY <1>1, TypedFacts
<1>4. Len(Typed(line')) = Len(Typed(l))
      /\ \A k \in 1..Len(Typed(line')) : Typed(line')[k] = Typed(l)[k]
  BY <1>1, <1>2, <1>3
<1>5. Typed(line') = Typed(l)
  BY <1>2, <1>3, <1>4, SeqEqual
<1> QED BY <1>1, <1>5

\* A key that leaves the line in its buffer.
LEMMA KeyStays ==
  ASSUME NEW l \in Locals, Buffered(l), l.in, ~l.smashed, Loop(l)
  PROVE  /\ LineInv' /\ Editing' /\ ~line'.smashed /\ line'.in
         /\ Typed(line') = Typed(l) /\ line'.i = l.i
<1>1. /\ line' \in Locals /\ Buffered(line') /\ line'.i < line'.sz
      /\ line'.in /\ ~line'.smashed
      /\ line'.i = l.i /\ Typed(line') = Typed(l)
  BY LoopFacts
<1> QED BY <1>1 DEF LineInv, Editing

\* A key that moves the position, or does nothing.
LEMMA KeyMoves ==
  ASSUME LineInv, Editing, NEW l \in Locals, Loop(l), l.p = line.p, l.sz = line.sz,
         l.real = line.real, l.in = line.in, l.smashed = line.smashed,
         l.inserted = line.inserted, l.i <= l.sz, l.i <= l.real
  PROVE  LineInv' /\ LineText!Move
<1>1. Buffered(line) /\ line.i < line.sz /\ line \in Locals /\ line.in /\ ~line.smashed
  BY DEF LineInv, Editing
<1>2. Buffered(l)
  BY <1>1 DEF Buffered
<1>3. /\ LineInv' /\ Editing' /\ ~line'.smashed /\ line'.in
      /\ Typed(line') = Typed(l) /\ line'.i = l.i
  BY <1>1, <1>2, KeyStays
<1>4. Typed(l) = Typed(line)
  BY DEF Typed
<1>5. Len(Typed(line)) = line.real
  BY <1>1, TypedFacts
<1>6. line'.i \in 0..Len(Typed(line))
  BY <1>2, <1>3, <1>5, TypedFacts
<1> QED BY <1>1, <1>3, <1>4, <1>6 DEF LineText!Move

LEMMA GetsBeginStep == LineInv /\ GetsBegin => LineInv' /\ LineText!Begin
<1> SUFFICES ASSUME LineInv, GetsBegin PROVE LineInv' /\ LineText!Begin
  OBVIOUS
<1> DEFINE l == [NoLine EXCEPT !.in = TRUE]
<1>1. ~line.in /\ Loop(l)
  BY DEF GetsBegin
<1>2. l \in Locals /\ Buffered(l)
  BY NoLineFacts
<1>3. l.in /\ ~l.smashed /\ l.i = 0 /\ l.real = 0
  BY Begun
<1> HIDE DEF l
<1>4. /\ LineInv' /\ Editing' /\ ~line'.smashed /\ line'.in
      /\ Typed(line') = Typed(l) /\ line'.i = l.i
  BY <1>1, <1>2, <1>3, KeyStays
<1>5. Typed(l) \in Seq(Printable) /\ Len(Typed(l)) = 0
  BY <1>2, <1>3, TypedFacts
<1>6. Typed(l) = << >>
  BY <1>5, EmptySeq
<1> QED BY <1>1, <1>3, <1>4, <1>6 DEF LineText!Begin

LEMMA GetsLeftStep == LineInv /\ GetsLeft => LineInv' /\ LineText!Move
<1> SUFFICES ASSUME LineInv, GetsLeft PROVE LineInv' /\ LineText!Move
  OBVIOUS
<1> DEFINE l == [line EXCEPT !.i = @ - 1]
<1>1. Editing /\ line.i > 0 /\ Loop(l) /\ line \in Locals
  BY DEF GetsLeft, LineInv
<1>2. Buffered(line) /\ line.i < line.sz /\ line.i \in Nat /\ line.sz \in Nat
      /\ line.real \in Nat /\ line.i <= line.real
  BY <1>1 DEF LineInv, Buffered, Locals
<1>3. line.i - 1 \in Nat /\ line.i - 1 <= line.sz /\ line.i - 1 <= line.real
  BY <1>1, <1>2
<1>4. /\ l \in Locals /\ l.p = line.p /\ l.sz = line.sz /\ l.real = line.real /\ l.in = line.in
      /\ l.smashed = line.smashed /\ l.inserted = line.inserted /\ l.i = line.i - 1
  BY <1>1, <1>3 DEF Locals
<1> HIDE DEF l
<1> QED BY <1>1, <1>3, <1>4, KeyMoves

LEMMA GetsRightStep == LineInv /\ GetsRight => LineInv' /\ LineText!Move
<1> SUFFICES ASSUME LineInv, GetsRight PROVE LineInv' /\ LineText!Move
  OBVIOUS
<1> DEFINE l == [line EXCEPT !.i = @ + 1]
<1>1. Editing /\ line.i < line.real /\ Loop(l) /\ line \in Locals
  BY DEF GetsRight, LineInv
<1>2. line.i < line.sz /\ line.i \in Nat /\ line.sz \in Nat /\ line.real \in Nat
  BY <1>1 DEF LineInv, Locals
<1>3. line.i + 1 \in Nat /\ line.i + 1 <= line.sz /\ line.i + 1 <= line.real
  BY <1>1, <1>2
<1>4. /\ l \in Locals /\ l.p = line.p /\ l.sz = line.sz /\ l.real = line.real /\ l.in = line.in
      /\ l.smashed = line.smashed /\ l.inserted = line.inserted /\ l.i = line.i + 1
  BY <1>1, <1>3 DEF Locals
<1> HIDE DEF l
<1> QED BY <1>1, <1>3, <1>4, KeyMoves

LEMMA GetsMarkStep == LineInv /\ GetsMark => LineInv' /\ LineText!Move
<1> SUFFICES ASSUME LineInv, GetsMark PROVE LineInv' /\ LineText!Move
  OBVIOUS
<1> DEFINE l == [line EXCEPT !.marked = TRUE]
<1>1. Editing /\ Loop(l) /\ line \in Locals
  BY DEF GetsMark, LineInv
<1>2. line.i < line.sz /\ line.i <= line.real /\ line.i \in Nat /\ line.sz \in Nat
  BY <1>1 DEF LineInv, Buffered, Locals
<1>3. /\ l \in Locals /\ l.p = line.p /\ l.sz = line.sz /\ l.real = line.real /\ l.in = line.in
      /\ l.smashed = line.smashed /\ l.inserted = line.inserted /\ l.i = line.i
  BY <1>1 DEF Locals
<1> HIDE DEF l
<1>4. l.i <= l.sz /\ l.i <= l.real
  BY <1>2, <1>3
<1> QED BY <1>1, <1>3, <1>4, KeyMoves

LEMMA GetsEnterStep ==
  LineInv /\ GetsEnter => LineInv' /\ (line'.smashed \/ LineText!Finish)
<1> SUFFICES ASSUME LineInv, GetsEnter PROVE LineInv' /\ (line'.smashed \/ LineText!Finish)
  OBVIOUS
<1>1. Editing /\ line \in Locals /\ Buffered(line) /\ line.i < line.sz
  BY DEF GetsEnter, LineInv
<1>2. CASE Fits(line, line.real)
  <2>1. line' = NoLine
    BY <1>2 DEF GetsEnter
  <2>2. line' \in Locals /\ ~line'.in /\ ~line'.smashed
    BY <2>1, NoLineFacts
  <2>3. LineInv' /\ ~Editing'
    BY <2>1, <2>2 DEF LineInv, Editing
  <2> QED BY <1>1, <2>2, <2>3 DEF LineText!Finish, Editing
<1>3. CASE ~Fits(line, line.real)
  <2>1. line' = [line EXCEPT !.smashed = TRUE]
    BY <1>3 DEF GetsEnter
  <2>2. /\ line' \in Locals /\ line'.smashed /\ line'.in = line.in /\ line'.real = line.real
        /\ line'.sz = line.sz /\ line'.inserted = line.inserted
    BY <1>1, <2>1 DEF Locals
  <2>3. Len(line.p) = line.sz + 1 /\ line.real \in Nat /\ line.sz \in Nat /\ line.p \in Seq(Byte)
    BY <1>1 DEF Buffered, Locals
  <2>4. DOMAIN line.p = 1..(line.sz + 1)
    BY <2>3
  <2>5. line.real > line.sz
    BY <1>3, <2>3, <2>4 DEF Fits
  <2>6. line.inserted /\ line.real <= MaxLine /\ line.in
    BY <1>1, <2>5 DEF Buffered, Editing
  <2>7. LineInv'
    BY <2>2, <2>5, <2>6 DEF LineInv, Editing
  <2> QED BY <2>2, <2>7
<1> QED BY <1>2, <1>3

LEMMA GetsBackspaceStep == LineInv /\ GetsBackspace => LineInv' /\ LineText!Delete
<1> SUFFICES ASSUME LineInv, GetsBackspace PROVE LineInv' /\ LineText!Delete
  OBVIOUS
<1> DEFINE m == [line EXCEPT !.i = @ - 1, !.real = @ - 1]
           q == [j \in DOMAIN m.p |-> IF j > m.i /\ j <= m.real THEN m.p[j + 1]
                                      ELSE IF j = m.real + 1 THEN Nul ELSE m.p[j]]
           l == [m EXCEPT !.p = q]
           i == line.i
           real == line.real
           n == Len(line.p)
<1>1. Editing /\ line \in Locals /\ Buffered(line) /\ i < line.sz /\ i > 0 /\ Loop(l)
  BY DEF GetsBackspace, LineInv
<1>2. /\ i \in Nat /\ real \in Nat /\ line.sz \in Nat /\ n \in Nat /\ line.p \in Seq(Byte)
      /\ DOMAIN line.p = 1..n /\ \A k \in 1..n : line.p[k] \in Byte
  BY <1>1, LenProperties, ElementOfSeq DEF Locals
<1>3. /\ i <= real /\ real <= MaxLine /\ real <= n /\ n = line.sz + 1 /\ real <= line.sz + 1
      /\ \A k \in 1..real : line.p[k] \in Printable
      /\ \A k \in (real + 1)..n : line.p[k] = Nul
      /\ real > line.sz => line.inserted
  BY <1>1 DEF Buffered
<1>4. i - 1 \in Nat /\ real - 1 \in Nat
  BY <1>1, <1>2, <1>3
<1>5. /\ m.i = i - 1 /\ m.real = real - 1 /\ m.p = line.p /\ m.sz = line.sz /\ m.in = line.in
      /\ m.smashed = line.smashed /\ m.inserted = line.inserted /\ m \in Locals
  BY <1>1, <1>4 DEF Locals
<1> HIDE DEF m
<1>6. q = [j \in 1..n |-> IF j > i - 1 /\ j <= real - 1 THEN line.p[j + 1]
                           ELSE IF j = real - 1 + 1 THEN Nul ELSE line.p[j]]
  BY <1>2, <1>5
<1>7. \A k \in 1..n : q[k] = IF k > i - 1 /\ k <= real - 1 THEN line.p[k + 1]
                              ELSE IF k = real - 1 + 1 THEN Nul ELSE line.p[k]
  BY <1>6
<1> HIDE DEF q
<1>8. q \in Seq(Byte) /\ Len(q) = n
  <2>1. \A k \in 1..n : q[k] \in Byte
    <3> SUFFICES ASSUME NEW k \in 1..n PROVE q[k] \in Byte
      OBVIOUS
    <3>1. q[k] = IF k > i - 1 /\ k <= real - 1 THEN line.p[k + 1]
                 ELSE IF k = real - 1 + 1 THEN Nul ELSE line.p[k]
      BY <1>7
    <3>2. k <= real - 1 => k + 1 \in 1..n
      BY <1>2, <1>3
    <3>3. k <= real - 1 => line.p[k + 1] \in Byte
      BY <1>2, <3>2
    <3> QED BY <1>2, <3>1, <3>3, LineConstants
  <2>2. q \in [1..n -> Byte]
    BY <1>6, <2>1
  <2> QED BY <1>2, <2>2
<1>9. /\ l.p = q /\ l.i = i - 1 /\ l.real = real - 1 /\ l.sz = line.sz /\ l.in = line.in
      /\ l.smashed = line.smashed /\ l.inserted = line.inserted /\ l \in Locals
  BY <1>5, <1>8 DEF Locals
<1> HIDE DEF l
<1>10. ASSUME NEW k \in 1..(real - 1)
       PROVE  q[k] = (IF k < i THEN line.p[k] ELSE line.p[k + 1]) /\ q[k] \in Printable
  <2>1. k \in 1..n /\ k \in 1..real /\ k + 1 \in 1..real /\ k # real - 1 + 1 /\ k <= real - 1
    BY <1>2, <1>3, <1>4
  <2>2. q[k] = IF k > i - 1 /\ k <= real - 1 THEN line.p[k + 1]
               ELSE IF k = real - 1 + 1 THEN Nul ELSE line.p[k]
    BY <1>7, <2>1
  <2>3. k < i <=> ~(k > i - 1)
    BY <1>2
  <2>4. line.p[k] \in Printable /\ line.p[k + 1] \in Printable
    BY <1>3, <2>1
  <2>5. q[k] = IF k < i THEN line.p[k] ELSE line.p[k + 1]
    BY <2>1, <2>2, <2>3
  <2> QED BY <2>4, <2>5
<1>11. ASSUME NEW k \in real..n PROVE q[k] = Nul
  <2>1. k \in 1..n /\ ~(k <= real - 1) /\ (k = real - 1 + 1 \/ k \in (real + 1)..n)
    BY <1>1, <1>2, <1>3
  <2>2. q[k] = IF k > i - 1 /\ k <= real - 1 THEN line.p[k + 1]
               ELSE IF k = real - 1 + 1 THEN Nul ELSE line.p[k]
    BY <1>7, <2>1
  <2> QED BY <1>3, <2>1, <2>2
<1>12. Buffered(l)
  <2>1. MaxLine \in Nat
    BY LineConstants
  <2>2. /\ l.i <= l.real /\ l.real <= MaxLine /\ l.i <= l.sz /\ l.real <= l.sz + 1
        /\ l.real <= Len(l.p)
    BY <1>1, <1>2, <1>3, <1>4, <1>8, <1>9, <2>1
  <2>3. Len(l.p) = l.sz + 1
    BY <1>3, <1>8, <1>9
  <2>4. \A k \in 1..l.real : l.p[k] \in Printable
    BY <1>9, <1>10
  <2>5. \A k \in (l.real + 1)..Len(l.p) : l.p[k] = Nul
    <3>1. l.real + 1 = real
      BY <1>2, <1>9
    <3> QED BY <1>8, <1>9, <1>11, <3>1
  <2>6. l.real > l.sz => l.inserted
    BY <1>2, <1>3, <1>9
  <2> QED BY <2>2, <2>3, <2>4, <2>5, <2>6 DEF Buffered
<1>13. line.in /\ ~line.smashed
  BY <1>1 DEF Editing
<1>14. /\ LineInv' /\ Editing' /\ ~line'.smashed /\ line'.in
       /\ Typed(line') = Typed(l) /\ line'.i = l.i
  BY <1>1, <1>9, <1>12, <1>13, KeyStays
<1>15. Typed(l) = SubSeq(Typed(line), 1, i - 1) \o SubSeq(Typed(line), i + 1, Len(Typed(line)))
  <2> DEFINE s == Typed(line)
             t == SubSeq(s, 1, i - 1) \o SubSeq(s, i + 1, Len(s))
             u == Typed(l)
  <2>1. s \in Seq(Printable) /\ Len(s) = real /\ \A k \in 1..real : s[k] = line.p[k]
    BY <1>1, TypedFacts
  <2>2. u \in Seq(Printable) /\ Len(u) = real - 1 /\ \A k \in 1..(real - 1) : u[k] = q[k]
    BY <1>9, <1>12, TypedFacts
  <2> HIDE DEF s, u
  <2>3. i \in 1..Len(s)
    BY <1>1, <1>2, <1>3, <2>1
  <2>4. /\ t \in Seq(Printable) /\ Len(t) = Len(s) - 1
        /\ \A k \in 1..(Len(s) - 1) : t[k] = IF k < i THEN s[k] ELSE s[k + 1]
    <3>1. IsDeletion(Printable, s, i, Without(s, i))
      BY <2>1, <2>3, Deletion, Zenon
    <3>2. t = Without(s, i)
      BY DEF t, Without
    <3> HIDE DEF t
    <3> QED BY <3>1, <3>2 DEF IsDeletion
  <2> HIDE DEF t
  <2>5. \A k \in 1..(real - 1) : t[k] = u[k]
    <3> SUFFICES ASSUME NEW k \in 1..(real - 1) PROVE t[k] = u[k]
      OBVIOUS
    <3>1. k \in 1..real /\ k + 1 \in 1..real
      BY <1>2
    <3>2. s[k] = line.p[k] /\ s[k + 1] = line.p[k + 1]
      BY <2>1, <3>1
    <3>3. u[k] = IF k < i THEN line.p[k] ELSE line.p[k + 1]
      BY <1>10, <2>2
    <3>4. t[k] = IF k < i THEN s[k] ELSE s[k + 1]
      BY <2>1, <2>4
    <3> QED BY <3>2, <3>3, <3>4
  <2>6. u = t
    BY <2>1, <2>2, <2>4, <2>5, SeqEqual
  <2> QED BY <2>6 DEF s, t, u
<1> QED BY <1>1, <1>9, <1>13, <1>14, <1>15 DEF LineText!Delete

\* What a character makes of the line: the rest of it moves up, and where
\* there is none the line is longer by it.
LEMMA CharText ==
  ASSUME NEW s \in Seq(Printable), NEW i \in 0..Len(s), NEW c \in Printable,
         NEW u \in Seq(Printable), Len(u) = Len(s) + 1,
         \A k \in 1..(Len(s) + 1) : u[k] = IF k <= i THEN s[k] ELSE IF k = i + 1 THEN c ELSE s[k - 1]
  PROVE  u = (SubSeq(s, 1, i) \o <<c>>) \o SubSeq(s, i + 1, Len(s))
<1> DEFINE t == Inserted(s, i, c)
<1>1. /\ t \in Seq(Printable) /\ Len(t) = Len(s) + 1
      /\ \A k \in 1..(Len(s) + 1) :
           t[k] = IF k <= i THEN s[k] ELSE IF k = i + 1 THEN c ELSE s[k - 1]
  <2> HIDE DEF t
  <2>1. t = Inserted(s, i, c)
    BY DEF t
  <2>2. IsInsertion(Printable, s, i, c, Inserted(s, i, c))
    BY Insertion, Zenon
  <2> QED BY <2>1, <2>2 DEF IsInsertion
<1> HIDE DEF t
<1>2. \A k \in 1..Len(u) : u[k] = t[k]
  BY <1>1
<1>3. u = t
  BY <1>1, <1>2, SeqEqual
<1> QED BY <1>3 DEF t, Inserted

LEMMA GetsCharStep ==
  ASSUME LineInv, NEW c \in Key, GetsChar(c)
  PROVE  LineInv' /\ (line'.smashed \/ LineText!Insert(c))
<1> DEFINE i == line.i
           real == line.real
           n == Len(line.p)
           middle == At(line, line.i) # Nul
           m == [line EXCEPT !.real = @ + 1]
           q == IF middle THEN Opened(line, c) ELSE [line.p EXCEPT ![line.i + 1] = c]
           l == [m EXCEPT !.p = q, !.i = @ + 1, !.inserted = @ \/ middle]
           d == [m EXCEPT !.smashed = TRUE, !.inserted = TRUE]
<1>1. Editing /\ line \in Locals /\ Buffered(line) /\ i < line.sz /\ real < MaxLine
  BY DEF GetsChar, LineInv
<1>2. /\ i \in Nat /\ real \in Nat /\ line.sz \in Nat /\ n \in Nat /\ line.p \in Seq(Byte)
      /\ DOMAIN line.p = 1..n /\ \A k \in 1..n : line.p[k] \in Byte
  BY <1>1, LenProperties, ElementOfSeq DEF Locals
<1>3. /\ i <= real /\ real <= n /\ n = line.sz + 1 /\ real <= line.sz + 1
      /\ \A k \in 1..real : line.p[k] \in Printable
      /\ \A k \in (real + 1)..n : line.p[k] = Nul
      /\ real > line.sz => line.inserted
  BY <1>1 DEF Buffered
<1>4. /\ c \in Printable /\ c \in Byte /\ MaxLine \in Nat
      /\ Nul \in Byte /\ Nul \notin Printable /\ Printable \subseteq Byte
  BY LineConstants
<1>5. i + 1 \in 1..n /\ real + 1 \in Nat /\ real + 1 <= MaxLine /\ i + 1 \in Nat
  BY <1>1, <1>2, <1>3, <1>4
<1>6. middle <=> i < real
  <2>1. middle <=> line.p[i + 1] # Nul
    BY DEF At
  <2>2. i < real => i + 1 \in 1..real
    BY <1>2
  <2>3. ~(i < real) => i + 1 \in (real + 1)..n
    BY <1>2, <1>3, <1>5
  <2> QED BY <1>3, <1>4, <2>1, <2>2, <2>3
<1>7. line.in /\ ~line.smashed
  BY <1>1 DEF Editing
<1>8. \/ middle /\ ~Fits(line, real) /\ line' = d
      \/ (middle => Fits(line, real)) /\ Loop(l)
  BY DEF GetsChar
<1>9. /\ m.i = i /\ m.real = real + 1 /\ m.p = line.p /\ m.sz = line.sz /\ m.in = line.in
      /\ m.smashed = line.smashed /\ m.inserted = line.inserted /\ m \in Locals
  BY <1>1, <1>5 DEF Locals
<1> HIDE DEF m
<1>10. CASE middle /\ ~Fits(line, real) /\ line' = d
  <2>1. /\ line' \in Locals /\ line'.smashed /\ line'.in = line.in /\ line'.real = real + 1
        /\ line'.sz = line.sz /\ line'.inserted
    BY <1>9, <1>10 DEF Locals
  <2>2. ~(real + 1 \in 1..n)
    BY <1>2, <1>10 DEF Fits
  <2>3. real + 1 > line.sz
    BY <1>2, <1>3, <2>2
  <2> QED BY <1>5, <1>7, <2>1, <2>3 DEF LineInv, Editing
<1>11. CASE (middle => Fits(line, real)) /\ Loop(l)
  <2>1. real + 1 \in 1..n
    <3>1. CASE middle
      BY <1>2, <1>11, <3>1 DEF Fits
    <3>2. CASE ~middle
      <4>1. i = real
        BY <1>2, <1>3, <1>6, <3>2
      <4> QED BY <1>5, <4>1
    <3> QED BY <3>1, <3>2
  <2>2. ASSUME NEW k \in 1..n
        PROVE  q[k] = IF k <= i \/ k > real + 1 THEN line.p[k]
                      ELSE IF k = i + 1 THEN c ELSE line.p[k - 1]
    <3>1. CASE middle
      BY <1>2, <3>1 DEF Opened
    <3>2. CASE ~middle
      <4>1. i = real
        BY <1>2, <1>3, <1>6, <3>2
      <4>2. q[k] = IF k = i + 1 THEN c ELSE line.p[k]
        BY <1>2, <3>2
      <4>3. k = i + 1 <=> ~(k <= i \/ k > real + 1)
        BY <1>2, <4>1
      <4> QED BY <4>2, <4>3
    <3> QED BY <3>1, <3>2
  <2>3. DOMAIN q = 1..n /\ q = [k \in 1..n |-> q[k]]
    <3>1. CASE middle
      BY <1>2, <3>1 DEF Opened
    <3>2. CASE ~middle
      BY <1>2, <3>2
    <3> QED BY <3>1, <3>2
  <2>4. ASSUME NEW k \in 1..(real + 1)
        PROVE  /\ q[k] = IF k <= i THEN line.p[k] ELSE IF k = i + 1 THEN c ELSE line.p[k - 1]
               /\ q[k] \in Printable
    <3>1. k \in 1..n /\ ~(k > real + 1)
      BY <1>2, <2>1
    <3>2. q[k] = IF k <= i THEN line.p[k] ELSE IF k = i + 1 THEN c ELSE line.p[k - 1]
      BY <2>2, <3>1
    <3>3. k <= i => k \in 1..real
      BY <1>2, <1>3
    <3>4. ~(k <= i) /\ k # i + 1 => k - 1 \in 1..real
      BY <1>2
    <3> QED BY <1>3, <1>4, <3>2, <3>3, <3>4
  <2>5. ASSUME NEW k \in (real + 1 + 1)..n PROVE q[k] = Nul
    <3>1. k \in 1..n /\ k > real + 1 /\ k \in (real + 1)..n
      BY <1>2
    <3> QED BY <1>3, <2>2, <3>1
  <2>6. ASSUME NEW k \in 1..n PROVE q[k] \in Byte
    <3>1. k \in 1..(real + 1) \/ k \in (real + 1 + 1)..n
      BY <1>2
    <3> QED BY <1>4, <2>4, <2>5, <3>1
  <2> HIDE DEF q
  <2>7. q \in Seq(Byte) /\ Len(q) = n
    <3>1. q \in [1..n -> Byte]
      BY <2>3, <2>6
    <3> QED BY <1>2, <3>1
  <2>8. (line.inserted \/ middle) \in BOOLEAN
    BY DEF Locals
  <2>9. /\ l.p = q /\ l.i = i + 1 /\ l.real = real + 1 /\ l.sz = line.sz /\ l.in = line.in
        /\ l.smashed = line.smashed /\ l.inserted = (line.inserted \/ middle) /\ l \in Locals
    BY <1>5, <1>9, <2>7, <2>8 DEF Locals
  <2> HIDE DEF l
  <2>10. Buffered(l)
    <3>1. /\ l.i <= l.real /\ l.real <= MaxLine /\ l.i <= l.sz /\ l.real <= l.sz + 1
          /\ l.real <= Len(l.p)
      BY <1>1, <1>2, <1>3, <1>5, <2>1, <2>7, <2>9
    <3>2. Len(l.p) = l.sz + 1
      BY <1>3, <2>7, <2>9
    <3>3. \A k \in 1..l.real : l.p[k] \in Printable
      BY <2>4, <2>9
    <3>4. \A k \in (l.real + 1)..Len(l.p) : l.p[k] = Nul
      BY <2>5, <2>7, <2>9
    <3>5. l.real > l.sz => l.inserted
      <4>1. middle => l.inserted
        BY <2>9
      <4>2. ~middle => l.real <= l.sz
        BY <1>1, <1>2, <1>3, <1>6, <2>9
      <4> QED BY <1>2, <1>5, <2>9, <4>1, <4>2
    <3> QED BY <3>1, <3>2, <3>3, <3>4, <3>5 DEF Buffered
  <2>11. /\ LineInv' /\ Editing' /\ ~line'.smashed /\ line'.in
         /\ Typed(line') = Typed(l) /\ line'.i = l.i
    BY <1>7, <1>11, <2>9, <2>10, KeyStays
  <2>12. /\ Typed(line) \in Seq(Printable) /\ Len(Typed(line)) = real
         /\ \A k \in 1..real : Typed(line)[k] = line.p[k]
         /\ i \in 0..real
    BY <1>1, TypedFacts
  <2>13. /\ Typed(l) \in Seq(Printable) /\ Len(Typed(l)) = real + 1
         /\ \A k \in 1..(real + 1) : Typed(l)[k] = q[k]
    BY <2>9, <2>10, TypedFacts
  <2>14. ASSUME NEW k \in 1..(real + 1)
         PROVE  Typed(l)[k] = IF k <= i THEN Typed(line)[k]
                              ELSE IF k = i + 1 THEN c ELSE Typed(line)[k - 1]
    <3>1. k <= i => k \in 1..real
      BY <1>2, <1>3
    <3>2. ~(k <= i) /\ k # i + 1 => k - 1 \in 1..real
      BY <1>2
    <3>3. Typed(l)[k] = IF k <= i THEN line.p[k] ELSE IF k = i + 1 THEN c ELSE line.p[k - 1]
      BY <2>4, <2>13
    <3> QED BY <2>12, <3>1, <3>2, <3>3
  <2>15. Typed(l) = (SubSeq(Typed(line), 1, i) \o <<c>>)
                      \o SubSeq(Typed(line), i + 1, Len(Typed(line)))
    <3> DEFINE s == Typed(line)
               u == Typed(l)
    <3>1. s \in Seq(Printable) /\ i \in 0..Len(s) /\ c \in Printable
          /\ u \in Seq(Printable) /\ Len(u) = Len(s) + 1
      BY <1>4, <2>12, <2>13
    <3>2. \A k \in 1..(Len(s) + 1) :
            u[k] = IF k <= i THEN s[k] ELSE IF k = i + 1 THEN c ELSE s[k - 1]
      BY <2>12, <2>14
    <3> HIDE DEF s, u
    <3> QED BY ONLY <3>1, <3>2, CharText DEF s, u
  <2> QED BY <1>1, <1>7, <2>9, <2>11, <2>15 DEF LineText!Insert
<1> QED BY <1>8, <1>10, <1>11

\* Only gets changes the line; every other part has none.
LEMMA LineNext ==
  ASSUME LineInv, [Next]_vars
  PROVE  LineInv' /\ (line' = line \/ line'.smashed \/ LineText!Next)
<1>1. CASE UNCHANGED line
  BY <1>1 DEF LineInv, Editing
<1>2. CASE Gets
  <2>1. CASE GetsBegin
    BY <2>1, GetsBeginStep DEF LineText!Next
  <2>2. CASE GetsLeft
    BY <2>2, GetsLeftStep DEF LineText!Next
  <2>3. CASE GetsRight
    BY <2>3, GetsRightStep DEF LineText!Next
  <2>4. CASE GetsMark
    BY <2>4, GetsMarkStep DEF LineText!Next
  <2>5. CASE GetsBackspace
    BY <2>5, GetsBackspaceStep DEF LineText!Next
  <2>6. ASSUME NEW c \in Key, GetsChar(c)
        PROVE  LineInv' /\ (line'.smashed \/ LineText!Next)
    BY <2>6, GetsCharStep, LineConstants DEF LineText!Next
  <2>7. CASE GetsEnter
    BY <2>7, GetsEnterStep DEF LineText!Next
  <2> QED BY <1>2, <2>1, <2>2, <2>3, <2>4, <2>5, <2>6, <2>7 DEF Gets
<1>3. CASE Next /\ ~Gets
  <2>1. UNCHANGED line
    BY <1>3 DEF Next, PutChar, Rain, DrawClear, DrawDown, DrawRowUp, DrawAt, DrawColor, Draw, Sleeping,
       Seek, ReadCall, ReadFullyCall, Receives, ReadLine, EmptyLine, CommandNotFound, ShortFile,
       CommandAstray, WordAstray, Crowded, Cat, Ls, Echo, CatFiles, EditorGivesUp, EditorOpens, Prints, Executes, Forks,
       Opening, Running, Edit, Save, Quit
  <2> QED BY <1>1, <2>1
<1> QED BY <1>1, <1>2, <1>3 DEF vars


\* gets is a line editor as long as its line has stayed in its buffer
\* (libc.c:12-126).
THEOREM GetsEditsLine == Spec => ImplementsLine
<1>1. Init => LineInv /\ LineText!Init
  <2> SUFFICES ASSUME Init PROVE LineInv /\ LineText!Init
    OBVIOUS
  <2>1. line = NoLine
    BY DEF Init, NothingTyped
  <2>2. line \in Locals /\ ~line.in /\ ~line.smashed
    BY <2>1, NoLineFacts
  <2> QED BY <2>1, <2>2 DEF LineInv, Editing, LineText!Init
<1>2. LineInv /\ [Next]_vars => LineInv'
  BY LineNext
<1>3. LineInv /\ [Next]_vars => [line'.smashed \/ LineText!Next]_<<line>>
  BY LineNext
<1> QED BY <1>1, <1>2, <1>3, PTL DEF Spec, ImplementsLine

\* A line that is typed from left to right, with corrections, stays in the
\* buffer, and is ended by a 0 wherever the cursor goes (libc.c:20-27, 62-100).
THEOREM LineStaysInBuffer == Spec => []StaysInBuffer
<1>1. Init => LineInv
  <2> SUFFICES ASSUME Init PROVE LineInv
    OBVIOUS
  <2>1. line = NoLine
    BY DEF Init, NothingTyped
  <2>2. line \in Locals /\ ~line.in /\ ~line.smashed
    BY <2>1, NoLineFacts
  <2> QED BY <2>1, <2>2 DEF LineInv, Editing
<1>2. LineInv /\ [Next]_vars => LineInv'
  BY LineNext
<1>3. LineInv => StaysInBuffer
  <2> SUFFICES ASSUME LineInv PROVE StaysInBuffer
    OBVIOUS
  <2>1. ASSUME Editing, Fits(line, line.real) PROVE At(line, line.real) = Nul
    <3>1. line \in Locals /\ \A k \in (line.real + 1)..Len(line.p) : line.p[k] = Nul
      BY <2>1 DEF LineInv, Buffered
    <3>2. line.real \in Nat /\ line.p \in Seq(Byte) /\ DOMAIN line.p = 1..Len(line.p)
          /\ Len(line.p) \in Nat
      BY <3>1, LenProperties DEF Locals
    <3>3. line.real + 1 \in (line.real + 1)..Len(line.p)
      BY <2>1, <3>2 DEF Fits
    <3> QED BY <3>1, <3>3 DEF At
  <2> QED BY <2>1 DEF LineInv, Buffered, StaysInBuffer
<1> QED BY <1>1, <1>2, <1>3, PTL DEF Spec

----------------------------------------------------------------------------
(* Time.                                                                   *)

LEMMA ModSmall ==
  ASSUME NEW x \in Nat, NEW w \in Nat, x < w
  PROVE  x % w = x
  OBVIOUS

LEMMA ModRange ==
  ASSUME NEW x \in Nat, NEW w \in Nat, w > 0
  PROVE  x % w \in 0..(w - 1)
  OBVIOUS

LEMMA DivExact ==
  ASSUME NEW x \in Nat, NEW h \in Nat, h > 0
  PROVE  (x * h) \div h = x
  OBVIOUS

LEMMA DivBound ==
  ASSUME NEW x \in Nat, NEW h \in Nat, h > 0
  PROVE  x \div h \in 0..x
  OBVIOUS

LEMMA DivPositive ==
  ASSUME NEW x \in Nat, NEW h \in Nat, h > 0, h <= x
  PROVE  x \div h \in Nat /\ x \div h > 0
  OBVIOUS

LEMMA TimesGrows ==
  ASSUME NEW x \in Nat, NEW y \in Nat, NEW h \in Nat, h > 0
  PROVE  x * h \in Nat /\ (x + y) * h \in Nat /\ x * h <= (x + y) * h /\ x <= x * h
  OBVIOUS

LEMMA ClockConstants ==
  /\ Hz \in Nat /\ Hz > 0 /\ Second = Hz /\ Word \in Nat /\ Word > 0
  /\ Sleeper \subseteq Nat \ {Nobody} /\ MaxSleep \in Nat
<1>1. /\ Oscillator \in Nat /\ Oscillator > 0 /\ Requested \in 1..Oscillator
      /\ Second = Hz /\ Word \in Nat /\ Word > 0
      /\ Sleeper \subseteq Nat \ {Nobody} /\ MaxSleep \in Nat
  BY TimersAssumption
<1>2. Requested \in Nat /\ Requested > 0 /\ Requested <= Oscillator
  BY <1>1
<1>3. Divisor \in Nat /\ Divisor > 0 /\ Divisor <= Oscillator
  <2>1. Oscillator \div Requested \in 0..Oscillator
    BY <1>1, <1>2, DivBound
  <2>2. Oscillator \div Requested > 0
    BY <1>1, <1>2, DivPositive
  <2> QED BY <1>1, <2>1, <2>2 DEF Divisor
<1>4. Hz \in Nat /\ Hz > 0
  <2> DEFINE d == Divisor
  <2>1. d \in Nat /\ d > 0 /\ d <= Oscillator
    BY <1>3
  <2> HIDE DEF d
  <2>2. Oscillator \div d \in Nat /\ Oscillator \div d > 0
    BY <1>1, <2>1, DivPositive
  <2> QED BY <2>2 DEF Hz, d
<1> QED BY <1>1, <1>4

LEMMA TargetInWord ==
  ASSUME NEW m \in Nat
  PROVE  TargetOf(m) \in Jiffy
<1>1. Hz \in Nat /\ Hz > 0 /\ Second = Hz /\ Word \in Nat /\ Word > 0
  BY ClockConstants
<1> DEFINE h == Hz
           x == m * h
           y == x % Word
<1>2. h \in Nat /\ h > 0
  BY <1>1
<1> HIDE DEF h
<1>3. x \in Nat
  BY <1>2
<1> HIDE DEF x
<1>4. y \in 0..(Word - 1)
  BY <1>1, <1>3, ModRange
<1> HIDE DEF y
<1>5. y \in Nat
  BY <1>1, <1>4
<1>6. y \div h \in 0..y
  BY <1>2, <1>5, DivBound
<1>7. y \div h \in 0..(Word - 1)
  BY <1>1, <1>4, <1>6
<1> QED BY <1>1, <1>7 DEF TargetOf, Jiffy, h, x, y

LEMMA MillisNat ==
  ASSUME NEW j \in Nat
  PROVE  Millis(j) \in Nat
<1>1. Hz \in Nat /\ Hz > 0 /\ Second = Hz /\ Word \in Nat /\ Word > 0
  BY ClockConstants
<1> DEFINE h == Hz
           x == j * h
           y == x % Word
<1>2. h \in Nat /\ h > 0
  BY <1>1
<1> HIDE DEF h
<1>3. x \in Nat
  BY <1>2
<1> HIDE DEF x
<1>4. y \in 0..(Word - 1)
  BY <1>1, <1>3, ModRange
<1> HIDE DEF y
<1>5. y \in Nat
  BY <1>1, <1>4
<1>6. y \div h \in 0..y
  BY <1>2, <1>5, DivBound
<1> QED BY <1>1, <1>5, <1>6 DEF Millis, h, x, y

\* What is computed from the milliseconds, before they have wrapped as after,
\* is the jiffy that a caller may expect.
LEMMA DueIsTarget ==
  ASSUME NEW m \in Nat, clock.jiffies \in Nat
  PROVE  Due(m) = TargetOf((Millis(clock.jiffies) + m) % Word)
<1>1. Hz \in Nat /\ Hz > 0 /\ Second = Hz /\ Word \in Nat /\ Word > 0
  BY ClockConstants
<1> DEFINE h == Hz
           j == clock.jiffies
<1>2. h \in Nat /\ h > 0 /\ j \in Nat /\ Second = h
  BY <1>1
<1>3. CASE (j + m) * h < Word
  <2> DEFINE x == j * h
             z == (j + m) * h
  <2> HIDE DEF h, j
  <2>1. x \in Nat /\ z \in Nat /\ x <= z /\ j + m \in Nat
    BY <1>2, TimesGrows
  <2>2. j + m <= z
    <3> DEFINE k == j + m
    <3>1. k \in Nat
      BY <2>1
    <3> HIDE DEF k
    <3>2. k <= k * h
      BY <1>2, <3>1, TimesGrows
    <3> QED BY <3>2 DEF k
  <2>3. z < Word
    BY <1>3
  <2>4. x \div h = j
    BY <1>2, DivExact
  <2>5. z \div h = j + m
    BY <1>2, <2>1, DivExact
  <2> HIDE DEF x, z
  <2>6. x % Word = x /\ z % Word = z /\ (j + m) % Word = j + m
    BY <1>1, <2>1, <2>2, <2>3, ModSmall
  <2>7. Millis(j) = j
    BY <1>2, <2>4, <2>6 DEF Millis, h, x
  <2>8. TargetOf((Millis(j) + m) % Word) = j + m
    BY <1>2, <2>5, <2>6, <2>7 DEF TargetOf, h, z
  <2> QED BY <1>3, <2>8 DEF Due, h, j
<1>4. CASE ~((j + m) * h < Word)
  BY <1>4 DEF Due
<1> QED BY <1>3, <1>4

----------------------------------------------------------------------------
(* The linked queue is a sequence.                                         *)

Linking == [next : Nat, prev : Nat]
Queues == [first : Nat, last : Nat, node : UNION {[D -> Linking] : D \in SUBSET Sleeper}]

\* The nodes of q, followed from the first one, are s.
IsQueue(q, s) ==
  /\ q \in Queues /\ s \in Seq(Sleeper) /\ s # << >> /\ IsInjective(s)
  /\ DOMAIN q.node = Range(s)
  /\ q.first = s[1] /\ q.last = s[Len(s)]
  /\ \A i \in 1..Len(s) : q.node[s[i]].next = IF i = Len(s) THEN Nobody ELSE s[i + 1]

LEMMA IsQueueFacts ==
  ASSUME NEW q, NEW s, IsQueue(q, s)
  PROVE  /\ q = [first |-> q.first, last |-> q.last, node |-> q.node]
         /\ q.node = [u \in Range(s) |-> q.node[u]]
         /\ \A u \in Range(s) : q.node[u] \in Linking
         /\ Len(s) \in Nat /\ Len(s) >= 1 /\ DOMAIN s = 1..Len(s)
         /\ \A i \in 1..Len(s) : s[i] \in Sleeper /\ s[i] \in Range(s) /\ s[i] # Nobody /\ s[i] \in Nat
         /\ \A i, j \in 1..Len(s) : s[i] = s[j] => i = j
         /\ Range(s) \subseteq Sleeper
<1>1. q \in Queues /\ s \in Seq(Sleeper) /\ s # << >> /\ IsInjective(s) /\ DOMAIN q.node = Range(s)
  BY DEF IsQueue
<1>2. PICK D \in SUBSET Sleeper : q.node \in [D -> Linking]
  BY <1>1 DEF Queues
<1>3. D = Range(s)
  BY <1>1, <1>2
<1>4. /\ Len(s) \in Nat /\ Len(s) >= 1 /\ DOMAIN s = 1..Len(s)
      /\ \A i \in 1..Len(s) : s[i] \in Sleeper
  BY <1>1, LenProperties, ElementOfSeq, EmptySeq
<1>5. \A i \in 1..Len(s) : s[i] \in Range(s)
  BY <1>4 DEF Range
<1>6. \A i, j \in 1..Len(s) : s[i] = s[j] => i = j
  BY <1>1, <1>4 DEF IsInjective
<1>7. q = [first |-> q.first, last |-> q.last, node |-> q.node]
  BY <1>1 DEF Queues
<1> QED BY <1>2, <1>3, <1>4, <1>5, <1>6, <1>7, ClockConstants

LEMMA AddTailEmpty ==
  ASSUME NEW v \in Sleeper
  PROVE  IsQueue(AddTail(EmptyQueue, v), <<v>>)
<1>1. PICK e : e = << >>
  OBVIOUS
<1>2. DOMAIN e = {}
  BY <1>1
<1>3. EmptyQueue = [first |-> Nobody, last |-> Nobody, node |-> e]
  BY <1>1 DEF EmptyQueue
<1> DEFINE nodes == [u \in {v} |-> [next |-> Nobody, prev |-> Nobody]]
<1>4. AddTail(EmptyQueue, v) = [first |-> v, last |-> v, node |-> nodes]
  <2>1. EmptyQueue.first = Nobody /\ EmptyQueue.last = Nobody /\ DOMAIN EmptyQueue.node \cup {v} = {v}
    BY <1>2, <1>3
  <2> QED BY <2>1 DEF AddTail, IsEmpty
<1>5. v \in Nat /\ v # Nobody /\ Nobody \in Nat
  BY ClockConstants DEF Nobody
<1>6. nodes \in [{v} -> Linking] /\ nodes[v].next = Nobody /\ DOMAIN nodes = {v}
  BY <1>5 DEF Linking
<1>7. /\ <<v>> \in Seq(Sleeper) /\ Len(<<v>>) = 1 /\ <<v>>[1] = v /\ <<v>> # << >>
      /\ Range(<<v>>) = {v} /\ IsInjective(<<v>>)
  BY QueueOne
<1> HIDE DEF nodes
<1>8. AddTail(EmptyQueue, v) \in Queues
  BY <1>4, <1>5, <1>6 DEF Queues
<1> QED BY <1>4, <1>6, <1>7, <1>8 DEF IsQueue

LEMMA AddTailQueue ==
  ASSUME NEW q, NEW s, IsQueue(q, s), NEW v \in Sleeper, v \notin Range(s)
  PROVE  IsQueue(AddTail(q, v), Append(s, v))
<1> DEFINE t == Append(s, v)
           a == AddTail(q, v)
           n == Len(s)
           D == Range(s) \cup {v}
           nodes == [u \in D |->
                       IF u = v THEN [next |-> Nobody, prev |-> q.last]
                       ELSE IF u = q.last THEN [q.node[u] EXCEPT !.next = v] ELSE q.node[u]]
<1>1. /\ q.node = [u \in Range(s) |-> q.node[u]]
      /\ \A u \in Range(s) : q.node[u] \in Linking
      /\ n \in Nat /\ n >= 1 /\ DOMAIN s = 1..n
      /\ \A i \in 1..n : s[i] \in Sleeper /\ s[i] \in Range(s) /\ s[i] # Nobody /\ s[i] \in Nat
      /\ \A i, j \in 1..n : s[i] = s[j] => i = j
      /\ Range(s) \subseteq Sleeper
  BY IsQueueFacts
<1>2. /\ s \in Seq(Sleeper) /\ IsInjective(s) /\ DOMAIN q.node = Range(s)
      /\ q.first = s[1] /\ q.last = s[n]
      /\ \A i \in 1..n : q.node[s[i]].next = IF i = n THEN Nobody ELSE s[i + 1]
  BY DEF IsQueue
<1>3. v \in Nat /\ v # Nobody /\ Nobody \in Nat
  BY ClockConstants DEF Nobody
<1>4. /\ t \in Seq(Sleeper) /\ t # << >> /\ Range(t) = D /\ IsInjective(t)
      /\ Len(t) = n + 1 /\ (\A i \in 1..n : t[i] = s[i]) /\ t[n + 1] = v
  BY <1>2, QueueAppend, AppendProperties
<1>5. a = [first |-> q.first, last |-> v, node |-> nodes]
  <2>1. q.first # Nobody
    <3>1. 1 \in 1..n
      BY <1>1
    <3> QED BY <1>1, <1>2, <3>1
  <2> QED BY <1>2, <2>1 DEF AddTail, IsEmpty
<1>6. \A u \in Range(s) : [q.node[u] EXCEPT !.next = v] \in Linking
                          /\ [q.node[u] EXCEPT !.next = v].next = v
  BY <1>1, <1>3 DEF Linking
<1>7. q.last \in Nat /\ q.first \in Nat /\ q.last \in Range(s)
  <2>1. 1 \in 1..n /\ n \in 1..n
    BY <1>1
  <2> QED BY <1>1, <1>2, <2>1
<1>8. [next |-> Nobody, prev |-> q.last] \in Linking /\ [next |-> Nobody, prev |-> q.last].next = Nobody
  BY <1>3, <1>7 DEF Linking
<1>9. nodes \in [D -> Linking]
  BY <1>1, <1>6, <1>8
<1>10. \A u \in D : nodes[u].next = IF u = v THEN Nobody ELSE IF u = q.last THEN v ELSE q.node[u].next
  BY <1>1, <1>6, <1>8
<1> HIDE DEF nodes, t, a
<1>11. D \in SUBSET Sleeper /\ D = DOMAIN nodes
  BY <1>1, <1>9
<1>12. a \in Queues
  BY <1>3, <1>5, <1>7, <1>9, <1>11 DEF Queues
<1>13. ASSUME NEW i \in 1..Len(t)
       PROVE  a.node[t[i]].next = IF i = Len(t) THEN Nobody ELSE t[i + 1]
  <2>1. a.node = nodes
    BY <1>5
  <2>2. CASE i = n + 1
    BY <1>4, <1>10, <2>1, <2>2
  <2>3. CASE i # n + 1
    <3>1. i \in 1..n /\ t[i] = s[i] /\ s[i] # v /\ s[i] \in D
      BY <1>1, <1>4, <2>3
    <3>2. CASE i = n
      BY <1>2, <1>4, <1>10, <2>1, <2>3, <3>1, <3>2
    <3>3. CASE i # n
      <4>1. i + 1 \in 1..n /\ n \in 1..n
        <5>1. n \in Nat /\ i \in 1..n
          BY <1>1, <3>1
        <5> HIDE DEF n
        <5> QED BY <3>3, <5>1
      <4>2. s[i] # q.last
        BY <1>1, <1>2, <3>1, <3>3, <4>1
      <4>3. nodes[s[i]].next = s[i + 1]
        BY <1>2, <1>10, <3>1, <3>3, <4>2
      <4> QED BY <1>4, <2>1, <2>3, <3>1, <4>1, <4>3
    <3> QED BY <3>2, <3>3
  <2> QED BY <2>2, <2>3
<1>14. a.first = t[1] /\ a.last = t[Len(t)]
  <2>1. 1 \in 1..n
    BY <1>1
  <2> QED BY <1>2, <1>4, <1>5, <2>1
<1>15. DOMAIN a.node = Range(t)
  BY <1>4, <1>5, <1>11
<1>16. IsQueue(a, t)
  BY <1>4, <1>12, <1>13, <1>14, <1>15 DEF IsQueue
<1> QED BY <1>16 DEF a, t

LEMMA RemoveHeadQueue ==
  ASSUME NEW q, NEW s, IsQueue(q, s)
  PROVE  /\ Len(s) = 1 => RemoveHead(q) = EmptyQueue
         /\ Len(s) > 1 => IsQueue(RemoveHead(q), Tail(s))
<1> DEFINE n == Len(s)
           D == Range(s) \ {s[1]}
<1>1. /\ q = [first |-> q.first, last |-> q.last, node |-> q.node]
      /\ \A u \in Range(s) : q.node[u] \in Linking
      /\ n \in Nat /\ n >= 1 /\ DOMAIN s = 1..n
      /\ \A i \in 1..n : s[i] \in Sleeper /\ s[i] \in Range(s) /\ s[i] # Nobody /\ s[i] \in Nat
      /\ \A i, j \in 1..n : s[i] = s[j] => i = j
      /\ Range(s) \subseteq Sleeper
  BY IsQueueFacts
<1>2. /\ s \in Seq(Sleeper) /\ s # << >> /\ IsInjective(s) /\ DOMAIN q.node = Range(s)
      /\ q.first = s[1] /\ q.last = s[n]
      /\ \A i \in 1..n : q.node[s[i]].next = IF i = n THEN Nobody ELSE s[i + 1]
  BY DEF IsQueue
<1>3. ASSUME n = 1 PROVE RemoveHead(q) = EmptyQueue
  <2>1. q.node[q.first].next = Nobody
    BY <1>1, <1>2, <1>3
  <2> QED BY <2>1 DEF RemoveHead
<1>4. ASSUME n > 1 PROVE IsQueue(RemoveHead(q), Tail(s))
  <2> DEFINE t == Tail(s)
             rest == [u \in D |-> q.node[u]]
             r == RemoveHead(q)
             nodes == [rest EXCEPT ![s[2]].prev = Nobody]
  <2>1. 1 \in 1..n /\ 2 \in 1..n
    BY <1>1, <1>4
  <2>2. q.node[q.first].next = s[2] /\ s[2] # Nobody /\ s[2] # s[1] /\ s[2] \in D
    <3>1. q.node[s[1]].next = s[1 + 1]
      BY <1>2, <1>4, <2>1
    <3>2. s[1] = s[2] => 1 = 2
      BY <1>1, <2>1
    <3> QED BY <1>1, <1>2, <2>1, <3>1, <3>2
  <2>3. r = [q EXCEPT !.first = s[2], !.node = nodes]
    BY <1>2, <2>2 DEF RemoveHead
  <2>4. nodes = [u \in D |-> IF u = s[2] THEN [q.node[u] EXCEPT !.prev = Nobody] ELSE q.node[u]]
    BY <2>2
  <2>5. \A u \in Range(s) : [q.node[u] EXCEPT !.prev = Nobody] \in Linking
                            /\ [q.node[u] EXCEPT !.prev = Nobody].next = q.node[u].next
    BY <1>1 DEF Linking, Nobody
  <2> HIDE DEF nodes
  <2>6. /\ nodes \in [D -> Linking] /\ DOMAIN nodes = D
        /\ \A u \in D : nodes[u].next = q.node[u].next
    BY <1>1, <2>4, <2>5
  <2>7. /\ t \in Seq(Sleeper) /\ Range(t) = D /\ IsInjective(t)
        /\ Len(t) = n - 1 /\ \A i \in 1..(n - 1) : t[i] = s[i + 1]
    <3>1. Head(s) = s[1] /\ t \in Seq(Sleeper) /\ Len(s) = Len(t) + 1
          /\ \A i \in 1..Len(t) : t[i] = s[i + 1]
      BY <1>2, HeadTailProperties
    <3>2. Len(t) = n - 1
      BY <1>1, <3>1, LenProperties
    <3>3. Range(t) = Range(s) \ {Head(s)} /\ IsInjective(t)
      BY <1>2, QueueTail
    <3> QED BY <3>1, <3>2, <3>3
  <2> HIDE DEF t
  <2>8. r = [first |-> s[2], last |-> q.last, node |-> nodes]
    <3>1. q = [first |-> q.first, last |-> q.last, node |-> q.node]
      BY <1>1
    <3> HIDE DEF r
    <3> QED BY <2>3, <3>1
  <2> HIDE DEF r
  <2>9. r \in Queues
    <3>1. s[2] \in Nat /\ q.last \in Nat /\ D \in SUBSET Sleeper
      <4>1. n \in 1..n
        BY <1>1
      <4> QED BY <1>1, <1>2, <2>1, <4>1
    <3> QED BY <2>6, <2>8, <3>1 DEF Queues
  <2>10. ASSUME NEW i \in 1..Len(t)
         PROVE  r.node[t[i]].next = IF i = Len(t) THEN Nobody ELSE t[i + 1]
    <3>1. i + 1 \in 1..n /\ t[i] = s[i + 1] /\ s[i + 1] # s[1] /\ s[i + 1] \in D
      <4>1. i + 1 \in 1..n /\ i + 1 # 1 /\ t[i] = s[i + 1]
        BY <1>1, <2>7
      <4> QED BY <1>1, <2>1, <4>1
    <3>2. r.node[t[i]].next = q.node[s[i + 1]].next
      BY <2>6, <2>8, <3>1
    <3>3. q.node[s[i + 1]].next = IF i + 1 = n THEN Nobody ELSE s[i + 1 + 1]
      BY <1>2, <3>1
    <3>4. i + 1 = n <=> i = Len(t)
      BY <1>1, <2>7
    <3>5. i # Len(t) => t[i + 1] = s[i + 1 + 1]
      BY <1>1, <2>7
    <3> QED BY <3>2, <3>3, <3>4, <3>5
  <2>11. t # << >> /\ r.first = t[1] /\ r.last = t[Len(t)] /\ DOMAIN r.node = Range(t)
    <3>1. 1 \in 1..(n - 1) /\ n - 1 \in 1..(n - 1) /\ n - 1 + 1 = n /\ 1 + 1 = 2
      BY <1>1, <1>4
    <3>2. t[1] = s[2] /\ t[n - 1] = s[n]
      BY <2>7, <3>1
    <3>3. t # << >>
      BY <1>1, <1>4, <2>7, EmptySeq
    <3> QED BY <1>2, <2>6, <2>7, <2>8, <3>2, <3>3
  <2>12. IsQueue(r, t)
    BY <2>7, <2>9, <2>10, <2>11 DEF IsQueue
  <2> QED BY <2>12 DEF r, t
<1> QED BY <1>3, <1>4

\* Min finds the least element.
LEMMA MinNat ==
  ASSUME NEW S \in SUBSET Nat, S # {}
  PROVE  Min(S) \in S /\ \A x \in S : Min(S) <= x
<1>1. PICK x \in S : \A y \in S : ~ (<<y, x>> \in OpToRel(<, Nat))
  BY WFMin, NatLessThanWellFounded, Zenon
<1>2. \A y \in S : ~ (y < x)
  BY <1>1, Zenon DEF OpToRel
<1>3. \A y \in S : x <= y
  BY <1>2
<1> QED BY <1>3 DEF Min

\* Induction, for a property given as the set of numbers that have it.
LEMMA UpTo ==
  ASSUME NEW S \in SUBSET Nat, NEW n \in Nat, 0 \in S,
         \A k \in 0..(n - 1) : k \in S => k + 1 \in S
  PROVE  0..n \subseteq S
<1> DEFINE Bad == 0..n \ S
<1> SUFFICES ASSUME Bad # {} PROVE FALSE
  OBVIOUS
<1>1. Min(Bad) \in Bad /\ \A k \in Bad : Min(Bad) <= k
  BY MinNat
<1>2. PICK m \in Bad : \A k \in Bad : m <= k
  BY <1>1
<1>3. m # 0 /\ m \in 0..n
  BY <1>2
<1>4. m - 1 \notin Bad /\ m - 1 \in 0..(n - 1)
  BY <1>2, <1>3
<1>5. m - 1 \in S
  BY <1>4
<1>6. m - 1 + 1 \in S
  BY <1>4, <1>5
<1> QED BY <1>2, <1>3, <1>6

\* The recursive function in Drained.
AfterRemoving(q) ==
  LET after[k \in 0 .. Cardinality(DOMAIN q.node)] ==
        IF k = 0 THEN q ELSE RemoveHead(after[k - 1])
  IN  after

LEMMA DrainedIs ==
  ASSUME NEW q
  PROVE  Drained(q) =
           [k \in 1 .. Min({j \in 0 .. Cardinality(DOMAIN q.node) : IsEmpty(AfterRemoving(q)[j])})
              |-> AfterRemoving(q)[k - 1].first]
BY DEF Drained, AfterRemoving

\* removeHead can be called n times.
LEMMA Removes ==
  ASSUME NEW q, NEW n \in Nat
  PROVE  \E g : g = [k \in 0..n |-> IF k = 0 THEN q ELSE RemoveHead(g[k - 1])]
<1> DEFINE Good == {m \in Nat : \E g : g = [k \in 0..m |-> IF k = 0 THEN q ELSE RemoveHead(g[k - 1])]}
<1>1. 0 \in Good
  <2> DEFINE g == [k \in 0..0 |-> q]
  <2>1. g = [k \in 0..0 |-> IF k = 0 THEN q ELSE RemoveHead(g[k - 1])]
    OBVIOUS
  <2> QED BY <2>1
<1>2. ASSUME NEW m \in 0..(n - 1), m \in Good PROVE m + 1 \in Good
  <2>1. PICK g : g = [k \in 0..m |-> IF k = 0 THEN q ELSE RemoveHead(g[k - 1])]
    BY <1>2
  <2> DEFINE h == [k \in 0..(m + 1) |-> IF k = m + 1 THEN RemoveHead(g[m]) ELSE g[k]]
  <2>2. ASSUME NEW k \in 0..(m + 1) PROVE h[k] = IF k = 0 THEN q ELSE RemoveHead(h[k - 1])
    <3>1. CASE k = 0
      BY <2>1, <3>1
    <3>2. CASE k # 0
      <4>1. k - 1 \in 0..m /\ k - 1 \in 0..(m + 1) /\ k - 1 # m + 1
        BY <3>2
      <4>2. h[k - 1] = g[k - 1]
        BY <4>1
      <4>3. CASE k = m + 1
        <5>1. h[k] = RemoveHead(g[m]) /\ k - 1 = m
          BY <4>3
        <5> QED BY <3>2, <4>2, <5>1
      <4>4. CASE k # m + 1
        <5>1. h[k] = g[k] /\ k \in 0..m
          BY <4>4
        <5>2. g[k] = RemoveHead(g[k - 1])
          BY <2>1, <3>2, <5>1
        <5> QED BY <3>2, <4>2, <5>1, <5>2
      <4> QED BY <4>3, <4>4
    <3> QED BY <3>1, <3>2
  <2>3. h = [k \in 0..(m + 1) |-> h[k]]
    OBVIOUS
  <2> HIDE DEF h
  <2>4. h = [k \in 0..(m + 1) |-> IF k = 0 THEN q ELSE RemoveHead(h[k - 1])]
    BY <2>2, <2>3
  <2> QED BY <2>4
<1>3. Good \in SUBSET Nat
  OBVIOUS
<1> HIDE DEF Good
<1>4. 0..n \subseteq Good
  BY <1>1, <1>2, <1>3, UpTo
<1>5. n \in Good
  BY <1>4
<1> QED BY <1>5 DEF Good

\* The number of elements of a sequence in which none comes twice.
LEMMA CountOnce ==
  ASSUME NEW s \in Seq(Sleeper), IsInjective(s)
  PROVE  Cardinality(Range(s)) = Len(s)
<1>1. Len(s) \in Nat /\ DOMAIN s = 1..Len(s)
  BY LenProperties
<1>2. \A i, j \in 1..Len(s) : s[i] = s[j] => i = j
  BY <1>1 DEF IsInjective
<1>3. s = [i \in 1..Len(s) |-> s[i]]
  BY <1>1
<1>4. s \in Bijection(1..Len(s), Range(s))
  BY <1>1, <1>2, <1>3 DEF Bijection, Injection, Surjection, Range
<1>5. ExistsBijection(1..Len(s), Range(s))
  BY <1>4 DEF ExistsBijection
<1> QED BY <1>1, <1>5, FS_CountingElements

\* A loop of removeHead gives the sequence back.
LEMMA DrainedQueue ==
  ASSUME NEW q, NEW s, IsQueue(q, s)
  PROVE  Drained(q) = s
<1> DEFINE n == Len(s)
           a == AfterRemoving(q)
           Empty == {k \in 0..n : IsEmpty(a[k])}
<1>1. /\ n \in Nat /\ n >= 1 /\ DOMAIN s = 1..n
      /\ \A i \in 1..n : s[i] # Nobody
      /\ s \in Seq(Sleeper) /\ IsInjective(s) /\ DOMAIN q.node = Range(s)
  <2>1. s \in Seq(Sleeper) /\ IsInjective(s) /\ DOMAIN q.node = Range(s)
    BY DEF IsQueue
  <2>2. n \in Nat /\ n >= 1 /\ DOMAIN s = 1..n /\ \A i \in 1..n : s[i] # Nobody
    BY IsQueueFacts
  <2> QED BY <2>1, <2>2
<1>2. Cardinality(DOMAIN q.node) = n
  BY <1>1, CountOnce
<1>3. a = [k \in 0..n |-> IF k = 0 THEN q ELSE RemoveHead(a[k - 1])]
  <2>1. \E g : g = [k \in 0..n |-> IF k = 0 THEN q ELSE RemoveHead(g[k - 1])]
    <3>1. n \in Nat
      BY <1>1
    <3> HIDE DEF n
    <3> QED BY <3>1, Removes, Zenon
  <2> QED BY <1>2, <2>1 DEF AfterRemoving
<1> HIDE DEF a
<1>4. a[0] = q /\ \A k \in 1..n : a[k] = RemoveHead(a[k - 1])
  BY <1>1, <1>3
<1> DEFINE Good == {k \in Nat : k < n => \E t : IsQueue(a[k], t) /\ Len(t) = n - k
                                               /\ \A i \in 1..(n - k) : t[i] = s[k + i]}
<1>5. 0..(n - 1) \subseteq Good
  <2>1. 0 \in Good
    <3>1. IsQueue(a[0], s) /\ Len(s) = n - 0 /\ \A i \in 1..(n - 0) : s[i] = s[0 + i]
      BY <1>1, <1>4
    <3> QED BY <3>1
  <2>2. ASSUME NEW k \in 0..(n - 1 - 1), k \in Good PROVE k + 1 \in Good
    <3>1. k \in Nat /\ k < n /\ k + 1 < n /\ k + 1 \in 1..n /\ k + 1 - 1 = k /\ k + 1 \in Nat
      BY <1>1
    <3>2. PICK t : IsQueue(a[k], t) /\ Len(t) = n - k /\ \A i \in 1..(n - k) : t[i] = s[k + i]
      BY <2>2, <3>1
    <3>3. IsQueue(a[k + 1], Tail(t))
      <4>1. Len(t) > 1
        BY <1>1, <3>1, <3>2
      <4>2. a[k + 1] = RemoveHead(a[k])
        BY <1>4, <3>1
      <4> QED BY <3>2, <4>1, <4>2, RemoveHeadQueue
    <3>4. /\ Len(t) = Len(Tail(t)) + 1 /\ Len(Tail(t)) \in Nat
          /\ \A i \in 1..Len(Tail(t)) : Tail(t)[i] = t[i + 1]
      <4>1. t \in Seq(Sleeper) /\ t # << >>
        BY <3>2 DEF IsQueue
      <4>2. /\ Tail(t) \in Seq(Sleeper) /\ Len(t) = Len(Tail(t)) + 1
            /\ \A i \in 1..Len(Tail(t)) : Tail(t)[i] = t[i + 1]
        BY <4>1, HeadTailProperties
      <4> QED BY <4>2, LenProperties
    <3>5. Len(Tail(t)) = n - (k + 1)
      BY <1>1, <3>1, <3>2, <3>4
    <3>6. ASSUME NEW i \in 1..(n - (k + 1)) PROVE Tail(t)[i] = s[(k + 1) + i]
      <4>1. i + 1 \in 1..(n - k) /\ k + (i + 1) = (k + 1) + i
        BY <1>1, <3>1
      <4>2. Tail(t)[i] = t[i + 1]
        BY <3>4, <3>5
      <4> QED BY <3>2, <4>1, <4>2
    <3> QED BY <3>1, <3>3, <3>5, <3>6
  <2>3. Good \in SUBSET Nat /\ n - 1 \in Nat
    BY <1>1
  <2> HIDE DEF Good
  <2> QED BY <2>1, <2>2, <2>3, UpTo
<1>6. ASSUME NEW k \in 0..(n - 1) PROVE a[k].first = s[k + 1]
  <2>0. k \in Good
    BY <1>5
  <2>1. k \in Nat /\ k < n /\ k \in Good
    <3>1. n \in Nat /\ k \in 0..(n - 1)
      BY <1>1
    <3> HIDE DEF n, Good
    <3> QED BY <2>0, <3>1
  <2>2. PICK t : IsQueue(a[k], t) /\ Len(t) = n - k /\ \A i \in 1..(n - k) : t[i] = s[k + i]
    BY <2>1
  <2>3. 1 \in 1..(n - k)
    BY <1>1, <2>1
  <2> QED BY <2>2, <2>3 DEF IsQueue
<1>7. IsEmpty(a[n])
  <2>1. n - 1 \in Nat /\ n - 1 < n /\ n - 1 \in 0..(n - 1) /\ n \in 1..n
    BY <1>1
  <2>2. n - 1 \in Good
    <3> HIDE DEF Good
    <3> QED BY <1>5, <2>1
  <2>3. PICK t : IsQueue(a[n - 1], t) /\ Len(t) = n - (n - 1)
    BY <2>1, <2>2
  <2>4. Len(t) = 1
    BY <1>1, <2>3
  <2>5. a[n] = EmptyQueue
    BY <1>4, <2>1, <2>3, <2>4, RemoveHeadQueue
  <2> QED BY <2>5 DEF IsEmpty, EmptyQueue
<1> HIDE DEF Good
<1>8. ASSUME NEW k \in 0..(n - 1) PROVE ~IsEmpty(a[k])
  <2>1. k + 1 \in 1..n
    BY <1>1
  <2> QED BY <1>1, <1>6, <2>1 DEF IsEmpty
<1>9. Min(Empty) = n
  <2>1. Empty \in SUBSET Nat /\ n \in Empty
    BY <1>1, <1>7
  <2>2. Min(Empty) \in Empty
    BY <2>1, MinNat
  <2>3. ASSUME NEW k \in Empty PROVE k = n
    <3>1. k \in 0..n /\ IsEmpty(a[k])
      OBVIOUS
    <3>2. k \notin 0..(n - 1)
      BY <1>8, <3>1
    <3>3. n \in Nat
      BY <1>1
    <3> HIDE DEF n, Empty
    <3> QED BY <3>1, <3>2, <3>3
  <2> QED BY <2>2, <2>3
<1>10. Drained(q) = [k \in 1..n |-> a[k - 1].first]
  <2>1. Drained(q) = [k \in 1..Min(Empty) |-> a[k - 1].first]
    BY <1>2, DrainedIs DEF a
  <2> HIDE DEF Empty
  <2> QED BY <1>9, <2>1
<1>11. ASSUME NEW k \in 1..n PROVE a[k - 1].first = s[k]
  <2>1. k - 1 \in 0..(n - 1) /\ k - 1 + 1 = k
    BY <1>1
  <2> QED BY <1>6, <2>1
<1>12. s = [k \in 1..n |-> s[k]]
  BY <1>1
<1> QED BY <1>10, <1>11, <1>12

----------------------------------------------------------------------------
(* The list of timers.                                                     *)

Timer == [target : Jiffy, waiting : Queues]

\* The timers are ordered, all of them to come, and hold exactly those who
\* sleep.
Pending(timers, slept, now) ==
  /\ timers \in Seq(Timer)
  /\ \A i \in 1..Len(timers) : /\ timers[i].target > now
                               /\ IsQueue(timers[i].waiting, slept[timers[i].target])
  /\ \A i, j \in 1..Len(timers) : i < j => timers[i].target < timers[j].target
  /\ \A d \in Jiffy : slept[d] # << >> => \E i \in 1..Len(timers) : timers[i].target = d

\* Whoever goes to sleep is put with those who sleep until the same jiffy, as
\* the last of them, or between those who are woken before and after.
LEMMA JoinFacts ==
  ASSUME NEW timers, NEW slept \in [Jiffy -> Seq(Sleeper)], NEW now \in Nat,
         Pending(timers, slept, now), NEW target \in Jiffy, target > now,
         NEW p \in Sleeper, p \notin Range(slept[target])
  PROVE  Pending(Join(timers, target, p), [slept EXCEPT ![target] = Append(@, p)], now)
<1> DEFINE n == Len(timers)
           From == {i \in 1 .. n + 1 : i \in DOMAIN timers => timers[i].target >= target}
           k == Min(From)
           new == [target |-> target, waiting |-> AddTail(EmptyQueue, p)]
           later == [slept EXCEPT ![target] = Append(@, p)]
           joined == Join(timers, target, p)
<1>1. /\ timers \in Seq(Timer) /\ n \in Nat /\ DOMAIN timers = 1..n
      /\ \A i \in 1..n : timers[i] \in Timer
  BY LenProperties, ElementOfSeq DEF Pending
<1>2. /\ \A i \in 1..n : timers[i].target > now /\ IsQueue(timers[i].waiting, slept[timers[i].target])
      /\ \A i, j \in 1..n : i < j => timers[i].target < timers[j].target
      /\ \A d \in Jiffy : slept[d] # << >> => \E i \in 1..n : timers[i].target = d
  BY DEF Pending
<1>3. \A i \in 1..n : timers[i].target \in Jiffy /\ timers[i].target \in Nat
                      /\ timers[i] = [target |-> timers[i].target, waiting |-> timers[i].waiting]
  <2>1. \A j \in Jiffy : j \in Nat
    BY ClockConstants DEF Jiffy
  <2>2. \A u \in Timer : u.target \in Jiffy /\ u = [target |-> u.target, waiting |-> u.waiting]
    BY DEF Timer
  <2> QED BY <1>1, <2>1, <2>2
<1>4. target \in Nat
  BY ClockConstants DEF Jiffy
<1>5. k \in 1..(n + 1) /\ (k \in 1..n => timers[k].target >= target)
      /\ \A i \in 1..n : i < k => timers[i].target < target
  <2>1. From \in SUBSET Nat /\ n + 1 \in From
    BY <1>1
  <2>2. k \in From /\ \A i \in From : k <= i
    BY <2>1, MinNat
  <2> HIDE DEF k
  <2>3. ASSUME NEW i \in 1..n, i < k PROVE timers[i].target < target
    <3>1. i \notin From
      BY <1>1, <2>1, <2>2, <2>3
    <3>2. i \in 1..(n + 1)
      BY <1>1
    <3> QED BY <1>1, <1>3, <1>4, <3>1, <3>2
  <2> QED BY <1>1, <2>2, <2>3
<1>6. joined = IF k \in DOMAIN timers /\ timers[k].target = target
               THEN [timers EXCEPT ![k].waiting = AddTail(@, p)]
               ELSE (SubSeq(timers, 1, k - 1) \o <<new>>) \o SubSeq(timers, k, Len(timers))
  BY DEF Join
<1>7. /\ later \in [Jiffy -> Seq(Sleeper)] /\ later[target] = Append(slept[target], p)
      /\ \A d \in Jiffy : d # target => later[d] = slept[d]
  BY QueueAppend
<1>8. later[target] # << >>
  BY <1>7, QueueAppend
<1> HIDE DEF k, joined, later, From
<1>9. CASE k \in DOMAIN timers /\ timers[k].target = target
  <2>1. k \in 1..n /\ IsQueue(timers[k].waiting, slept[target])
    BY <1>1, <1>2, <1>9
  <2> DEFINE w == AddTail(timers[k].waiting, p)
  <2>2. IsQueue(w, later[target])
    BY <1>7, <2>1, AddTailQueue
  <2>3. w \in Queues
    BY <2>2 DEF IsQueue
  <2>4. joined = [timers EXCEPT ![k] = [target |-> target, waiting |-> w]]
    <3>1. joined = [timers EXCEPT ![k].waiting = AddTail(@, p)]
      BY <1>6, <1>9
    <3>2. joined = [timers EXCEPT ![k].waiting = w]
      BY <1>9, <3>1
    <3> HIDE DEF w
    <3>3. [timers[k] EXCEPT !.waiting = w] = [target |-> target, waiting |-> w]
      <4>1. PICK v : v = timers[k].waiting
        OBVIOUS
      <4>2. timers[k] = [target |-> target, waiting |-> v]
        BY <1>3, <1>9, <2>1, <4>1
      <4> QED BY <4>2
    <3> QED BY <3>2, <3>3
  <2> HIDE DEF w
  <2>5. [target |-> target, waiting |-> w] \in Timer
    BY <2>3 DEF Timer
  <2>6. /\ joined \in Seq(Timer) /\ Len(joined) = n
        /\ \A i \in 1..n : joined[i] = IF i = k THEN [target |-> target, waiting |-> w] ELSE timers[i]
    BY <1>1, <2>1, <2>4, <2>5
  <2>7. ASSUME NEW i \in 1..n PROVE joined[i].target = timers[i].target
    <3>1. joined[i] = IF i = k THEN [target |-> target, waiting |-> w] ELSE timers[i]
      BY <2>6
    <3> QED BY <1>9, <3>1
  <2>8. ASSUME NEW i \in 1..n
        PROVE  joined[i].target > now /\ IsQueue(joined[i].waiting, later[joined[i].target])
    <3>1. CASE i = k
      BY <2>2, <2>6, <3>1
    <3>2. CASE i # k
      <4>1. timers[i].target # target
        <5>1. i < k \/ k < i
          BY <1>1, <2>1, <3>2
        <5> QED BY <1>2, <1>3, <1>4, <1>9, <2>1, <5>1
      <4>2. later[timers[i].target] = slept[timers[i].target]
        BY <1>3, <1>7, <4>1
      <4> QED BY <1>2, <2>6, <3>2, <4>2
    <3> QED BY <3>1, <3>2
  <2>9. \A i, j \in 1..n : i < j => joined[i].target < joined[j].target
    BY <1>2, <2>7
  <2>10. ASSUME NEW d \in Jiffy, later[d] # << >> PROVE \E i \in 1..n : joined[i].target = d
    <3>1. CASE d = target
      BY <1>9, <2>1, <2>7, <3>1
    <3>2. CASE d # target
      BY <1>2, <1>7, <2>7, <2>10, <3>2
    <3> QED BY <3>1, <3>2
  <2> QED BY <2>6, <2>8, <2>9, <2>10 DEF Pending, joined, later
<1>10. CASE ~(k \in DOMAIN timers /\ timers[k].target = target)
  <2>1. k - 1 \in 0..n /\ k - 1 + 1 = k
    BY <1>1, <1>5
  <2>2. joined = Inserted(timers, k - 1, new)
    BY <1>6, <1>10, <2>1 DEF Inserted
  <2>3. IsQueue(AddTail(EmptyQueue, p), <<p>>)
    BY AddTailEmpty
  <2>4. new \in Timer /\ new.target = target /\ new.waiting = AddTail(EmptyQueue, p)
    BY <2>3 DEF Timer, IsQueue
  <2> HIDE DEF new
  <2>5. /\ joined \in Seq(Timer) /\ Len(joined) = n + 1
        /\ \A i \in 1..(n + 1) :
             joined[i] = IF i <= k - 1 THEN timers[i] ELSE IF i = k - 1 + 1 THEN new ELSE timers[i - 1]
    <3>1. PICK m : m = k - 1
      OBVIOUS
    <3>2. m \in 0..Len(timers) /\ timers \in Seq(Timer) /\ new \in Timer
      BY <1>1, <2>1, <2>4, <3>1
    <3>3. IsInsertion(Timer, timers, m, new, Inserted(timers, m, new))
      BY <3>2, Insertion, Zenon
    <3>4. joined = Inserted(timers, m, new)
      BY <2>2, <3>1
    <3> HIDE DEF joined
    <3> QED BY <3>1, <3>3, <3>4 DEF IsInsertion
  <2>6. ASSUME NEW i \in 1..(n + 1)
        PROVE  /\ i < k => i \in 1..n /\ joined[i] = timers[i]
               /\ i = k => joined[i] = new
               /\ i > k => i - 1 \in 1..n /\ k <= i - 1 /\ joined[i] = timers[i - 1]
    <3>1. joined[i] = IF i <= k - 1 THEN timers[i] ELSE IF i = k - 1 + 1 THEN new ELSE timers[i - 1]
      BY <2>5
    <3>2. i \in Nat /\ k \in Nat /\ k >= 1 /\ k <= n + 1 /\ n \in Nat
      BY <1>1, <1>5
    <3> HIDE DEF n
    <3> QED BY <3>1, <3>2
  <2>7. ASSUME NEW i \in 1..n, k <= i PROVE timers[i].target > target
    <3>1. k \in 1..n /\ timers[k].target > target
      <4>1. k \in 1..n
        <5>1. k \in 1..(n + 1) /\ n \in Nat /\ i \in 1..n
          BY <1>1, <1>5
        <5> HIDE DEF n
        <5> QED BY ONLY <2>7, <5>1
      <4> QED BY <1>1, <1>3, <1>4, <1>5, <1>10, <4>1
    <3>2. CASE i = k
      BY <3>1, <3>2
    <3>3. CASE i # k
      <4>1. k < i
        BY <1>1, <2>7, <3>1, <3>3
      <4>2. timers[k].target < timers[i].target /\ timers[k].target \in Nat
            /\ timers[i].target \in Nat
        BY <1>2, <1>3, <3>1, <4>1
      <4> QED BY <1>4, <3>1, <4>2
    <3> QED BY <3>2, <3>3
  <2>8. slept[target] = << >>
    <3> SUFFICES ASSUME slept[target] # << >> PROVE FALSE
      OBVIOUS
    <3>1. PICK i \in 1..n : timers[i].target = target
      BY <1>2
    <3>2. i < k \/ k <= i
      BY <1>1, <1>5
    <3> QED BY <1>4, <1>5, <2>7, <3>1, <3>2
  <2>9. later[target] = <<p>>
    BY <1>7, <2>8
  <2>10. ASSUME NEW i \in 1..(n + 1)
         PROVE  /\ joined[i].target > now
                /\ IsQueue(joined[i].waiting, later[joined[i].target])
    <3>1. CASE i = k
      BY <2>3, <2>4, <2>6, <2>9, <3>1
    <3>2. CASE i < k
      <4>1. i \in 1..n /\ joined[i] = timers[i] /\ timers[i].target < target
        BY <1>5, <2>6, <3>2
      <4>2. timers[i].target # target /\ timers[i].target \in Jiffy
        <5>1. timers[i].target \in Nat /\ timers[i].target \in Jiffy
          BY <1>3, <4>1
        <5> QED BY ONLY <1>4, <4>1, <5>1
      <4>3. later[timers[i].target] = slept[timers[i].target]
        BY <1>7, <4>2
      <4> QED BY <1>2, <4>1, <4>3
    <3>3. CASE i > k
      <4>1. i - 1 \in 1..n /\ joined[i] = timers[i - 1] /\ timers[i - 1].target > target
        BY <2>6, <2>7, <3>3
      <4>2. timers[i - 1].target # target /\ timers[i - 1].target \in Jiffy
        <5>1. timers[i - 1].target \in Nat /\ timers[i - 1].target \in Jiffy
          BY <1>3, <4>1
        <5> QED BY ONLY <1>4, <4>1, <5>1
      <4>3. later[timers[i - 1].target] = slept[timers[i - 1].target]
        BY <1>7, <4>2
      <4> QED BY <1>2, <4>1, <4>3
    <3> QED BY <1>1, <1>5, <3>1, <3>2, <3>3
  <2>11. ASSUME NEW i \in 1..(n + 1), NEW j \in 1..(n + 1), i < j
         PROVE  joined[i].target < joined[j].target
    <3>1. CASE j < k
      <4>1. i < k
        BY <1>1, <1>5, <2>11, <3>1
      <4> QED BY <1>2, <2>6, <2>11, <3>1, <4>1
    <3>2. CASE j = k
      BY <1>1, <1>5, <2>4, <2>6, <2>11, <3>2
    <3>3. CASE j > k /\ i = k
      BY <1>3, <1>4, <2>4, <2>6, <2>7, <3>3
    <3>4. CASE j > k /\ i > k
      <4>1. i - 1 \in 1..n /\ j - 1 \in 1..n /\ i - 1 < j - 1
        BY <1>1, <2>6, <2>11, <3>4
      <4> QED BY <1>2, <2>6, <3>4, <4>1
    <3>5. CASE j > k /\ i < k
      <4>1. /\ i \in 1..n /\ joined[i] = timers[i] /\ timers[i].target < target
            /\ j - 1 \in 1..n /\ joined[j] = timers[j - 1] /\ timers[j - 1].target > target
        BY <1>5, <2>6, <2>7, <3>5
      <4>2. timers[i].target \in Nat /\ timers[j - 1].target \in Nat
        BY <1>3, <4>1
      <4> QED BY <1>4, <4>1, <4>2
    <3> QED BY <1>1, <1>5, <3>1, <3>2, <3>3, <3>4, <3>5
  <2>12. ASSUME NEW d \in Jiffy, later[d] # << >> PROVE \E i \in 1..(n + 1) : joined[i].target = d
    <3>1. CASE d = target
      BY <1>5, <2>4, <2>6, <3>1
    <3>2. CASE d # target
      <4>1. PICK i \in 1..n : timers[i].target = d
        BY <1>2, <1>7, <2>12, <3>2
      <4>2. CASE i < k
        <5>1. i \in 1..(n + 1)
          BY <1>1
        <5> QED BY <2>6, <4>1, <4>2, <5>1
      <4>3. CASE ~(i < k)
        <5>1. i + 1 \in 1..(n + 1) /\ i + 1 > k /\ (i + 1) - 1 = i
          BY <1>1, <1>5, <4>3
        <5>2. joined[i + 1] = timers[i]
          BY <2>6, <5>1
        <5> QED BY <4>1, <5>1, <5>2
      <4> QED BY <4>2, <4>3
    <3> QED BY <3>1, <3>2
  <2> QED BY <2>5, <2>10, <2>11, <2>12 DEF Pending, joined, later
<1> QED BY <1>9, <1>10

----------------------------------------------------------------------------
(* The clock.                                                              *)

Asked == [who : Sleeper, due : Jiffy, until : Jiffy]
Clocks == [jiffies : Jiffy, timers : Seq(Timer), asked : SUBSET Asked,
           slept : [Jiffy -> Seq(Sleeper)], woken : Seq(Sleeper)]

\* The timers hold those who sleep; who is about to sleep does not sleep yet,
\* and will be put where the property expects it.
ClockInv ==
  /\ clock \in Clocks
  /\ Pending(clock.timers, clock.slept, clock.jiffies)
  /\ \A a \in clock.asked : /\ a.due = TargetOf(a.until)
                            /\ \A d \in Jiffy : a.who \notin Range(clock.slept[d])
  /\ \A a, b \in clock.asked : a.who = b.who => a = b

LEMMA ClockFields ==
  ASSUME ClockInv
  PROVE  /\ clock.jiffies \in Jiffy /\ clock.jiffies \in Nat /\ clock.jiffies < Word
         /\ clock.timers \in Seq(Timer) /\ clock.asked \in SUBSET Asked
         /\ clock.slept \in [Jiffy -> Seq(Sleeper)] /\ clock.woken \in Seq(Sleeper)
         /\ clock = [jiffies |-> clock.jiffies, timers |-> clock.timers, asked |-> clock.asked,
                     slept |-> clock.slept, woken |-> clock.woken]
<1>1. clock \in Clocks
  BY DEF ClockInv
<1> QED BY <1>1, ClockConstants DEF Clocks, Jiffy

LEMMA ClockInit == Init => ClockInv
<1> SUFFICES ASSUME Init PROVE ClockInv
  OBVIOUS
<1>1. PICK e : e = << >>
  OBVIOUS
<1>2. \A S : e \in Seq(S)
  BY <1>1, EmptySeq
<1>3. clock = [jiffies |-> 0, timers |-> e, asked |-> {}, slept |-> [j \in Jiffy |-> e], woken |-> e]
  BY <1>1 DEF Init, NothingTyped, NoClock
<1>4. 0 \in Jiffy /\ [j \in Jiffy |-> e] \in [Jiffy -> Seq(Sleeper)]
  BY <1>2, ClockConstants DEF Jiffy
<1>5. clock \in Clocks
  BY <1>2, <1>3, <1>4 DEF Clocks
<1>6. Len(e) = 0
  BY <1>1
<1>7. Pending(clock.timers, clock.slept, clock.jiffies)
  <2>1. 1..Len(e) = {}
    BY <1>6
  <2>2. \A d \in Jiffy : clock.slept[d] = << >>
    BY <1>1, <1>3
  <2> QED BY <1>2, <1>3, <2>1, <2>2 DEF Pending
<1> QED BY <1>3, <1>5, <1>7 DEF ClockInv

LEMMA SleepForStep ==
  ASSUME ClockInv, NEW p \in Sleeper, NEW m \in Nat, SleepFor(p, m)
  PROVE  ClockInv' /\ clock'.jiffies = clock.jiffies
<1> DEFINE until == (Millis(clock.jiffies) + m) % Word
           a == [who |-> p, due |-> Due(m), until |-> until]
<1>1. /\ \A j \in Jiffy : p \notin Range(clock.slept[j])
      /\ \A b \in clock.asked : b.who # p
      /\ clock' = [clock EXCEPT !.asked = @ \union {a}]
  BY DEF SleepFor
<1>2. until \in Jiffy
  <2>1. Millis(clock.jiffies) + m \in Nat
    <3>1. Millis(clock.jiffies) \in Nat
      BY ClockFields, MillisNat
    <3> QED BY <3>1
  <2> QED BY <2>1, ClockConstants, ModRange DEF Jiffy
<1>3. Due(m) = TargetOf(until)
  BY ClockFields, DueIsTarget
<1>4. until \in Nat
  BY <1>2, ClockConstants DEF Jiffy
<1>5. Due(m) \in Jiffy
  BY <1>3, <1>4, TargetInWord
<1> HIDE DEF until
<1>6. a \in Asked /\ a.who = p /\ a.due = TargetOf(a.until)
  BY <1>2, <1>3, <1>5 DEF Asked
<1> HIDE DEF a
<1>7. /\ clock'.jiffies = clock.jiffies /\ clock'.timers = clock.timers
      /\ clock'.slept = clock.slept /\ clock'.asked = clock.asked \cup {a}
      /\ clock' \in Clocks
  <2>1. /\ clock' = [jiffies |-> clock.jiffies, timers |-> clock.timers,
                     asked |-> clock.asked \cup {a}, slept |-> clock.slept, woken |-> clock.woken]
        /\ clock.asked \cup {a} \in SUBSET Asked
    BY <1>1, <1>6, ClockFields
  <2> QED BY <2>1, ClockFields DEF Clocks
<1>8. Pending(clock'.timers, clock'.slept, clock'.jiffies)
  BY <1>7 DEF ClockInv
<1> QED BY <1>1, <1>6, <1>7, <1>8 DEF ClockInv

LEMMA SleepUntilStep ==
  ASSUME ClockInv, NEW a \in clock.asked, SleepUntil(a)
  PROVE  ClockInv' /\ clock'.jiffies = clock.jiffies
<1> DEFINE p == a.who
           t == a.due
           rest == clock.asked \ {a}
<1>1. /\ a \in Asked /\ p \in Sleeper /\ t \in Jiffy /\ t = TargetOf(a.until)
      /\ \A d \in Jiffy : p \notin Range(clock.slept[d])
  <2>1. a \in Asked
    BY ClockFields
  <2> QED BY <2>1 DEF ClockInv, Asked
<1>2. clock' = [clock EXCEPT
            !.asked = @ \ {a},
            !.timers = IF t > clock.jiffies THEN Join(@, t, p) ELSE @,
            !.slept[t] = IF t > clock.jiffies THEN Append(@, p) ELSE @]
  BY <1>1 DEF SleepUntil
<1>3. \A b \in rest : b \in clock.asked /\ b.who # p
  BY DEF ClockInv
<1> HIDE DEF p, t, rest
<1>4. CASE t > clock.jiffies
  <2> DEFINE timers == Join(clock.timers, t, p)
             slept == [clock.slept EXCEPT ![t] = Append(@, p)]
  <2>1. Pending(timers, slept, clock.jiffies)
    BY <1>1, <1>4, ClockFields, JoinFacts DEF ClockInv
  <2>2. clock' = [clock EXCEPT !.asked = rest, !.timers = timers, !.slept = slept]
    BY <1>2, <1>4 DEF rest
  <2>3. /\ slept \in [Jiffy -> Seq(Sleeper)] /\ slept[t] = Append(clock.slept[t], p)
        /\ \A d \in Jiffy : d # t => slept[d] = clock.slept[d]
    BY <1>1, ClockFields, QueueAppend
  <2>4. Range(slept[t]) = Range(clock.slept[t]) \cup {p}
    BY <1>1, <2>3, ClockFields, QueueAppend
  <2> HIDE DEF timers, slept
  <2>5. timers \in Seq(Timer) /\ rest \in SUBSET Asked
    BY <2>1, ClockFields DEF Pending, rest
  <2>6. clock' = [jiffies |-> clock.jiffies, timers |-> timers, asked |-> rest,
                  slept |-> slept, woken |-> clock.woken]
    BY <2>2, ClockFields
  <2>7. clock' \in Clocks
    BY <2>3, <2>5, <2>6, ClockFields DEF Clocks
  <2>8. ASSUME NEW b \in rest
        PROVE  b.due = TargetOf(b.until) /\ \A d \in Jiffy : b.who \notin Range(slept[d])
    <3>1. b \in clock.asked /\ b.who # p
      BY <1>3
    <3>2. b.due = TargetOf(b.until) /\ \A d \in Jiffy : b.who \notin Range(clock.slept[d])
      BY <3>1 DEF ClockInv
    <3> QED BY <1>1, <2>3, <2>4, <3>1, <3>2
  <2>9. \A b, c \in rest : b.who = c.who => b = c
    BY <1>3 DEF ClockInv
  <2> QED BY <2>1, <2>6, <2>7, <2>8, <2>9 DEF ClockInv
<1>5. CASE ~(t > clock.jiffies)
  <2>1. clock' = [clock EXCEPT !.asked = rest]
    <3>1. [clock.slept EXCEPT ![t] = @] = clock.slept
      BY <1>1, ClockFields
    <3>2. clock' = [clock EXCEPT !.asked = rest, !.timers = @, !.slept = [clock.slept EXCEPT ![t] = @]]
      BY <1>2, <1>5 DEF rest
    <3> QED BY <3>1, <3>2, ClockFields
  <2>2. rest \in SUBSET Asked
    BY ClockFields DEF rest
  <2>3. clock' = [jiffies |-> clock.jiffies, timers |-> clock.timers, asked |-> rest,
                  slept |-> clock.slept, woken |-> clock.woken]
    BY <2>1, ClockFields
  <2>4. clock' \in Clocks
    BY <2>2, <2>3, ClockFields DEF Clocks
  <2> QED BY <1>3, <2>3, <2>4 DEF ClockInv
<1> QED BY <1>4, <1>5

\* A tick wakes those who are due, and nobody else.
LEMMA TickStep ==
  ASSUME ClockInv, Tick
  PROVE  ClockInv' /\ clock'.woken = clock.slept[clock'.jiffies]
<1> DEFINE j == clock.jiffies
           now == (j + 1) % Word
           timers == clock.timers
           slept == clock.slept
           n == Len(timers)
           rings == timers # << >> /\ Head(timers).target = now
           later == IF rings THEN Tail(timers) ELSE timers
           awake == [slept EXCEPT ![now] = << >>]
           woken == IF rings THEN Drained(Head(timers).waiting) ELSE << >>
<1>1. clock' = [jiffies |-> now, timers |-> later, asked |-> clock.asked,
                slept |-> awake, woken |-> woken]
  BY DEF Tick
<1>2. /\ j \in Nat /\ j < Word /\ Word \in Nat /\ Word > 0
      /\ timers \in Seq(Timer) /\ slept \in [Jiffy -> Seq(Sleeper)]
  BY ClockFields, ClockConstants
<1>3. /\ \A i \in 1..n : timers[i].target > j /\ IsQueue(timers[i].waiting, slept[timers[i].target])
      /\ \A i, k \in 1..n : i < k => timers[i].target < timers[k].target
      /\ \A d \in Jiffy : slept[d] # << >> => \E i \in 1..n : timers[i].target = d
  BY DEF ClockInv, Pending
<1>4. n \in Nat /\ \A i \in 1..n : timers[i] \in Timer
  BY <1>2, LenProperties, ElementOfSeq
<1>5. \A i \in 1..n : timers[i].target \in Jiffy /\ timers[i].target \in Nat /\ timers[i].target < Word
  <2>1. \A d \in Jiffy : d \in Nat /\ d < Word
    BY <1>2 DEF Jiffy
  <2>2. \A u \in Timer : u.target \in Jiffy
    BY DEF Timer
  <2> QED BY <1>4, <2>1, <2>2
<1>6. now \in Jiffy /\ now \in Nat
  <2>1. j + 1 \in Nat
    BY <1>2
  <2> QED BY <1>2, <2>1, ModRange DEF Jiffy
<1>7. \/ now = j + 1
      \/ j = Word - 1
  <2>1. CASE j + 1 < Word
    BY <1>2, <2>1, ModSmall
  <2>2. CASE ~(j + 1 < Word)
    BY <1>2, <2>2
  <2> QED BY <2>1, <2>2
<1>8. timers # << >> => 1 \in 1..n /\ Head(timers) = timers[1]
  BY <1>2, <1>4, HeadTailProperties, EmptySeq
<1> HIDE DEF now, n
<1>9. /\ awake \in [Jiffy -> Seq(Sleeper)] /\ awake[now] = << >>
      /\ \A d \in Jiffy : d # now => awake[d] = slept[d]
  BY <1>2, <1>6, EmptySeq
<1>10. Pending(later, awake, now) /\ woken = slept[now]
  <2>1. CASE rings
    <3>1. 1 \in 1..n /\ Head(timers) = timers[1] /\ timers[1].target = now
      BY <1>8, <2>1
    <3>2. woken = slept[now]
      <4>1. IsQueue(timers[1].waiting, slept[now])
        BY <1>3, <3>1
      <4> QED BY <2>1, <3>1, <4>1, DrainedQueue
    <3> DEFINE tl == Tail(timers)
    <3>3. /\ tl \in Seq(Timer) /\ n = Len(tl) + 1 /\ Len(tl) \in Nat
          /\ \A i \in 1..Len(tl) : tl[i] = timers[i + 1]
      BY <1>2, <2>1, HeadTailProperties, LenProperties DEF n
    <3> HIDE DEF tl, awake
    <3>4. ASSUME NEW i \in 1..Len(tl)
          PROVE  /\ i + 1 \in 1..n /\ tl[i].target = timers[i + 1].target
                 /\ tl[i].target > now /\ IsQueue(tl[i].waiting, awake[tl[i].target])
      <4>1. i + 1 \in 1..n /\ 1 < i + 1 /\ tl[i] = timers[i + 1]
        BY <3>3
      <4>2. timers[1].target < timers[i + 1].target
        BY <1>3, <3>1, <4>1
      <4>3. timers[i + 1].target \in Nat /\ timers[i + 1].target \in Jiffy
        BY <1>5, <4>1
      <4>4. timers[i + 1].target > now /\ timers[i + 1].target # now
        BY <1>6, <3>1, <4>2, <4>3
      <4>5. awake[timers[i + 1].target] = slept[timers[i + 1].target]
        BY <1>9, <4>3, <4>4
      <4> QED BY <1>3, <4>1, <4>4, <4>5
    <3>5. ASSUME NEW i \in 1..Len(tl), NEW k \in 1..Len(tl), i < k
          PROVE  tl[i].target < tl[k].target
      <4>1. i + 1 \in 1..n /\ k + 1 \in 1..n /\ i + 1 < k + 1
        BY <3>3, <3>5
      <4>2. timers[i + 1].target < timers[k + 1].target
        BY <1>3, <4>1
      <4> QED BY <3>4, <4>2
    <3>6. ASSUME NEW d \in Jiffy, awake[d] # << >>
          PROVE  \E i \in 1..Len(tl) : tl[i].target = d
      <4>1. d # now /\ slept[d] # << >>
        BY <1>9, <3>6
      <4>2. PICK i \in 1..n : timers[i].target = d
        BY <1>3, <4>1
      <4>3. i # 1
        BY <3>1, <4>1, <4>2
      <4>4. i - 1 \in 1..Len(tl) /\ (i - 1) + 1 = i
        BY <3>3, <4>3
      <4> QED BY <3>3, <4>2, <4>4
    <3>7. Pending(tl, awake, now)
      BY <3>3, <3>4, <3>5, <3>6 DEF Pending
    <3>8. later = tl
      BY <2>1 DEF tl
    <3> QED BY <3>2, <3>7, <3>8
  <2>2. CASE ~rings
    <3>1. ASSUME NEW i \in 1..n PROVE timers[i].target > now
      <4>1. timers[i].target > j /\ timers[i].target < Word /\ timers[i].target \in Nat
        BY <1>3, <1>5
      <4>2. now = j + 1
        BY <1>2, <1>7, <4>1
      <4>3. timers # << >> /\ 1 \in 1..n
        <5>1. 1 \in 1..n
          BY <1>4
        <5>2. timers # << >>
          BY <5>1 DEF n
        <5> QED BY <5>1, <5>2
      <4>4. timers[1].target # now /\ timers[1].target > j /\ timers[1].target \in Nat
        BY <1>3, <1>5, <1>8, <2>2, <4>3
      <4>5. timers[1].target > now
        BY <1>2, <4>2, <4>4
      <4>6. CASE i = 1
        BY <4>5, <4>6
      <4>7. CASE i # 1
        <5>1. 1 < i
          BY <1>4, <4>7
        <5>2. timers[1].target < timers[i].target
          BY <1>3, <4>3, <5>1
        <5> QED BY <1>6, <4>1, <4>4, <4>5, <5>2
      <4> QED BY <4>6, <4>7
    <3>2. slept[now] = << >>
      <4> SUFFICES ASSUME slept[now] # << >> PROVE FALSE
        OBVIOUS
      <4>1. PICK i \in 1..n : timers[i].target = now
        BY <1>3, <1>6
      <4>2. timers[i].target > now
        BY <3>1
      <4> QED BY <1>6, <4>1, <4>2
    <3>3. awake = slept
      <4>1. \A d \in Jiffy : awake[d] = slept[d]
        BY <1>9, <3>2
      <4> HIDE DEF awake
      <4> QED BY <1>2, <1>9, <4>1
    <3>4. later = timers /\ woken = << >>
      BY <2>2
    <3> HIDE DEF awake, later, woken
    <3>5. Pending(timers, slept, now)
      BY <1>2, <1>3, <3>1 DEF Pending, n
    <3> QED BY <3>2, <3>3, <3>4, <3>5
  <2> QED BY <2>1, <2>2
<1> HIDE DEF later, awake, woken, timers, slept, j
<1>11. woken \in Seq(Sleeper)
  BY <1>2, <1>6, <1>10
<1>12. clock' \in Clocks
  <2>1. later \in Seq(Timer) /\ clock.asked \in SUBSET Asked
    BY <1>10, ClockFields DEF Pending
  <2> QED BY <1>1, <1>6, <1>9, <1>11, <2>1 DEF Clocks
<1>13. ASSUME NEW a \in clock.asked
       PROVE  a.due = TargetOf(a.until) /\ \A d \in Jiffy : a.who \notin Range(awake[d])
  <2>1. a.due = TargetOf(a.until) /\ \A d \in Jiffy : a.who \notin Range(slept[d])
    BY DEF ClockInv, slept
  <2>2. a.who \notin Range(<< >>)
    BY QueueEmpty
  <2> QED BY <1>9, <2>1, <2>2
<1>14. \A a, b \in clock.asked : a.who = b.who => a = b
  BY DEF ClockInv
<1>15. ClockInv'
  BY <1>1, <1>10, <1>12, <1>13, <1>14 DEF ClockInv
<1> QED BY <1>1, <1>10, <1>15 DEF slept

\* Only these change the clock.
LEMMA ClockNext ==
  ASSUME ClockInv, [Next]_vars
  PROVE  /\ ClockInv'
         /\ clock'.jiffies # clock.jiffies => clock'.woken = clock.slept[clock'.jiffies]
<1>1. CASE UNCHANGED clock
  BY <1>1 DEF ClockInv
<1>2. CASE Sleeping
  <2>1. CASE Tick
    BY <2>1, TickStep
  <2>2. ASSUME NEW p \in Sleeper, NEW m \in 0..MaxSleep, SleepFor(p, m)
        PROVE  ClockInv' /\ clock'.jiffies = clock.jiffies
    <3>1. m \in Nat
      BY ClockConstants
    <3> QED BY <2>2, <3>1, SleepForStep
  <2>3. ASSUME NEW a \in clock.asked, SleepUntil(a)
        PROVE  ClockInv' /\ clock'.jiffies = clock.jiffies
    BY <2>3, SleepUntilStep
  <2> QED BY <1>2, <2>1, <2>2, <2>3 DEF Sleeping
<1>3. CASE Next /\ ~Sleeping
  <2>1. UNCHANGED clock
    BY <1>3 DEF Next, PutChar, Rain, DrawClear, DrawDown, DrawRowUp, DrawAt, DrawColor, Draw, Gets,
       Seek, ReadCall, ReadFullyCall, Receives, ReadLine, EmptyLine, CommandNotFound, ShortFile,
       CommandAstray, WordAstray, Crowded, Cat, Ls, Echo, CatFiles, EditorGivesUp, EditorOpens, Prints, Executes, Forks,
       Opening, Running, Edit, Save, Quit
  <2> QED BY <1>1, <2>1
<1> QED BY <1>1, <1>2, <1>3 DEF vars

\* Each tick wakes exactly those whose time has come, in the order in which
\* they went to sleep (pit.cc:26-41, process.cc:401-463, queue.h:24-50).
THEOREM WakesOnTime == Spec => SleepersWakeOnTime
<1>1. ClockInv /\ [Next]_vars => ClockInv'
  BY ClockNext
<1>2. ClockInv /\ [Next]_vars =>
        [clock'.jiffies # clock.jiffies => clock'.woken = clock.slept[clock'.jiffies]]_clock
  BY ClockNext
<1> QED BY <1>1, <1>2, ClockInit, PTL DEF Spec, SleepersWakeOnTime

=============================================================================
