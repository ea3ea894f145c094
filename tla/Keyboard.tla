----------------------------- MODULE Keyboard ------------------------------
(***************************************************************************)
(* The keyboard driver, kbd.cc, and the bounded buffer between its         *)
(* interrupt handler and the processes that read characters, bb.h.         *)
(*                                                                         *)
(* Semaphore operations are indivisible here (Scheduler shows that the     *)
(* code makes them so) and the handler runs with interrupts disabled, so   *)
(* it is one action; it can come between any two steps of a reader.        *)
(***************************************************************************)
EXTENDS Integers, Sequences, FiniteSets, SequencesExt

CONSTANTS
  Reader,    \* the processes that call getchar
  Letter,    \* keys that put a character, ^q and ^w among them
  Arrow,     \* the cursor keys, whose codes follow a code 0xe0
  Modifier,  \* shift and control
  N,         \* the capacity of the buffer, 1000 in kbd.cc:14
  NoChar     \* a reader's variable before it has a character

Key == Letter \cup Arrow \cup Modifier
\* Scan codes, set 1.
Make(k) == [key |-> k, down |-> TRUE]
Break(k) == [key |-> k, down |-> FALSE]
E0 == [key |-> "e0", down |-> TRUE]
Code == [key : Key, down : BOOLEAN] \cup {E0}
\* A character is the key it came from and the modifiers it was read under.
Char == [key : Letter \cup Arrow, mods : SUBSET Modifier]

ASSUME BufferAssumption == N \in Nat \ {0} /\ NoChar \notin Char
ASSUME ReaderAssumption == IsFiniteSet(Reader)  \* as many as there are processes

VARIABLES
  wire,        \* the scan codes the handler has still to read
  pressed,     \* the keys that are down; a key that is down repeats its code
  held,        \* the handler's flags shift and control, as a set
  direction,   \* the handler's flag for 0xe0
  arr, head, tail,   \* BB: the buffer and its two indices
  count,       \* the counts of BB's semaphores and of Console::mutex
  waiting,     \* the readers that wait for each of them
  pc,          \* how far a reader is in Console::get, "out" when not in it
  ch,          \* the character it has read
  machine      \* "up", or the semaphore on which the handler has panicked

keyVars == <<wire, pressed, held, direction>>
ring == <<arr, head, tail>>
sems == <<count, waiting>>
vars == <<keyVars, ring, sems, pc, ch, machine>>

Semaphore == {"console", "nFull", "nEmpty", "mutex"}
\* The step of get that follows each of its downs.
After == [console |-> "full", nFull |-> "lock", mutex |-> "copy"]

Init ==
  /\ wire = << >>
  /\ pressed = {} /\ held = {} /\ direction = FALSE
  /\ arr = [i \in 0..(N - 1) |-> NoChar]
  /\ head = 0 /\ tail = 0
  /\ count = [console |-> 1, nFull |-> 0, nEmpty |-> N, mutex |-> 1]
  /\ waiting = [s \in Semaphore |-> << >>]
  /\ pc = [r \in Reader |-> "out"]
  /\ ch = [r \in Reader |-> NoChar]
  /\ machine = "up"

----------------------------------------------------------------------------
(* The keyboard.  It sends a key's codes once those of the key before it   *)
(* have been read.                                                         *)

Send(k, code) ==
  /\ machine = "up"
  /\ wire = << >>
  /\ wire' = IF k \in Arrow THEN <<E0, code>> ELSE <<code>>
  /\ UNCHANGED <<held, direction, ring, sems, pc, ch, machine>>

\* A key goes down, or the one that is down repeats.
Press(k) == Send(k, Make(k)) /\ pressed' = pressed \cup {k}

Release(k) == k \in pressed /\ Send(k, Break(k)) /\ pressed' = pressed \ {k}

----------------------------------------------------------------------------
(* The interrupt handler: kbd_get, then BB::put.                           *)

Flags(code) ==
  /\ direction' = IF code = E0 THEN ~direction ELSE direction
  /\ held' = IF code.key \in Modifier
               THEN IF code.down THEN held \cup {code.key} ELSE held \ {code.key}
               ELSE held

\* The characters a code stands for: one or none.
Chars(code) ==
  {c \in Char : /\ code = Make(c.key)
                /\ c.mods = IF c.key \in Letter THEN held ELSE {}
                /\ c.key \in Arrow => direction}

Wrap(i) == IF i = N THEN 0 ELSE i

\* Semaphore::up of s: the longest waiting reader goes on, or the count rises.
\* steps are the places the other readers have got to.
Up(s, steps) ==
  IF waiting[s] = << >>
    THEN /\ count' = [count EXCEPT ![s] = @ + 1]
         /\ pc' = steps
         /\ UNCHANGED waiting
    ELSE /\ waiting' = [waiting EXCEPT ![s] = Tail(@)]
         /\ pc' = [steps EXCEPT ![Head(waiting[s])] = After[s]]
         /\ UNCHANGED count

\* A down that would block panics, in yield, because iDepth is not 0 in a handler.
Panic(s) == count[s] = 0 /\ machine' = s /\ UNCHANGED <<ring, sems, pc>>

Put(c) ==
  \/ Panic("nEmpty")
  \/ count["nEmpty"] > 0 /\ Panic("mutex")
  \/ /\ count["nEmpty"] > 0 /\ count["mutex"] > 0
     /\ arr' = [arr EXCEPT ![tail] = c]
     /\ tail' = Wrap(tail + 1)
     /\ IF waiting["nFull"] = << >>
          THEN /\ count' = [count EXCEPT !["nEmpty"] = @ - 1, !["nFull"] = @ + 1]
               /\ UNCHANGED <<waiting, pc>>
          ELSE /\ count' = [count EXCEPT !["nEmpty"] = @ - 1]
               /\ waiting' = [waiting EXCEPT !["nFull"] = Tail(@)]
               /\ pc' = [pc EXCEPT ![Head(waiting["nFull"])] = After["nFull"]]
     /\ UNCHANGED <<head, machine>>

\* Keyboard::handler reads one code, and puts the character it may stand for.
Handler ==
  /\ machine = "up"
  /\ wire # << >>
  /\ wire' = Tail(wire)
  /\ Flags(Head(wire))
  /\ \/ \E c \in Chars(Head(wire)) : Put(c)
     \/ Chars(Head(wire)) = {} /\ UNCHANGED <<ring, sems, pc, machine>>
  /\ UNCHANGED <<pressed, ch>>

----------------------------------------------------------------------------
(* Console::get, which calls BB::get.                                      *)

\* Reader r runs, at step l of get.
At(r, l) == /\ machine = "up"
            /\ pc[r] = l
            /\ \A s \in Semaphore : r \notin Range(waiting[s])

\* Semaphore::down of s by r.
Down(r, s) ==
  /\ IF count[s] = 0
       THEN /\ waiting' = [waiting EXCEPT ![s] = Append(@, r)]
            /\ UNCHANGED <<count, pc>>
       ELSE /\ count' = [count EXCEPT ![s] = @ - 1]
            /\ pc' = [pc EXCEPT ![r] = After[s]]
            /\ UNCHANGED waiting
  /\ UNCHANGED <<keyVars, ring, ch, machine>>

GetConsole(r) == At(r, "out") /\ Down(r, "console")
GetFull(r) == At(r, "full") /\ Down(r, "nFull")
GetLock(r) == At(r, "lock") /\ Down(r, "mutex")

\* Mutant: the index is advanced first.
GetCopyNext(r) ==
  /\ At(r, "copy")
  /\ ch' = [ch EXCEPT ![r] = arr[Wrap(head + 1)]]
  /\ head' = Wrap(head + 1)
  /\ pc' = [pc EXCEPT ![r] = "unlock"]
  /\ UNCHANGED <<keyVars, arr, tail, sems, machine>>

GetCopy(r) ==
  /\ At(r, "copy")
  /\ ch' = [ch EXCEPT ![r] = arr[head]]
  /\ head' = Wrap(head + 1)
  /\ pc' = [pc EXCEPT ![r] = "unlock"]
  /\ UNCHANGED <<keyVars, arr, tail, sems, machine>>

\* r ups s and goes on to step l.
UpTo(r, s, l) ==
  /\ Up(s, [pc EXCEPT ![r] = l])
  /\ UNCHANGED <<keyVars, ring, machine>>

GetUnlock(r) == At(r, "unlock") /\ UpTo(r, "mutex", "release") /\ UNCHANGED ch

\* Mutant: the slot is not given back.
GetReleaseForgotten(r) ==
  /\ At(r, "release")
  /\ pc' = [pc EXCEPT ![r] = "leave"]
  /\ UNCHANGED <<keyVars, ring, sems, ch, machine>>

GetRelease(r) == At(r, "release") /\ UpTo(r, "nEmpty", "leave") /\ UNCHANGED ch

\* Mutant: the console stays locked.
GetLeaveForgotten(r) ==
  /\ At(r, "leave")
  /\ pc' = [pc EXCEPT ![r] = "out"]
  /\ ch' = [ch EXCEPT ![r] = NoChar]
  /\ UNCHANGED <<keyVars, ring, sems, machine>>

\* The console's mutex is unlocked and the character returned.
GetLeave(r) ==
  /\ At(r, "leave")
  /\ UpTo(r, "console", "out")
  /\ ch' = [ch EXCEPT ![r] = NoChar]

Step(r) == \/ GetFull(r) \/ GetLock(r) \/ GetCopy(r)
           \/ GetUnlock(r) \/ GetRelease(r) \/ GetLeave(r)

Next == \/ \E k \in Key : Press(k) \/ Release(k)
        \/ Handler
        \/ \E r \in Reader : GetConsole(r) \/ Step(r)

Spec == Init /\ [][Next]_vars

\* A process that does not wait runs (Scheduler, ReadyRuns), and an interrupt
\* that is pending is taken.  Nobody has to type, or to call getchar.
FairSpec == /\ Spec
            /\ WF_vars(Handler)
            /\ \A r \in Reader : WF_vars(Step(r))

----------------------------------------------------------------------------
(* Properties.                                                             *)

Steps == {"out", "full", "lock", "copy", "unlock", "release", "leave"}

\* The variables have their types.
TypeOK ==
  /\ wire \in BoundedSeq(Code, 2)
  /\ pressed \subseteq Key /\ held \subseteq Modifier /\ direction \in BOOLEAN
  /\ arr \in [0..(N - 1) -> Char \cup {NoChar}]
  /\ head \in 0..(N - 1) /\ tail \in 0..(N - 1)
  /\ count \in [Semaphore -> 0..N + 1]
  /\ waiting \in [Semaphore -> BoundedSeq(Reader, Cardinality(Reader))]
  /\ pc \in [Reader -> Steps]
  /\ ch \in [Reader -> Char \cup {NoChar}]
  /\ machine \in {"up", "nEmpty", "mutex"}

\* Readers that a character has been promised to, and those whose slot is not
\* back yet.
Claimed == {r \in Reader : pc[r] \in {"lock", "copy"}}
Returning == {r \in Reader : pc[r] \in {"unlock", "release"}}
Used == count["nFull"] + Cardinality(Claimed)

\* The characters in the buffer, oldest first.
Contents == [i \in 1..Used |-> arr[(head + i - 1) % N]]

\* The types; and every slot of the buffer is free, holds a character, or is on
\* its way back from a reader: two semaphores and two indices that no common
\* lock protects agree, whatever the interleaving of readers and handler
\* (bb.h:22-40).
SlotsAccounted ==
  /\ TypeOK
  /\ count["nEmpty"] + Used + Cardinality(Returning) = N
  /\ (head + Used) % N = tail

\* The readers that have asked for a character and have not got it.
Asking == {r \in Reader : \/ r \in Range(waiting["console"])
                          \/ pc[r] \in {"full", "lock", "copy"}}

\* The buffer is a first-in first-out stream: what a reader gets is the oldest
\* character typed that no other reader has got (console.cc:121, bb.h:22-40).
Buffer == INSTANCE InputStream WITH
  stream <- Contents, asking <- Asking, got <- ch, Char <- Char
ImplementsStream == Buffer!Spec

\* A reader that waits for the console while characters come in gets its turn,
\* so no two readers block each other for good: one that has a character
\* promised returns, and one that waits behind it goes on.
ReaderReturns ==
  \A r \in Reader :
    /\ pc[r] \in {"lock", "copy"} ~> pc[r] = "out" \/ machine # "up"
    /\ r \in Range(waiting["console"]) ~>
         \/ pc[r] = "full"
         \/ machine # "up"
         \/ []<>(waiting["nFull"] # << >>)

\* The handler never blocks: process.cc:366 asserts that no handler does, and
\* the machine stops when one would, because a reader was interrupted while it
\* had the buffer locked, or because nobody has read the N characters before.
HandlerNeverBlocks == machine = "up"
============================================================================
