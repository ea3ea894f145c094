------------------------------- MODULE Fat439 ------------------------------
(***************************************************************************)
(* The writable file system: OpenFile and Fat439 of fs.cc and fs.h, on the *)
(* image that mkfs.c makes.  A file is a chain of blocks in the FAT, the   *)
(* free blocks are one more chain, and a write replaces the whole file.    *)
(*                                                                         *)
(* Nothing locks the FAT, and a writer loses the processor at interrupts   *)
(* and whenever it waits for the disk: OpenFile::write is split at every   *)
(* access to it.  Lengths are in blocks.                                   *)
(***************************************************************************)
EXTENDS Integers, Sequences, Functions, FiniteSets

CONSTANTS
  Proc,      \* the processes that use files
  Files,     \* how many files mkfs puts on the image
  NBlocks,   \* Super::nBlocks; the FAT fits in block 1
  InitSize,  \* the blocks that each file has on the image
  Lengths,   \* the lengths that are written; with 0 a file loses its first block
  Restarts   \* whether the machine is restarted

File == 1..Files
Block == 0..(NBlocks - 1)
DataBlock == 2..(NBlocks - 1)
NoFile == 0

ASSUME SizeAssumption == /\ Files \in Nat /\ InitSize \in Nat \ {0}
                         /\ NBlocks \in Nat /\ NBlocks > 2 + Files * InitSize + 1
ASSUME LengthAssumption == Lengths \subseteq Nat
ASSUME RestartAssumption == Restarts \in BOOLEAN

VARIABLES
  fat, avail,          \* in memory, since the file system was mounted
  disk,                \* what was written last into each block
  openFiles,           \* the references to each file's OpenFile, and its length
  handle,              \* the file that each process has open
  pc,                  \* how far a process is in OpenFile::write
  block, old, val,     \* its variables blockNumber and oldBlock, and val of the
                       \* list operation it calls
  size, done,          \* the blocks it has to write and has written
  saved                \* history: the last write to each file that was begun, or
                       \* that a restart has forgotten it

fatVars == <<fat, avail>>
fileVars == <<openFiles, handle>>
locals == <<block, old, val, size, done>>
vars == <<fatVars, disk, fileVars, pc, locals, saved>>

\* Content: block i of the n that p has written to f; mkfs is process 0.
Data(p, f, n, i) == [by |-> p, file |-> f, size |-> n, index |-> i]
Mkfs == 0
Forgotten == [by |-> Mkfs, size |-> 0]
System == Data(Mkfs, NoFile, 0, 0)

----------------------------------------------------------------------------
(* mkfs.c: blocks are taken from the top, first for the root directory.    *)

RootStart == NBlocks - 1
Start(f) == NBlocks - 2 - (f - 1) * InitSize
LastUsed == Start(Files) - InitSize + 1
FirstAvail == LastUsed - 1
InitFat == [b \in Block |->
  IF b < 3 THEN 0
  ELSE IF b < LastUsed THEN b - 1
  ELSE IF \E f \in File : b \in (Start(f) - InitSize + 2)..Start(f) THEN b - 1
  ELSE 0]

InitDisk == [b \in Block |->
  IF b \in LastUsed..Start(1)
    THEN LET f == CHOOSE g \in File : b \in (Start(g) - InitSize + 1)..Start(g)
         IN Data(Mkfs, f, InitSize, Start(f) - b + 1)
    ELSE System]

Closed == [refs |-> 0, length |-> 0]

Zero == [p \in Proc |-> 0]

Init ==
  /\ fat = InitFat
  /\ avail = FirstAvail
  /\ disk = InitDisk
  /\ openFiles = [f \in File |-> Closed]
  /\ handle = [p \in Proc |-> NoFile]
  /\ pc = [p \in Proc |-> "idle"]
  /\ block = Zero /\ old = Zero /\ val = Zero /\ size = Zero /\ done = Zero
  /\ saved = [f \in File |-> [by |-> Mkfs, size |-> InitSize]]

\* The blocks from b on, in order: to the end of the chain, or round it once.
Chain(b) ==
  LET at[k \in 1..NBlocks] ==
        IF k = 1 THEN b ELSE LET c == at[k - 1] IN IF c = 0 THEN 0 ELSE fat[c]
      length == Cardinality({k \in 1..NBlocks : at[k] # 0})
  IN [k \in 1..length |-> at[k]]

----------------------------------------------------------------------------
(* Open files.  openFilesMutex makes each of these indivisible.            *)

Open(p, f) ==
  /\ pc[p] = "idle"
  /\ handle[p] = NoFile
  /\ handle' = [handle EXCEPT ![p] = f]
  /\ openFiles' = [openFiles EXCEPT ![f] =
       IF @.refs = 0 THEN [refs |-> 1, length |-> disk[Start(f)].size]
                     ELSE [refs |-> @.refs + 1, length |-> @.length]]
  /\ UNCHANGED <<fatVars, disk, pc, locals, saved>>

Close(p) ==
  /\ pc[p] = "idle"
  /\ handle[p] # NoFile
  /\ handle' = [handle EXCEPT ![p] = NoFile]
  /\ openFiles' = [openFiles EXCEPT ![handle[p]] =
       IF @.refs = 1 THEN Closed ELSE [refs |-> @.refs - 1, length |-> @.length]]
  /\ UNCHANGED <<fatVars, disk, pc, locals, saved>>

----------------------------------------------------------------------------
(* OpenFile::write.                                                        *)

At(p, l) == pc[p] = l
Goto(p, l) == pc' = [pc EXCEPT ![p] = l]

\* From the head of the loop: to the next block, a new one if the chain has
\* ended, or to what is left of the chain when all is written.
Loop(p, b, d, n) ==
  Goto(p, IF d < n THEN IF b = 0 THEN "find" ELSE "data"
          ELSE IF b # 0 THEN "walk" ELSE "return")

Write(p, n) ==
  /\ At(p, "idle")
  /\ handle[p] # NoFile
  /\ block' = [block EXCEPT ![p] = Start(handle[p])]
  /\ old' = [old EXCEPT ![p] = 0]
  /\ size' = [size EXCEPT ![p] = n]
  /\ done' = [done EXCEPT ![p] = 0]
  /\ saved' = [saved EXCEPT ![handle[p]] = [by |-> p, size |-> n]]
  /\ Loop(p, Start(handle[p]), 0, n)
  /\ UNCHANGED <<fatVars, disk, fileVars, val>>

\* findFreeBlock reads the head of the list ...
Find(p) ==
  /\ At(p, "find")
  /\ val' = [val EXCEPT ![p] = avail]
  /\ Goto(p, "pop")
  /\ UNCHANGED <<fatVars, disk, fileVars, block, old, size, done, saved>>

\* ... and moves it on.
Pop(p) ==
  /\ At(p, "pop")
  /\ avail' = fat[avail]
  /\ block' = [block EXCEPT ![p] = val[p]]
  /\ Goto(p, "link")
  /\ UNCHANGED <<fat, disk, fileVars, old, val, size, done, saved>>

\* Mutant: the new block keeps its link into the list.
LinkLong(p) ==
  /\ At(p, "link")
  /\ fat' = [fat EXCEPT ![old[p]] = block[p]]
  /\ Goto(p, "data")
  /\ UNCHANGED <<avail, disk, fileVars, locals, saved>>

Link(p) ==
  /\ At(p, "link")
  /\ fat' = [fat EXCEPT ![block[p]] = 0, ![old[p]] = block[p]]
  /\ Goto(p, "data")
  /\ UNCHANGED <<avail, disk, fileVars, locals, saved>>

\* The block is written to the disk, and the chain followed.
Put(p) ==
  /\ At(p, "data")
  /\ disk' = [disk EXCEPT ![block[p]] = Data(p, handle[p], size[p], done[p] + 1)]
  /\ old' = [old EXCEPT ![p] = block[p]]
  /\ block' = [block EXCEPT ![p] = fat[block[p]]]
  /\ done' = [done EXCEPT ![p] = @ + 1]
  /\ Loop(p, fat[block[p]], done[p] + 1, size[p])
  /\ UNCHANGED <<fatVars, fileVars, val, size, saved>>

\* addToAvail walks to the end of the list, for ever if that has become a ring.
\* With no list it starts from block 0.
Walk(p) ==
  LET list == IF avail = 0 THEN <<0>> \o Chain(fat[0]) ELSE Chain(avail)
      end == list[Len(list)]
  IN /\ At(p, "walk")
     /\ val' = [val EXCEPT ![p] = IF fat[end] = 0 THEN end ELSE @]
     /\ Goto(p, IF fat[end] = 0 THEN "append" ELSE "walk")
     /\ UNCHANGED <<fatVars, disk, fileVars, block, old, size, done, saved>>

\* Mutant: the file keeps the blocks that it has given back.
AppendOnly(p) ==
  /\ At(p, "append")
  /\ fat' = [fat EXCEPT ![val[p]] = block[p]]
  /\ Goto(p, "return")
  /\ UNCHANGED <<avail, disk, fileVars, locals, saved>>

\* ... and appends what is left of the file, which then ends where it ends.
AppendRest(p) ==
  /\ At(p, "append")
  /\ fat' = [fat EXCEPT ![val[p]] = block[p], ![old[p]] = 0]
  /\ Goto(p, "return")
  /\ UNCHANGED <<avail, disk, fileVars, locals, saved>>

Return(p) ==
  /\ At(p, "return")
  /\ Goto(p, "idle")
  /\ block' = [block EXCEPT ![p] = 0] /\ old' = [old EXCEPT ![p] = 0]
  /\ val' = [val EXCEPT ![p] = 0]
  /\ size' = [size EXCEPT ![p] = 0] /\ done' = [done EXCEPT ![p] = 0]
  /\ UNCHANGED <<fatVars, disk, fileVars, saved>>

Writing(p) == \/ Find(p) \/ Pop(p) \/ Link(p) \/ Put(p)
              \/ Walk(p) \/ AppendRest(p) \/ Return(p)

\* The machine stops, and mounts the FAT that is on the disk: nothing has ever
\* written to it.  With another superblock than mkfs's it would not mount.
\* Whether a file that has been written before is whole is left open.
Restart ==
  /\ Restarts
  /\ disk[0] = System
  /\ fat' = InitFat /\ avail' = FirstAvail
  /\ openFiles' = [f \in File |-> Closed]
  /\ handle' = [p \in Proc |-> NoFile]
  /\ pc' = [p \in Proc |-> "idle"]
  /\ block' = Zero /\ old' = Zero /\ val' = Zero /\ size' = Zero /\ done' = Zero
  /\ saved' = [f \in File |->
       IF saved[f].by = Mkfs THEN saved[f] ELSE Forgotten]
  /\ UNCHANGED disk

Next == \/ \E p \in Proc : \/ \E f \in File : Open(p, f)
                           \/ Close(p)
                           \/ \E n \in Lengths : Write(p, n)
                           \/ Writing(p)
        \/ Restart

Spec == Init /\ [][Next]_vars

\* A process in a system call goes on: it is scheduled (Scheduler, ReadyRuns),
\* and waits for the disk only until the disk is ready.
FairSpec == Spec /\ \A p \in Proc : WF_vars(Writing(p))

----------------------------------------------------------------------------
(* Properties.                                                             *)

Contents == [by : Proc \cup {Mkfs}, file : File \cup {NoFile},
             size : Lengths \cup {0, InitSize}, index : 0..NBlocks]

\* The variables have their types.
TypeOK ==
  /\ fat \in [Block -> Block] /\ avail \in Block
  /\ disk \in [Block -> Contents]
  /\ openFiles \in [File -> [refs : 0..Cardinality(Proc),
                             length : Lengths \cup {0, InitSize}]]
  /\ handle \in [Proc -> File \cup {NoFile}]
  /\ pc \in [Proc -> {"idle", "find", "pop", "link", "data", "walk", "append", "return"}]
  /\ block \in [Proc -> Block] /\ old \in [Proc -> Block] /\ val \in [Proc -> Block]
  /\ size \in [Proc -> Lengths \cup {0}] /\ done \in [Proc -> 0..NBlocks]
  /\ saved \in [File -> [by : Proc \cup {Mkfs}, size : Lengths \cup {0, InitSize}]]

Quiet == \A p \in Proc : pc[p] = "idle"
Written(f) == \E p \in Proc : handle[p] = f /\ pc[p] # "idle"
Used(f) == Range(Chain(Start(f)))

\* The types; and between writes every block is in exactly one place: a file,
\* the root directory, or the list of available blocks (fs.h:109-118,
\* fs.cc:71-108).
NoBlockLost ==
  /\ TypeOK
  /\ Quiet =>
    /\ (UNION {Used(f) : f \in File}) \cup Range(Chain(avail)) = DataBlock \ {RootStart}
    /\ \A f \in File : Used(f) \cap Range(Chain(avail)) = {}
    /\ \A f, g \in File : f # g => Used(f) \cap Used(g) = {}

\* A file that nobody is writing has the blocks of the last write and no
\* others, in order, whatever is being written to other files meanwhile; one
\* that was never written keeps what mkfs put in it, through restarts too.
FileIsWhole ==
  \A f \in File : ~Written(f) /\ saved[f] # Forgotten =>
    LET chain == Chain(Start(f))
    IN /\ Len(chain) = saved[f].size
       /\ \A i \in 1..Len(chain) :
            disk[chain[i]] = Data(saved[f].by, f, saved[f].size, i)

\* A write comes to its end: no list that it walks has become a ring.
WriteReturns == \A p \in Proc : pc[p] # "idle" ~> pc[p] = "idle"

\* A write takes the blocks it needs from the available ones (REPORT.txt:16),
\* so that two files never have a block in common.
BlocksAreNotShared == \A f, g \in File : f # g => Used(f) \cap Used(g) = {}
============================================================================
