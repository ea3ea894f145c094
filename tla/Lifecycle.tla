----------------------------- MODULE Lifecycle -----------------------------
(***************************************************************************)
(* What becomes of a process and of what it holds: fork, open, semaphore,  *)
(* exec, join, close, exit, the kill that a page fault in the first page   *)
(* causes, and the reaper.  Every process has a table of handles guarded   *)
(* by a mutex of its own; processes, semaphores and open files are counted *)
(* and deleted with their last reference; the file system's table of open  *)
(* files is guarded by openFilesMutex, for which processes queue.          *)
(*                                                                         *)
(* exit() is several steps, between which other processes run.  A process  *)
(* that was killed checks the flag again whenever it is dispatched: after  *)
(* it waited for openFilesMutex, and after a tick of the timer, where the  *)
(* dispatch is still inside the interrupt handler.  It then starts exit()  *)
(* once more, on top of the one it was in.                                 *)
(***************************************************************************)
EXTENDS Naturals, Sequences, FiniteSets, FiniteSetsExt

CONSTANTS Proc,      \* processes
          First,     \* the one that kernelMain starts, class Init
          Slots,     \* the size of a table of handles
          File,      \* start blocks of files
          Shell,     \* the program that the first process executes
          Sem,       \* semaphores
          MaxLeak,   \* bound on references to a file that nobody will drop
          None       \* an empty slot

ASSUME LifecycleAssumption ==
    First \in Proc /\ Shell \in File /\ Slots \in Nat \ {0} /\ MaxLeak \in Nat

VARIABLES
    pc,        \* where each process is
    table,     \* table[p][i]: what handle i of p stands for
    held,      \* p's table mutex is taken (only p ever takes it)
    todo,      \* the slots that close() or closeAll() has still to look at
    then,      \* what p does when that is done
    target,    \* the handle p waits for in join(), the file it opens
    killed,    \* isKilled
    inIrq,     \* p runs exit() inside the timer's interrupt: iDepth is 1
    panicked,  \* Debug::panic has stopped the machine
    done,      \* doneEvent has been signalled
    refs,      \* the count of each process
    sem,       \* the count of each semaphore
    open,      \* the count of each OpenFile; 0: openFiles[start] is null
    leak,      \* references to it that nobody will drop
    files      \* who holds openFilesMutex, then who waits for it, in order

vars == <<pc, table, held, todo, then, target, killed, inIrq, panicked, done,
          refs, sem, open, leak, files>>
counts == <<refs, sem, open, leak>>
flow == <<todo, then, target>>
fate == <<killed, inIrq, panicked, done>>

Slot == 1 .. Slots          \* handle 0 is never given out
Entry == [type: {"process"}, of: Proc] \union [type: {"semaphore"}, of: Sem]
            \union [type: {"file"}, of: File]
Handle(type, of) == [type |-> type, of |-> of]

ASSUME EmptySlot == None \notin Entry

Exiting == {"exit", "closing", "file", "wait", "signal", "park"}
Terminated == {"zombie", "reaped", "gone"}
Location == {"unborn", "born", "user", "opening", "join", "stuck"} \union Exiting \union Terminated

Free(p) == {i \in Slot : table[p][i] = None}
Full(p) == Slot \ Free(p)

(* Interrupts are off in the handler of a tick: nobody else gets to run.   *)
Turn(p) == ~panicked /\ \A q \in Proc \ {p} : ~inIrq[q]
User(p) == pc[p] = "user" /\ Turn(p)
Goto(p, l) == pc' = [pc EXCEPT ![p] = l]

(* The first process has no handles; its run() is in execv("shell").       *)
Init ==
    /\ pc = [p \in Proc |-> IF p = First THEN "opening" ELSE "unborn"]
    /\ table = [p \in Proc |-> [i \in Slot |-> None]]
    /\ held = [p \in Proc |-> FALSE]
    /\ todo = [p \in Proc |-> {}]
    /\ then = [p \in Proc |-> IF p = First THEN "exec" ELSE "user"]
    /\ target = [p \in Proc |-> IF p = First THEN Shell ELSE None]
    /\ killed = [p \in Proc |-> FALSE]
    /\ inIrq = [p \in Proc |-> FALSE]
    /\ panicked = FALSE
    /\ done = [p \in Proc |-> FALSE]
    /\ refs = [p \in Proc |-> IF p = First THEN 1 ELSE 0]
    /\ sem = [s \in Sem |-> 0]
    /\ open = [f \in File |-> 0]
    /\ leak = [f \in File |-> 0]
    /\ files = <<First>>

-----------------------------------------------------------------------------
(* Taking a table's mutex to close some slots of it.                       *)
LockTable(p, slots, next) ==
    /\ held' = [held EXCEPT ![p] = TRUE]
    /\ todo' = [todo EXCEPT ![p] = slots]
    /\ then' = [then EXCEPT ![p] = next]
    /\ Goto(p, "closing")

(* Resource::unref of a process: the last reference deletes it.            *)
Unref(q) ==
    /\ refs' = [refs EXCEPT ![q] = @ - 1]
    /\ pc' = IF refs[q] = 1 THEN [pc EXCEPT ![q] = "gone"] ELSE pc

(* Table::open puts a resource in the first free slot of p's table.  None  *)
(* is free: the caller gets ERR_NO_ID, and nobody drops what was opened.   *)
PutHandle(p, h) ==
    table' = IF Free(p) = {} THEN table
             ELSE [table EXCEPT ![p][Min(Free(p))] = h]

Gets(p) == IF Free(p) = {} THEN 0 ELSE 1

(* fork: the child's table has the parent's semaphores and new File        *)
(* objects on the same OpenFiles; a process handle is not inherited.  The  *)
(* child is started also when the parent has no slot for it.               *)
Inherited(e) == IF e # None /\ e.type = "process" THEN None ELSE e

\* Mutant: a file's forkMe does not count the new reference to the OpenFile.
CopiesUncounted(p, type, x) ==
    IF type = "file" THEN 0 ELSE Cardinality({i \in Slot : table[p][i] = Handle(type, x)})

Copies(p, type, x) == Cardinality({i \in Slot : table[p][i] = Handle(type, x)})

Fork(p) ==
    /\ User(p)
    /\ \E c \in Proc :
        /\ pc[c] = "unborn"
        /\ table' = [table EXCEPT
              ![c] = [i \in Slot |-> Inherited(table[p][i])],
              ![p] = [i \in Slot |-> IF Free(p) # {} /\ i = Min(Free(p))
                                     THEN Handle("process", c) ELSE @[i]]]
        /\ refs' = [refs EXCEPT ![c] = 1 + Gets(p)]
        /\ Goto(c, "born")
    /\ sem' = [s \in Sem |-> sem[s] + Copies(p, "semaphore", s)]
    /\ open' = [f \in File |-> open[f] + Copies(p, "file", f)]
    /\ UNCHANGED <<leak, held, flow, fate, files>>

(* The child's first dispatch: entry(), run(), and off to user mode.       *)
Start(c) ==
    /\ pc[c] = "born" /\ Turn(c)
    /\ Goto(c, "user")
    /\ UNCHANGED <<table, counts, held, flow, fate, files>>

NewSemaphore(p) ==
    /\ User(p)
    /\ \E s \in Sem :
        /\ sem[s] = 0
        /\ PutHandle(p, Handle("semaphore", s))
        /\ sem' = [sem EXCEPT ![s] = Gets(p)]
    /\ UNCHANGED <<pc, refs, open, leak, held, flow, fate, files>>

-----------------------------------------------------------------------------
(* open(f) and execv(f) look the name up and take openFilesMutex.          *)
LookupFile(p, f, next) ==
    /\ User(p)
    /\ leak[f] < MaxLeak
    /\ target' = [target EXCEPT ![p] = f]
    /\ then' = [then EXCEPT ![p] = next]
    /\ files' = Append(files, p)
    /\ Goto(p, "opening")
    /\ UNCHANGED <<table, counts, held, todo, fate>>

OpenCall(p) == \E f \in File : LookupFile(p, f, "user")
ExecCall(p) == \E f \in File : LookupFile(p, f, "exec")

Obtained(p) ==
    /\ pc[p] = "opening" /\ Turn(p)
    /\ Head(files) = p
    /\ files' = Tail(files)
    /\ open' = [open EXCEPT ![target[p]] = @ + 1]
    /\ target' = [target EXCEPT ![p] = None]

Leak(f, n) == leak' = [leak EXCEPT ![f] = @ + n]

Opened(p) ==
    /\ Obtained(p) /\ then[p] = "user"
    /\ Leak(target[p], 1 - Gets(p))
    /\ PutHandle(p, Handle("file", target[p]))
    /\ Goto(p, "user")
    /\ UNCHANGED <<refs, sem, held, todo, then, fate>>

(* execv: the old image is thrown away, then all handles; the program is   *)
(* read and entered.  The File of the program is never closed.             *)
Exec(p) ==
    /\ Obtained(p) /\ then[p] = "exec"
    /\ Leak(target[p], 1)
    /\ LockTable(p, Slot, "user")
    /\ UNCHANGED <<table, refs, sem, fate>>

-----------------------------------------------------------------------------
Close(p) ==
    /\ User(p)
    /\ \E i \in Full(p) : LockTable(p, {i}, "user")
    /\ UNCHANGED <<table, counts, target, fate, files>>

Join(p) ==
    /\ User(p)
    /\ \E i \in Full(p) :
        /\ table[p][i].type = "process"
        /\ target' = [target EXCEPT ![p] = i]
    /\ Goto(p, "join")
    /\ UNCHANGED <<table, counts, held, todo, then, fate, files>>

Child(p) == table[p][target[p]].of

JoinReturns(p) ==
    /\ pc[p] = "join" /\ Turn(p)
    /\ done[Child(p)]
    /\ LockTable(p, {target[p]}, "user")
    /\ target' = [target EXCEPT ![p] = None]
    /\ UNCHANGED <<table, counts, fate, files>>

\* Mutant: exit() wakes the joiner before it closes the handles.
ExitSignals(p) ==
    /\ User(p)
    /\ Goto(p, "exit")
    /\ done' = [done EXCEPT ![p] = TRUE]
    /\ UNCHANGED <<table, counts, held, flow, killed, inIrq, panicked, files>>

Exit(p) ==
    /\ User(p)
    /\ Goto(p, "exit")
    /\ UNCHANGED <<table, counts, held, flow, fate, files>>

Kill(p) ==
    /\ killed' = [killed EXCEPT ![p] = TRUE]
    /\ Goto(p, "exit")
    /\ UNCHANGED <<table, counts, held, flow, inIrq, panicked, done, files>>

(* The program touches an address below 0x1000.                            *)
PageFault(p) == User(p) /\ Kill(p)

(* A system call on a handle in range that is not in use: Table::get looks *)
(* into the null resource, which is a page fault below 0x1000.             *)
EmptyHandle(p) == User(p) /\ Free(p) # {} /\ Kill(p)

-----------------------------------------------------------------------------
CloseAll(p) ==
    /\ pc[p] = "exit" /\ Turn(p)
    /\ LockTable(p, Slot, "exit")
    /\ UNCHANGED <<table, counts, target, fate, files>>

Current(p) == Min(todo[p] \intersect Full(p))
Emptied(p) == table' = [table EXCEPT ![p][Current(p)] = None]

(* The next slot that is not empty.  A file's destructor takes             *)
(* openFilesMutex; whoever has to wait for it inside a handler panics.     *)
Drop(p) ==
    /\ pc[p] = "closing" /\ Turn(p)
    /\ todo[p] \intersect Full(p) # {}
    /\ LET e == table[p][Current(p)]
       IN  \/ /\ e.type = "process"
              /\ Unref(e.of) /\ Emptied(p)
              /\ UNCHANGED <<sem, open, files, panicked>>
           \/ /\ e.type = "semaphore"
              /\ sem' = [sem EXCEPT ![e.of] = @ - 1]
              /\ Emptied(p)
              /\ UNCHANGED <<pc, refs, open, files, panicked>>
           \/ /\ e.type = "file" /\ (files = << >> \/ ~inIrq[p])
              /\ files' = Append(files, p)
              /\ Goto(p, IF files = << >> THEN "file" ELSE "wait")
              /\ UNCHANGED <<table, refs, sem, open, panicked>>
           \/ /\ e.type = "file" /\ files # << >> /\ inIrq[p]
              /\ panicked' = TRUE
              /\ UNCHANGED <<pc, table, refs, sem, open, files>>
    /\ UNCHANGED <<leak, held, flow, killed, inIrq, done>>

(* The mutex was handed over and p is dispatched.  A killed process exits  *)
(* again and waits for the table mutex that it holds itself.               *)
Woken(p) ==
    /\ pc[p] = "wait" /\ Turn(p)
    /\ Head(files) = p
    /\ Goto(p, IF killed[p] THEN "stuck" ELSE "file")
    /\ UNCHANGED <<table, counts, held, flow, fate, files>>

\* Mutant: closeFile leaves openFilesMutex locked when the file stays open.
CloseFileEarly(p) ==
    /\ pc[p] = "file" /\ Turn(p)
    /\ open' = [open EXCEPT ![table[p][Current(p)].of] = @ - 1]
    /\ files' = IF open[table[p][Current(p)].of] = 1 THEN Tail(files) ELSE files
    /\ Emptied(p)
    /\ Goto(p, "closing")
    /\ UNCHANGED <<refs, sem, leak, held, flow, fate>>

CloseFile(p) ==
    /\ pc[p] = "file" /\ Turn(p)
    /\ open' = [open EXCEPT ![table[p][Current(p)].of] = @ - 1]
    /\ files' = Tail(files)
    /\ Emptied(p)
    /\ Goto(p, "closing")
    /\ UNCHANGED <<refs, sem, leak, held, flow, fate>>

Closed(p) ==
    /\ pc[p] = "closing" /\ Turn(p)
    /\ todo[p] \intersect Full(p) = {}
    /\ held' = [held EXCEPT ![p] = FALSE]
    /\ todo' = [todo EXCEPT ![p] = {}]
    /\ then' = [then EXCEPT ![p] = "user"]
    /\ Goto(p, IF then[p] = "exit" THEN "signal" ELSE "user")
    /\ UNCHANGED <<table, counts, target, fate, files>>

\* Mutant: a second exit, inside the handler, does not signal.
SignalOnce(p) ==
    /\ pc[p] = "signal" /\ Turn(p)
    /\ done' = [done EXCEPT ![p] = done[p] \/ ~inIrq[p]]
    /\ Goto(p, "park")
    /\ UNCHANGED <<table, counts, held, flow, killed, inIrq, panicked, files>>

Signal(p) ==
    /\ pc[p] = "signal" /\ Turn(p)
    /\ done' = [done EXCEPT ![p] = TRUE]
    /\ Goto(p, "park")
    /\ UNCHANGED <<table, counts, held, flow, killed, inIrq, panicked, files>>

(* Interrupts go off, the process goes on the reaper's queue.              *)
Park(p) ==
    /\ pc[p] = "park" /\ Turn(p)
    /\ inIrq' = [inIrq EXCEPT ![p] = FALSE]
    /\ Goto(p, "zombie")
    /\ UNCHANGED <<table, counts, held, flow, killed, panicked, done, files>>

(* A tick preempts a killed process in exit().  When it is dispatched      *)
(* again it starts exit() afresh, in the handler, where it may not block.  *)
Tick(p) ==
    /\ killed[p] /\ ~inIrq[p] /\ Turn(p)
    /\ pc[p] \in Exiting \ {"wait"}
    /\ \/ /\ held[p]
          /\ panicked' = TRUE
          /\ UNCHANGED <<pc, inIrq>>
       \/ /\ ~held[p]
          /\ inIrq' = [inIrq EXCEPT ![p] = TRUE]
          /\ Goto(p, "exit")
          /\ UNCHANGED panicked
    /\ UNCHANGED <<table, counts, held, flow, killed, done, files>>

(* Whoever is dispatched next drops the references of terminated processes.*)
Reap(q) ==
    /\ ~panicked
    /\ pc[q] = "zombie"
    /\ refs' = [refs EXCEPT ![q] = @ - 1]
    /\ Goto(q, IF refs[q] = 1 THEN "gone" ELSE "reaped")
    /\ UNCHANGED <<table, sem, open, leak, held, flow, fate, files>>

-----------------------------------------------------------------------------
(* The kernel's own steps; the rest are the user program's choices.        *)
Kernel(p) ==
    \/ Start(p) \/ Opened(p) \/ Exec(p) \/ JoinReturns(p) \/ CloseAll(p) \/ Drop(p)
    \/ Woken(p) \/ CloseFile(p) \/ Closed(p) \/ Signal(p) \/ Park(p) \/ Reap(p)

Next ==
    \E p \in Proc :
        \/ Fork(p) \/ NewSemaphore(p) \/ Close(p) \/ Join(p) \/ Exit(p)
        \/ PageFault(p) \/ EmptyHandle(p)
        \/ OpenCall(p) \/ ExecCall(p)
        \/ Start(p) \/ Opened(p) \/ Exec(p) \/ JoinReturns(p) \/ CloseAll(p) \/ Drop(p)
        \/ Woken(p) \/ CloseFile(p) \/ Closed(p) \/ Signal(p) \/ Park(p) \/ Reap(p)
        \/ Tick(p)

(* The scheduler is fair (Scheduler.tla) and every system call is finite.  *)
Spec == Init /\ [][Next]_vars /\ \A p \in Proc : WF_vars(Kernel(p))
-----------------------------------------------------------------------------
TypeOK ==
    /\ pc \in [Proc -> Location]
    /\ table \in [Proc -> [Slot -> Entry \union {None}]]
    /\ held \in [Proc -> BOOLEAN] /\ todo \in [Proc -> SUBSET Slot]
    /\ then \in [Proc -> {"user", "exec", "exit"}]
    /\ target \in [Proc -> Slot \union File \union {None}]
    /\ killed \in [Proc -> BOOLEAN] /\ inIrq \in [Proc -> BOOLEAN]
    /\ panicked \in BOOLEAN /\ done \in [Proc -> BOOLEAN]
    /\ refs \in [Proc -> Nat] /\ sem \in [Sem -> Nat]
    /\ open \in [File -> Nat] /\ leak \in [File -> Nat]
    /\ files \in Seq(Proc)

Handles(type, x) ==
    Cardinality({s \in Proc \X Slot : table[s[1]][s[2]] = Handle(type, x)})

(* Every count is the number of references there are: one too many keeps a *)
(* process and its memory, or a stale OpenFile, for ever; one too few      *)
(* deletes something in use.  A process counts itself until it is reaped,  *)
(* and is deleted neither while it can still run nor while somebody has a  *)
(* handle on it, join(), which reads exitCode, included                    *)
(* (resource.h:17-32, table.cc, process.cc:68-79).                         *)
CountsAgree ==
    /\ TypeOK
    /\ \A q \in Proc : refs[q] =
          Handles("process", q) + IF pc[q] \in {"unborn", "reaped", "gone"} THEN 0 ELSE 1
    /\ \A s \in Sem : sem[s] = Handles("semaphore", s)
    /\ \A f \in File : open[f] = Handles("file", f) + leak[f]
    /\ \A q \in Proc : pc[q] = "gone" => done[q] /\ Handles("process", q) = 0

(* A process that has terminated, killed or not, one exit or two, has left *)
(* its handles, its table's mutex and openFilesMutex.  It has closed them  *)
(* before it wakes who joins it: the parent can count on the child's files *)
(* and semaphores being given back (process.cc:316-334, table.cc:45-53).   *)
TerminatedHoldsNothing ==
    \A q \in Proc :
        /\ done[q] => Full(q) = {}
        /\ pc[q] \in Terminated =>
              done[q] /\ ~held[q] /\ \A i \in 1 .. Len(files) : files[i] # q

NobodyKilled == [](\A p \in Proc : ~killed[p])

(* Every open, exec, close and exit() comes to its end, through every      *)
(* queue for openFilesMutex, as long as no process of the system is killed *)
(* (fs.cc:226-244, table.cc:19-53, process.cc:316-334).                    *)
CallsReturn ==
    NobodyKilled => \A p \in Proc :
        /\ pc[p] = "exit" ~> pc[p] \in Terminated
        /\ pc[p] \in {"opening", "closing"} ~> pc[p] \in {"user", "signal"}

(* join() on a child that has terminated returns, whether it exited or was *)
(* killed, once or twice over, and whether or not it has been reaped.      *)
JoinServed ==
    \A p \in Proc : (pc[p] = "join" /\ pc[Child(p)] \in Terminated)
                        ~> (pc[p] = "user" \/ panicked)

(* The assertion of Process::yield: nobody blocks inside a handler.        *)
ExitNeverBlocksInHandler == ~panicked
=============================================================================
