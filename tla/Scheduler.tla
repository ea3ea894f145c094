----------------------------- MODULE Scheduler -----------------------------
(***************************************************************************)
(* The uniprocessor kernel's multitasking core: process.cc, semaphore.cc,  *)
(* queue.h, idle.cc, and the parts of pic.cc, pit.cc and machine.S they    *)
(* run on.                                                                 *)
(*                                                                         *)
(* The processor executes one instruction stream, that of `current`, and   *)
(* an interrupt can replace it after any step that leaves the interrupt    *)
(* flag set.  The code protects its queues and counters with nothing but   *)
(* that flag and the per-process disableCount, so each routine is split    *)
(* here into the steps an interrupt could separate if the discipline were  *)
(* broken: reading a counter or a queue and acting on what was read are    *)
(* different actions, and no action assumes that it cannot be interrupted. *)
(*                                                                         *)
(* A process has up to three activation records at once: what it executes  *)
(* itself (pc), the interrupt handler on top of it (irq), and a call of    *)
(* Process::yield by either (yld).                                         *)
(***************************************************************************)
EXTENDS Integers, Sequences, Functions

CONSTANTS
  Proc,        \* process slots (a slot is reused once its process is reaped)
  InitProc,    \* the primordial process, kernel.cc:87
  Idle,        \* the idle process
  NoProc,      \* nullptr
  Mutex,       \* semaphores used as locks: down and up by the same process
  Sem,         \* all other semaphores: events, buffers, user semaphores
  SemInit,     \* SemInit[s] is the count that s is constructed with
  nEmpty,      \* the semaphores of the buffer that the keyboard's handler fills;
  mutex,       \* there is no keyboard when nEmpty is not one of Sem
  nFull,
  MaxCount,    \* bound on the count of such a semaphore
  MaxDelay     \* bound on the number of ticks a process sleeps

Thread == Proc \cup {Idle}
Semaphore == Mutex \cup Sem
\* Timer d is the Timer whose target is d ticks away from Pit::jiffies.
Timer == 1..MaxDelay
Queue == Semaphore \cup Timer

ASSUME ProcAssumption ==
  /\ InitProc \in Proc
  /\ Idle \notin Proc
  /\ NoProc \notin Thread
ASSUME SemaphoreAssumption ==
  /\ Mutex \cap Sem = {}
  /\ Semaphore \cap Int = {}
  /\ SemInit \in [Sem -> Nat]
  /\ MaxCount \in Nat
  /\ nEmpty \in Sem => mutex \in Mutex /\ nFull \in Sem
ASSUME DelayAssumption == MaxDelay \in Nat

VARIABLES
  current,       \* Process::current
  state,         \* Process::state; ABSENT before the constructor and once deleted
  readyQueue,
  reaperQueue,
  waiting,       \* Semaphore::waiting and Timer::waiting, head first
  count,         \* Semaphore::count
  disableCount,
  iDepth,
  intr,          \* the interrupt flag of the running processor
  pc,            \* what a process executes outside handlers and yield
  arg,           \* the semaphore or process that pc is about
  irq,           \* how far its interrupt handler is, "none" outside one
  yld,           \* how far its call of yield is, "none" outside one
  held,          \* history: the mutexes a process has locked and not unlocked
  machine        \* "up" until Debug::panic halts it

procVars == <<state, readyQueue, reaperQueue>>
semVars == <<waiting, count, held>>
vars == <<current, procVars, semVars, disableCount, iDepth, intr, pc, arg,
          irq, yld, machine>>

States == {"ABSENT", "READY", "RUNNING", "BLOCKED", "TERMINATED"}
\* Control points with interrupts enabled, then those inside disable/enable.
Open == {"user", "hlt", "reap", "unref"}
Closed == {"downTest", "downDec", "downBlock", "downEnd", "upTest", "upInc",
           "upWake", "sleepBlock", "ready", "exitPark", "gone", "reapTake",
           "reapEnd", "end"}

\* kernelMain up to its yield: init and idle are constructed, init is ready,
\* no process runs and interrupts are disabled.
Init ==
  /\ current = NoProc
  /\ state = [p \in Thread |-> IF p \in {InitProc, Idle} THEN "READY" ELSE "ABSENT"]
  /\ readyQueue = <<InitProc>>
  /\ reaperQueue = << >>
  /\ waiting = [q \in Queue |-> << >>]
  /\ count = [s \in Semaphore |-> IF s \in Mutex THEN 1 ELSE SemInit[s]]
  /\ disableCount = [p \in Thread |-> 0]
  /\ iDepth = [p \in Thread |-> 0]
  /\ intr = 0
  /\ pc = [p \in Thread |-> "reap"]
  /\ arg = [p \in Thread |-> NoProc]
  /\ irq = [p \in Thread |-> "none"]
  /\ yld = [p \in Thread |-> "none"]
  /\ held = [p \in Thread |-> {}]
  /\ machine = "up"

----------------------------------------------------------------------------
(* The pieces the routines are made of.                                    *)

\* The processor executes p's own code, at control point l.
At(p, l) == /\ machine = "up"
            /\ current = p
            /\ irq[p] = "none"
            /\ yld[p] = "none"
            /\ pc[p] = l

Goto(p, l) == pc' = [pc EXCEPT ![p] = l]

\* Process::disable by p: cli, then one more level.
Disable(p) == /\ intr' = 0
              /\ disableCount' = [disableCount EXCEPT ![p] = @ + 1]

\* Process::enable by p: one level less, and sti on leaving the last one.
Enable(p) == /\ machine' = IF disableCount[p] = 0 THEN "halted" ELSE "up"
             /\ disableCount' = [disableCount EXCEPT ![p] = IF @ = 0 THEN 0 ELSE @ - 1]
             /\ intr' = IF disableCount[p] = 1 THEN 1 ELSE intr

\* Process::makeReady of every process in the sequence s, in its order; the
\* idle process is READY without being queued.
MakeReady(s) ==
  /\ state' = [p \in Thread |-> IF p \in Range(s) THEN "READY" ELSE state[p]]
  /\ readyQueue' = IF s = <<Idle>> THEN readyQueue ELSE readyQueue \o s

\* The first half of Process::yield(q): p blocks on q.
YieldOn(p, q) ==
  /\ Disable(p)
  /\ machine' = IF iDepth[p] # 0 THEN "halted" ELSE "up"
  /\ state' = [state EXCEPT ![p] = "BLOCKED"]
  /\ waiting' = [waiting EXCEPT ![q] = Append(@, p)]
  /\ yld' = [yld EXCEPT ![p] = "pick"]
  /\ UNCHANGED <<readyQueue, reaperQueue>>

\* The first half of Process::yield(): p goes back to the ready queue.
YieldCpu(p) ==
  /\ Disable(p)
  /\ MakeReady(<<p>>)
  /\ yld' = [yld EXCEPT ![p] = "pick"]
  /\ UNCHANGED <<waiting, reaperQueue>>

----------------------------------------------------------------------------
(* Semaphores.                                                             *)

\* Mutant: without the disable.
DownUnprotected(p, s) ==
  /\ At(p, "user")
  /\ s \notin held[p]
  /\ Goto(p, "downTest")
  /\ arg' = [arg EXCEPT ![p] = s]
  /\ UNCHANGED <<current, procVars, semVars, disableCount, iDepth, intr, irq, yld, machine>>

\* A mutex is locked by a process that does not have it already.
Down(p, s) ==
  /\ At(p, "user")
  /\ s \notin held[p]
  /\ Disable(p)
  /\ Goto(p, "downTest")
  /\ arg' = [arg EXCEPT ![p] = s]
  /\ UNCHANGED <<current, procVars, semVars, iDepth, irq, yld, machine>>

\* Mutant: the test is off by one.
DownTestLate(p) ==
  /\ At(p, "downTest")
  /\ Goto(p, IF count[arg[p]] < 0 THEN "downBlock" ELSE "downDec")
  /\ UNCHANGED <<current, procVars, semVars, disableCount, iDepth, intr, arg,
                 irq, yld, machine>>

DownTest(p) ==
  /\ At(p, "downTest")
  /\ Goto(p, IF count[arg[p]] = 0 THEN "downBlock" ELSE "downDec")
  /\ UNCHANGED <<current, procVars, semVars, disableCount, iDepth, intr, arg,
                 irq, yld, machine>>

DownDec(p) ==
  /\ At(p, "downDec")
  /\ count' = [count EXCEPT ![arg[p]] = @ - 1]
  /\ Goto(p, "downEnd")
  /\ UNCHANGED <<current, procVars, waiting, held, disableCount, iDepth, intr,
                 arg, irq, yld, machine>>

DownBlock(p) ==
  /\ At(p, "downBlock")
  /\ YieldOn(p, arg[p])
  /\ Goto(p, "downEnd")
  /\ UNCHANGED <<current, count, held, iDepth, arg, irq>>

\* The semaphore was decremented for p, or handed to it by up: down returns.
DownEnd(p) ==
  /\ At(p, "downEnd")
  /\ Enable(p)
  /\ Goto(p, "user")
  /\ held' = [held EXCEPT ![p] = @ \cup ({arg[p]} \cap Mutex)]
  /\ arg' = [arg EXCEPT ![p] = NoProc]
  /\ UNCHANGED <<current, procVars, waiting, count, iDepth, irq, yld>>

\* Mutant: without the disable.
UpUnprotected(p, s) ==
  /\ At(p, "user")
  /\ \/ s \in held[p]
     \/ s \in Sem /\ count[s] < MaxCount
  /\ Goto(p, "upTest")
  /\ arg' = [arg EXCEPT ![p] = s]
  /\ held' = [held EXCEPT ![p] = @ \ {s}]
  /\ UNCHANGED <<current, procVars, waiting, count, disableCount, iDepth, intr, irq,
                 yld, machine>>

\* A mutex is unlocked by the process that has it; the other semaphores are
\* signalled by any process.
Up(p, s) ==
  /\ At(p, "user")
  /\ \/ s \in held[p]
     \/ s \in Sem /\ count[s] < MaxCount
  /\ Disable(p)
  /\ Goto(p, "upTest")
  /\ arg' = [arg EXCEPT ![p] = s]
  /\ held' = [held EXCEPT ![p] = @ \ {s}]
  /\ UNCHANGED <<current, procVars, waiting, count, iDepth, irq, yld, machine>>

UpTest(p) ==
  /\ At(p, "upTest")
  /\ Goto(p, IF waiting[arg[p]] = << >> THEN "upInc" ELSE "upWake")
  /\ UNCHANGED <<current, procVars, semVars, disableCount, iDepth, intr, arg,
                 irq, yld, machine>>

UpInc(p) ==
  /\ At(p, "upInc")
  /\ count' = [count EXCEPT ![arg[p]] = @ + 1]
  /\ Goto(p, "end")
  /\ UNCHANGED <<current, procVars, waiting, held, disableCount, iDepth, intr,
                 arg, irq, yld, machine>>

\* Mutants: the woken process stays in the queue; the count is incremented
\* although the semaphore is handed over; the queue is served from its end.
UpWakeKeep(p) ==
  /\ At(p, "upWake")
  /\ MakeReady(<<Head(waiting[arg[p]])>>)
  /\ Goto(p, "end")
  /\ UNCHANGED <<current, reaperQueue, semVars, disableCount, iDepth, intr, arg, irq,
                 yld, machine>>
UpWakeInc(p) ==
  /\ At(p, "upWake")
  /\ MakeReady(<<Head(waiting[arg[p]])>>)
  /\ waiting' = [waiting EXCEPT ![arg[p]] = Tail(@)]
  /\ count' = [count EXCEPT ![arg[p]] = @ + 1]
  /\ Goto(p, "end")
  /\ UNCHANGED <<current, reaperQueue, held, disableCount, iDepth, intr, arg, irq,
                 yld, machine>>
UpWakeLast(p) ==
  /\ At(p, "upWake")
  /\ LET w == waiting[arg[p]]
     IN /\ MakeReady(<<w[Len(w)]>>)
        /\ waiting' = [waiting EXCEPT ![arg[p]] = SubSeq(w, 1, Len(w) - 1)]
  /\ Goto(p, "end")
  /\ UNCHANGED <<current, reaperQueue, count, held, disableCount, iDepth, intr,
                 arg, irq, yld, machine>>

\* The count stays 0: the semaphore is handed to the head of the queue.
UpWake(p) ==
  /\ At(p, "upWake")
  /\ MakeReady(<<Head(waiting[arg[p]])>>)
  /\ waiting' = [waiting EXCEPT ![arg[p]] = Tail(@)]
  /\ Goto(p, "end")
  /\ UNCHANGED <<current, reaperQueue, count, held, disableCount, iDepth, intr,
                 arg, irq, yld, machine>>

\* Process::enable, as the last statement of up, sleepUntil and makeReady.
End(p) ==
  /\ At(p, "end")
  /\ Enable(p)
  /\ Goto(p, "user")
  /\ arg' = [arg EXCEPT ![p] = NoProc]
  /\ UNCHANGED <<current, procVars, semVars, iDepth, irq, yld>>

----------------------------------------------------------------------------
(* Sleeping, forking and exiting.                                          *)

\* sleepFor reads the clock before sleepUntil disables interrupts, so by then
\* the target may be any number of ticks away, or have passed (d = 0).
Sleep(p, d) ==
  /\ At(p, "user")
  /\ Disable(p)
  /\ Goto(p, IF d = 0 THEN "end" ELSE "sleepBlock")
  /\ arg' = [arg EXCEPT ![p] = IF d = 0 THEN NoProc ELSE d]
  /\ UNCHANGED <<current, procVars, semVars, iDepth, irq, yld, machine>>

SleepBlock(p) ==
  /\ At(p, "sleepBlock")
  /\ YieldOn(p, arg[p])
  /\ Goto(p, "end")
  /\ UNCHANGED <<current, count, held, iDepth, arg, irq>>

\* fork: construct the child in the free slot c and call start on it.
Start(p, c) ==
  /\ At(p, "user")
  /\ state[c] = "ABSENT"
  /\ Disable(p)
  /\ Goto(p, "ready")
  /\ arg' = [arg EXCEPT ![p] = c]
  /\ UNCHANGED <<current, procVars, semVars, iDepth, irq, yld, machine>>

StartReady(p) ==
  /\ At(p, "ready")
  /\ MakeReady(<<arg[p]>>)
  /\ pc' = [pc EXCEPT ![p] = "end", ![arg[p]] = "reap"]
  /\ disableCount' = [disableCount EXCEPT ![arg[p]] = 0]
  /\ UNCHANGED <<current, reaperQueue, semVars, iDepth, intr, arg, irq, yld, machine>>

\* A process that exits has unlocked everything it locked.
Exit(p) ==
  /\ At(p, "user")
  /\ held[p] = {}
  /\ Disable(p)
  /\ Goto(p, "exitPark")
  /\ UNCHANGED <<current, procVars, semVars, iDepth, arg, irq, yld, machine>>

\* From here to the end of the dispatch the processor runs on p's stack
\* without a current process.
ExitPark(p) ==
  /\ At(p, "exitPark")
  /\ reaperQueue' = Append(reaperQueue, p)
  /\ state' = [state EXCEPT ![p] = "TERMINATED"]
  /\ current' = NoProc
  /\ Goto(p, "gone")
  /\ UNCHANGED <<readyQueue, semVars, disableCount, iDepth, intr, arg, irq, yld, machine>>

\* A call of yield() outside a handler: waitForDrive and the serial port poll.
Poll(p) ==
  /\ At(p, "user")
  /\ YieldCpu(p)
  /\ UNCHANGED <<current, count, held, iDepth, pc, arg, irq, machine>>

----------------------------------------------------------------------------
(* The second half of yield: choosing the next process and switching to    *)
(* it, and what a process does when it is switched to again.               *)

Picking == IF current = NoProc THEN TRUE ELSE yld[current] = "pick"

\* Mutant: the switch enables interrupts whatever the next process's level.
DispatchEnabled ==
  /\ machine = "up"
  /\ Picking
  /\ LET next == IF readyQueue = << >> THEN Idle ELSE Head(readyQueue)
     IN /\ readyQueue' = IF readyQueue = << >> THEN << >> ELSE Tail(readyQueue)
        /\ state' = [state EXCEPT ![next] = "RUNNING"]
        /\ current' = next
        /\ intr' = 1
        /\ yld' = [p \in Thread |-> IF p = current THEN "back" ELSE yld[p]]
  /\ UNCHANGED <<reaperQueue, semVars, disableCount, iDepth, pc, arg, irq, machine>>

Dispatch ==
  /\ machine = "up"
  /\ Picking
  /\ LET next == IF readyQueue = << >> THEN Idle ELSE Head(readyQueue)
     IN /\ readyQueue' = IF readyQueue = << >> THEN << >> ELSE Tail(readyQueue)
        /\ state' = [state EXCEPT ![next] = "RUNNING"]
        /\ current' = next
        /\ intr' = IF next = current THEN intr ELSE IF disableCount[next] = 0 THEN 1 ELSE 0
        /\ yld' = [p \in Thread |-> IF p = current THEN "back" ELSE yld[p]]
  /\ UNCHANGED <<reaperQueue, semVars, disableCount, iDepth, pc, arg, irq, machine>>

\* Mutants: yield returns without its enable; without the checkReaper.
YieldReturnDisabled(p) ==
  /\ machine = "up"
  /\ current = p
  /\ yld[p] = "back"
  /\ yld' = [yld EXCEPT ![p] = "none"]
  /\ UNCHANGED <<current, procVars, semVars, disableCount, iDepth, intr, pc, arg, irq,
                 machine>>
YieldReturnOnly(p) ==
  /\ machine = "up"
  /\ current = p
  /\ yld[p] = "back"
  /\ yld' = [yld EXCEPT ![p] = "none"]
  /\ Enable(p)
  /\ UNCHANGED <<current, procVars, semVars, iDepth, pc, arg, irq>>

\* checkReaper, under the level that yield still has, deletes every process
\* on the reaper queue; then yield enables and returns.
YieldReturn(p) ==
  /\ machine = "up"
  /\ current = p
  /\ yld[p] = "back"
  /\ state' = [q \in Thread |->
                 IF q \in Range(reaperQueue) THEN "ABSENT" ELSE state[q]]
  /\ reaperQueue' = << >>
  /\ yld' = [yld EXCEPT ![p] = "none"]
  /\ Enable(p)
  /\ UNCHANGED <<current, readyQueue, semVars, iDepth, pc, arg, irq>>

----------------------------------------------------------------------------
(* checkReaper with interrupts enabled: by a process that runs for the     *)
(* first time, and by the idle process every time around its loop.         *)

Reap(p) ==
  /\ At(p, "reap")
  /\ Disable(p)
  /\ Goto(p, "reapTake")
  /\ UNCHANGED <<current, procVars, semVars, iDepth, arg, irq, yld, machine>>

ReapTake(p) ==
  /\ At(p, "reapTake")
  /\ arg' = [arg EXCEPT ![p] = IF reaperQueue = << >> THEN NoProc ELSE Head(reaperQueue)]
  /\ reaperQueue' = IF reaperQueue = << >> THEN << >> ELSE Tail(reaperQueue)
  /\ Goto(p, "reapEnd")
  /\ UNCHANGED <<current, state, readyQueue, semVars, disableCount, iDepth, intr,
                 irq, yld, machine>>

ReapEnd(p) ==
  /\ At(p, "reapEnd")
  /\ Enable(p)
  /\ Goto(p, CASE arg[p] # NoProc -> "unref"
               [] arg[p] = NoProc /\ p = Idle -> "hlt"
               [] OTHER -> "user")
  /\ UNCHANGED <<current, procVars, semVars, iDepth, arg, irq, yld>>

\* The reaper's reference was the last one: the process is deleted.
Unref(p) ==
  /\ At(p, "unref")
  /\ state' = [state EXCEPT ![arg[p]] = "ABSENT"]
  /\ arg' = [arg EXCEPT ![p] = NoProc]
  /\ Goto(p, "reap")
  /\ UNCHANGED <<current, readyQueue, reaperQueue, semVars, disableCount, iDepth,
                 intr, irq, yld, machine>>

----------------------------------------------------------------------------
(* Interrupts.                                                             *)

\* The processor accepts an interrupt and pic_irq calls startIrq.
Irq(kind) ==
  /\ machine = "up"
  /\ intr = 1
  /\ intr' = 0
  /\ IF current = NoProc
     THEN machine' = "halted" /\ UNCHANGED <<irq, iDepth, disableCount>>
     ELSE /\ machine' = IF disableCount[current] # 0 THEN "halted" ELSE "up"
          /\ irq' = [irq EXCEPT ![current] = kind]
          /\ iDepth' = [iDepth EXCEPT ![current] = @ + 1]
          /\ disableCount' = [disableCount EXCEPT ![current] = 1]
  /\ UNCHANGED <<current, procVars, semVars, pc, arg, yld>>

InIrq(p, l) == machine = "up" /\ current = p /\ irq[p] = l /\ yld[p] = "none"

\* Pit::handler and Process::tick: a tick has passed for every timer, and the
\* processes waiting on the one whose target it is become ready.
Tick(p) ==
  /\ InIrq(p, "tick")
  /\ MakeReady(IF MaxDelay = 0 THEN << >> ELSE waiting[1])
  /\ waiting' = [q \in Queue |-> IF q \in Semaphore THEN waiting[q]
                                 ELSE IF q = MaxDelay THEN << >>
                                 ELSE waiting[q + 1]]
  /\ irq' = [irq EXCEPT ![p] = "yield"]
  /\ UNCHANGED <<current, reaperQueue, count, held, disableCount, iDepth, intr,
                 pc, arg, yld, machine>>

\* Mutant: the handler returns without yielding.
IrqReturn(p) ==
  /\ InIrq(p, "yield") \/ InIrq(p, "device")
  /\ irq' = [irq EXCEPT ![p] = "end"]
  /\ UNCHANGED <<current, procVars, semVars, disableCount, iDepth, intr, pc, arg, yld,
                 machine>>

\* The handler of the keyboard puts a character into the buffer with the calls
\* that processes use.  Interrupts are off throughout, so a down or an up is one
\* step here; its levels of disable cancel out.  A down that finds a count of 0
\* calls yield with iDepth 1: Debug::panic.
HandlerDown(p, l, s, next) ==
  /\ InIrq(p, l)
  /\ \/ /\ count[s] = 0
        /\ machine' = "halted"
        /\ UNCHANGED <<count, held, irq>>
     \/ /\ count[s] > 0
        /\ count' = [count EXCEPT ![s] = @ - 1]
        /\ held' = [held EXCEPT ![p] = @ \cup ({s} \cap Mutex)]
        /\ irq' = [irq EXCEPT ![p] = next]
        /\ UNCHANGED machine
  /\ UNCHANGED <<current, procVars, waiting, disableCount, iDepth, intr, pc, arg, yld>>

HandlerUp(p, l, s, next) ==
  /\ InIrq(p, l)
  /\ \/ /\ waiting[s] = << >>
        /\ count' = [count EXCEPT ![s] = @ + 1]
        /\ UNCHANGED <<state, readyQueue, waiting>>
     \/ /\ waiting[s] # << >>
        /\ MakeReady(<<Head(waiting[s])>>)
        /\ waiting' = [waiting EXCEPT ![s] = Tail(@)]
        /\ UNCHANGED count
  /\ held' = [held EXCEPT ![p] = @ \ {s}]
  /\ irq' = [irq EXCEPT ![p] = next]
  /\ UNCHANGED <<current, reaperQueue, disableCount, iDepth, intr, pc, arg, yld, machine>>

\* BB::put, when a key has given a character.  No key is pressed while MaxCount
\* characters wait.
PutEmpty(p) ==
  /\ nEmpty \in Sem
  /\ count[nFull] < MaxCount
  /\ HandlerDown(p, "device", nEmpty, "lock")
PutLock(p) == HandlerDown(p, "lock", mutex, "unlock")
PutUnlock(p) == HandlerUp(p, "unlock", mutex, "full")
PutFull(p) == HandlerUp(p, "full", nFull, "yield")

\* pic_irq, once the handler has returned.  A device interrupt without a
\* character has nothing to do before.
IrqYield(p) ==
  /\ InIrq(p, "yield") \/ InIrq(p, "device")
  /\ YieldCpu(p)
  /\ irq' = [irq EXCEPT ![p] = "end"]
  /\ UNCHANGED <<current, count, held, iDepth, pc, arg, machine>>

\* endIrq and iret; a hlt that was interrupted is over.
EndIrq(p) ==
  /\ InIrq(p, "end")
  /\ machine' = IF disableCount[p] # 1 THEN "halted" ELSE "up"
  /\ disableCount' = [disableCount EXCEPT ![p] = 0]
  /\ iDepth' = [iDepth EXCEPT ![p] = @ - 1]
  /\ irq' = [irq EXCEPT ![p] = "none"]
  /\ intr' = 1
  /\ pc' = [pc EXCEPT ![p] = IF @ = "hlt" THEN "reap" ELSE @]
  /\ UNCHANGED <<current, procVars, semVars, arg, yld>>

----------------------------------------------------------------------------
\* What the running process asks of the kernel.
Call(p) ==
  \/ \E s \in Semaphore : Down(p, s) \/ Up(p, s)
  \/ \E d \in 0..MaxDelay : Sleep(p, d)
  \/ \E c \in Proc : Start(p, c)
  \/ Exit(p)
  \/ Poll(p)

\* What the kernel does about it without waiting for the process.
Step(p) ==
  \/ DownTest(p) \/ DownDec(p) \/ DownBlock(p) \/ DownEnd(p)
  \/ UpTest(p) \/ UpInc(p) \/ UpWake(p) \/ End(p)
  \/ SleepBlock(p) \/ StartReady(p) \/ ExitPark(p) \/ YieldReturn(p)
  \/ Reap(p) \/ ReapTake(p) \/ ReapEnd(p) \/ Unref(p)
  \/ Tick(p) \/ PutEmpty(p) \/ PutLock(p) \/ PutUnlock(p) \/ PutFull(p)
  \/ IrqYield(p) \/ EndIrq(p)

Kernel == Dispatch \/ \E p \in Thread : Step(p)

Interrupt == Irq("tick") \/ Irq("device")

Next == Kernel \/ Interrupt \/ \E p \in Proc : Call(p)

Spec == Init /\ [][Next]_vars

\* The processor keeps executing kernel code, and the timer's request stays
\* latched in the PIC until interrupts are enabled, however briefly.  Between
\* two ticks (1 ms) a process that has the processor gets something done.
\* Nothing is assumed of what user code calls.
Fairness ==
  /\ WF_vars(Kernel)
  /\ SF_vars(Irq("tick"))
  /\ \A p \in Thread : SF_vars(Reap(p) \/ Unref(p))

FairSpec == Spec /\ Fairness

----------------------------------------------------------------------------
(* Invariants.                                                             *)

TypeOK ==
  /\ current \in Thread \cup {NoProc}
  /\ state \in [Thread -> States]
  /\ readyQueue \in Seq(Proc)
  /\ reaperQueue \in Seq(Proc)
  /\ waiting \in [Queue -> Seq(Proc)]
  /\ count \in [Semaphore -> Nat]
  /\ disableCount \in [Thread -> Nat]
  /\ iDepth \in [Thread -> Nat]
  /\ intr \in {0, 1}
  /\ pc \in [Thread -> Open \cup Closed]
  /\ arg \in [Thread -> Queue \cup Proc \cup {NoProc}]
  /\ irq \in [Thread -> {"none", "tick", "device", "lock", "unlock", "full",
                            "yield", "end"}]
  /\ yld \in [Thread -> {"none", "pick", "back"}]
  /\ held \in [Thread -> SUBSET Mutex]
  /\ machine \in {"up", "halted"}

\* The handler of the keyboard is about to call down, and will block: nEmpty is
\* used up, or the buffer's mutex is locked by somebody it has interrupted.
HandlerBlocks(p) ==
  \/ irq[p] = "device" /\ nEmpty \in Sem /\ count[nEmpty] = 0
  \/ irq[p] = "lock" /\ count[mutex] = 0

\* Debug::panic is called for one reason only, that the keyboard's handler finds
\* a semaphore of its buffer used up.  No process blocks with iDepth set and no
\* other handler does, no interrupt arrives while there is no current process or
\* while disableCount is not 0, and enable never finds a count of 0.  Kill, which
\* adds a second panic, is in Lifecycle (process.cc:366-368, 476-480, 492-500,
\* 508-512).
NoPanic ==
  machine = "halted" => current # NoProc /\ HandlerBlocks(current)

\* The levels of disable that a process is inside of.
Levels(p) == (IF pc[p] \in Closed THEN 1 ELSE 0)
           + (IF irq[p] # "none" THEN 1 ELSE 0)
           + (IF yld[p] # "none" THEN 1 ELSE 0)

\* disable and enable are paired on every path, across context switches and
\* interrupts: disableCount is the number of calls a process is inside of, and
\* interrupts are enabled exactly while the current process is inside none,
\* never while there is no current process (process.cc:337-391, 465-514).
InterruptDiscipline ==
  /\ \A p \in Thread : disableCount[p] = Levels(p)
  /\ intr = 1 <=> (current # NoProc /\ disableCount[current] = 0)

\* The threads that have taken a process off the reaper queue to delete it,
\* and the processes that wait to be deleted.
Reaping == {t \in Thread : pc[t] \in {"reapEnd", "unref"} /\ arg[t] # NoProc}
Doomed == Range(reaperQueue) \cup {arg[t] : t \in Reaping}

\* No queue holds a process twice, and no two queues of waiters hold the same.
SeparateQueues ==
  /\ IsInjective(readyQueue) /\ IsInjective(reaperQueue)
  /\ \A q \in Queue : IsInjective(waiting[q])
  /\ \A q, r \in Queue : q # r => Range(waiting[q]) \cap Range(waiting[r]) = {}

Placed(p) ==
  /\ state[p] = "READY" <=> p \in Range(readyQueue)
  /\ state[p] = "BLOCKED" <=> \E q \in Queue : p \in Range(waiting[q])
  /\ state[p] = "TERMINATED" <=> p \in Doomed
  /\ state[p] = "RUNNING" <=> (current = p /\ yld[p] # "pick")

\* Every process is where its state says, and only there: one entry in the
\* ready queue, one entry in one queue of waiters, or the processor.  None is
\* lost and none is queued twice, and what the reaper deletes has terminated
\* and can be found nowhere (process.cc:274-281, 316-391, queue.h:21-50).
OneHome == SeparateQueues /\ \A p \in Proc : Placed(p)

\* No process waits for a semaphore that is available: down's test and its
\* sleep cannot be separated by an up (semaphore.cc:14-36).
NoLostWakeup == \A s \in Semaphore : count[s] > 0 => waiting[s] = << >>

\* A mutex is locked by at most one process, also when unlock hands it to a
\* process that has not run yet (semaphore.h:19-24, semaphore.cc:14-36).
MutualExclusion ==
  \A p, q \in Thread : p # q => held[p] \cap held[q] = {}

----------------------------------------------------------------------------
(* Action properties.                                                      *)

\* At most the head leaves the queue s, and others join it at the end.
Fifo(s, t) == \E n \in {0, 1} :
                /\ n <= Len(s)
                /\ Len(s) - n <= Len(t)
                /\ \A i \in 1..(Len(s) - n) : t[i] = s[i + n]

\* Nobody is overtaken, in the ready queue or in the queue of a semaphore
\* (queue.h:24-50, process.cc:274-281, 360-391, semaphore.cc:27-36).
NoOvertaking ==
  [][/\ Fifo(readyQueue, readyQueue')
     /\ \A s \in Semaphore : Fifo(waiting[s], waiting'[s])]_vars

----------------------------------------------------------------------------
(* Liveness.                                                               *)

\* A process that is ready gets the processor, whatever the others do: the
\* timer takes it from them (pic.cc:91-105, process.cc:360-391).
ReadyRuns == \A p \in Proc : state[p] = "READY" ~> state[p] = "RUNNING"

\* A process that has exited is taken off the reaper queue, by whichever
\* process runs next if not by the idle process (process.cc:68-90, 316-358).
ReaperQueueDrains ==
  \A p \in Proc : p \in Range(reaperQueue) ~> p \notin Range(reaperQueue)

\* "the idle process will eventually remove it" (process.h:25-27): a process
\* that has exited is deleted.  It need not be: checkReaper takes it off the
\* queue and drops the reference with interrupts enabled, and when the idle
\* process is preempted in between it may never run again (process.cc:68-79).
TerminatedIsReaped == \A p \in Proc : state[p] = "TERMINATED" ~> state[p] = "ABSENT"

\* A process that waits for a semaphore gets it if ups go on finding waiters:
\* the hand-off passes nobody over (semaphore.cc:27-36).
WaiterIsServed ==
  \A p \in Proc, s \in Semaphore :
    <>[](p \in Range(waiting[s])) => <>[](\A t \in Proc : ~(pc[t] = "upWake" /\ arg[t] = s))

----------------------------------------------------------------------------
(* The abstraction that this implements.  The processor is nobody's from   *)
(* the moment yield has queued the caller to the dispatch.                 *)

Abstract == INSTANCE Multitasking WITH
  cpu <- IF Picking THEN NoProc ELSE current,
  ready <- readyQueue,
  blocked <- waiting

\* Seen from outside, every semaphore operation, sleep, fork, exit and
\* preemption is one indivisible step (process.cc:274-514, semaphore.cc:14-36).
ImplementsSteps == Abstract!Safe

\* And the processor is always given to somebody and always taken away again
\* (pic.cc:91-105, process.cc:360-391).
ImplementsMultitasking == Abstract!Spec
============================================================================
