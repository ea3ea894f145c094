-------------------------- MODULE SchedulerProofs --------------------------
(***************************************************************************)
(* For any number of processes, semaphores and timers: only the keyboard's *)
(* handler can make the kernel panic, disable and enable are paired, every *)
(* process is in exactly one place, no wakeup is lost, a mutex is locked   *)
(* by at most one process, and the kernel implements Multitasking.         *)
(*                                                                         *)
(* None of the first three is inductive alone.  That enable and disable    *)
(* pair up across a context switch needs to know how the three activation  *)
(* records of a thread can be combined (Control); that no entry is         *)
(* duplicated when a process is queued needs to know what a call has found *)
(* out about its argument before the interrupts-off section it is in ends  *)
(* (Args), and that an unused slot executes nothing (Dead).  IInv is the   *)
(* conjunction; there is one lemma for each group of its conjuncts, with   *)
(* one step for each action.                                               *)
(***************************************************************************)
EXTENDS Scheduler, QueueLemmas, TLAPS

\* The control points whose argument is a semaphore, and those at which a
\* thread that is not running can be.
Semaphoring ==
  {"downTest", "downDec", "downBlock", "downEnd", "upTest", "upInc", "upWake"}
Resting == Open \cup {"downEnd", "end", "gone"}

\* Where the handler of a device is when it calls, or may call, put.
Handling == {"device", "lock", "unlock", "full"}

\* How the three activation records of a thread can be combined.
Control ==
  /\ \A p \in Thread :
      /\ irq[p] # "none" => pc[p] \in Open
      /\ yld[p] # "none" => pc[p] \in {"user", "downEnd", "end"} \/ irq[p] = "end"
      /\ irq[p] \in Handling \cup {"tick", "yield"} => yld[p] = "none"
      /\ irq[p] \in Handling \ {"device"} => nEmpty \in Sem
      /\ IF p = current
         THEN pc[p] # "gone"
         ELSE \/ yld[p] = "back"
              \/ yld[p] = "none" /\ irq[p] = "none" /\ pc[p] \in {"reap", "gone"}
  /\ pc[Idle] \in {"hlt", "reap", "reapTake", "reapEnd", "unref"}

\* What the argument of a call is, and that what the call has found out about
\* it still holds when the call acts on it.
ArgOf(p) ==
  /\ pc[p] \in Semaphoring => arg[p] \in Semaphore
  /\ pc[p] = "sleepBlock" => arg[p] \in Timer
  /\ pc[p] = "ready" => arg[p] \in Proc /\ state[arg[p]] = "ABSENT"
  /\ pc[p] = "unref" => arg[p] \in Proc
  /\ pc[p] = "reapEnd" => arg[p] \in Proc \cup {NoProc}
  /\ pc[p] = "downDec" => count[arg[p]] > 0
  /\ pc[p] = "downBlock" => count[arg[p]] = 0
  /\ pc[p] = "upInc" => waiting[arg[p]] = << >>
  /\ pc[p] = "upWake" => waiting[arg[p]] # << >>

Args == \A p \in Thread : ArgOf(p)

\* Interrupt handlers do not nest.
Depth == \A p \in Thread : iDepth[p] = IF irq[p] = "none" THEN 0 ELSE 1

\* No two reapers hold the same process, nor one that is still queued.
ReapedOnce ==
  /\ \A t \in Reaping : arg[t] \notin Range(reaperQueue)
  /\ \A t, u \in Reaping : arg[t] = arg[u] => t = u

\* A slot that is not in use, or whose process has exited, executes nothing.
Dead ==
  \A p \in Proc :
    /\ state[p] \in {"ABSENT", "TERMINATED"} =>
         p # current /\ yld[p] = "none" /\ irq[p] = "none"
    /\ pc[p] = "gone" => state[p] \in {"ABSENT", "TERMINATED"}

\* The inductive invariant.
IInv == /\ TypeOK /\ NoPanic /\ InterruptDiscipline /\ Depth
        /\ Control /\ Args /\ OneHome /\ ReapedOnce /\ Dead

----------------------------------------------------------------------------
(* What a step of put, in the handler of the keyboard, can be: the panic,  *)
(* a count that is decremented, or one that is given back.                 *)

Put(p) == PutEmpty(p) \/ PutLock(p) \/ PutUnlock(p) \/ PutFull(p)

Panics(p) ==
  /\ machine' = "halted"
  /\ HandlerBlocks(p)
  /\ UNCHANGED <<procVars, semVars, irq>>

Takes(p, s) ==
  /\ machine' = "up"
  /\ count[s] > 0
  /\ count' = [count EXCEPT ![s] = @ - 1]
  /\ held' = [held EXCEPT ![p] = @ \cup ({s} \cap Mutex)]
  /\ UNCHANGED <<procVars, waiting>>

Wakes(s) ==
  /\ waiting[s] # << >>
  /\ MakeReady(<<Head(waiting[s])>>)
  /\ waiting' = [waiting EXCEPT ![s] = Tail(@)]
  /\ UNCHANGED <<count, reaperQueue>>

Gives(p, s) ==
  /\ machine' = "up"
  /\ \/ /\ waiting[s] = << >>
        /\ count' = [count EXCEPT ![s] = @ + 1]
        /\ UNCHANGED <<procVars, waiting>>
     \/ Wakes(s)
  /\ held' = [held EXCEPT ![p] = @ \ {s}]
  /\ (s = mutex /\ irq[p] = "unlock") \/ s \in Sem

LEMMA PutSteps ==
  ASSUME TypeOK, Control, NEW p \in Thread, Put(p)
  PROVE  /\ nEmpty \in Sem /\ mutex \in Mutex /\ nFull \in Sem
         /\ machine = "up" /\ p = current /\ yld[p] = "none" /\ irq[p] \in Handling
         /\ UNCHANGED <<current, reaperQueue, disableCount, iDepth, intr, pc, arg, yld>>
         /\ irq' = [irq EXCEPT ![p] = irq'[p]] /\ irq'[p] \in Handling \cup {"yield"}
         /\ Panics(p) \/ \E s \in Semaphore : Takes(p, s) \/ Gives(p, s)
<1>1. irq[p] \in Handling /\ nEmpty \in Sem
  BY DEF Put, PutEmpty, PutLock, PutUnlock, PutFull, HandlerDown, HandlerUp, InIrq,
         Control, Handling
<1>2. mutex \in Mutex /\ nFull \in Sem
  BY <1>1, SemaphoreAssumption
<1>3. nEmpty \in Semaphore /\ mutex \in Semaphore /\ nFull \in Semaphore
  BY <1>1, <1>2 DEF Semaphore
<1>4. ASSUME NEW l, NEW s \in Semaphore, NEW next \in Handling \cup {"yield"},
             HandlerDown(p, l, s, next), irq[p] = l /\ count[s] = 0 => HandlerBlocks(p)
      PROVE  /\ machine = "up" /\ p = current /\ yld[p] = "none"
             /\ UNCHANGED <<current, reaperQueue, disableCount, iDepth, intr, pc, arg, yld>>
             /\ irq' = [irq EXCEPT ![p] = irq'[p]] /\ irq'[p] \in Handling \cup {"yield"}
             /\ Panics(p) \/ Takes(p, s)
  <2>1. CASE machine' = "halted" /\ count[s] = 0 /\ UNCHANGED <<count, held, irq>>
    BY <1>1, <1>4, <2>1 DEF HandlerDown, InIrq, Panics, procVars, semVars, TypeOK
  <2>2. CASE /\ count[s] > 0 /\ count' = [count EXCEPT ![s] = @ - 1]
             /\ held' = [held EXCEPT ![p] = @ \cup ({s} \cap Mutex)]
             /\ irq' = [irq EXCEPT ![p] = next] /\ UNCHANGED machine
    BY <1>4, <2>2 DEF HandlerDown, InIrq, Takes, procVars, TypeOK
  <2> QED BY <1>4, <2>1, <2>2 DEF HandlerDown
<1>5. ASSUME NEW l, NEW s \in Semaphore, NEW next \in Handling \cup {"yield"},
             HandlerUp(p, l, s, next), (s = mutex /\ l = "unlock") \/ s \in Sem
      PROVE  /\ machine = "up" /\ p = current /\ yld[p] = "none"
             /\ UNCHANGED <<current, reaperQueue, disableCount, iDepth, intr, pc, arg, yld>>
             /\ irq' = [irq EXCEPT ![p] = irq'[p]] /\ irq'[p] \in Handling \cup {"yield"}
             /\ Gives(p, s)
  BY <1>5 DEF HandlerUp, InIrq, Gives, Wakes, procVars, TypeOK
<1>6. CASE PutEmpty(p)
  <2>1. irq[p] = "device" /\ count[nEmpty] = 0 => HandlerBlocks(p)
    BY <1>1 DEF HandlerBlocks
  <2>2. HandlerDown(p, "device", nEmpty, "lock") /\ "lock" \in Handling
    BY <1>6 DEF PutEmpty, Handling
  <2> QED BY <1>1, <1>2, <1>3, <1>4, <2>1, <2>2
<1>7. CASE PutLock(p)
  <2>1. irq[p] = "lock" /\ count[mutex] = 0 => HandlerBlocks(p)
    BY DEF HandlerBlocks
  <2>2. HandlerDown(p, "lock", mutex, "unlock") /\ "unlock" \in Handling
    BY <1>7 DEF PutLock, Handling
  <2> QED BY <1>1, <1>2, <1>3, <1>4, <2>1, <2>2
<1>8. CASE PutUnlock(p)
  <2>1. HandlerUp(p, "unlock", mutex, "full") /\ "full" \in Handling
    BY <1>8 DEF PutUnlock, Handling
  <2> QED BY <1>1, <1>2, <1>3, <1>5, <2>1
<1>9. CASE PutFull(p)
  <2>1. HandlerUp(p, "full", nFull, "yield")
    BY <1>9 DEF PutFull
  <2> QED BY <1>1, <1>2, <1>3, <1>5, <2>1
<1> QED BY <1>6, <1>7, <1>8, <1>9 DEF Put

----------------------------------------------------------------------------
\* Where interrupts are enabled and where they are not, as facts that keep the
\* two sets closed to the provers.
LEMMA Points ==
  /\ \A l \in Open : l \notin Closed
  /\ "user" \in Open /\ "hlt" \in Open /\ "reap" \in Open /\ "unref" \in Open
  /\ "downTest" \in Closed /\ "downDec" \in Closed /\ "downBlock" \in Closed
  /\ "downEnd" \in Closed /\ "upTest" \in Closed /\ "upInc" \in Closed
  /\ "upWake" \in Closed /\ "sleepBlock" \in Closed /\ "ready" \in Closed
  /\ "exitPark" \in Closed /\ "gone" \in Closed /\ "reapTake" \in Closed
  /\ "reapEnd" \in Closed /\ "end" \in Closed
  BY DEF Open, Closed

\* For a step that changes the records of the running thread only, the pairing
\* is a matter of that thread.
LEMMA OwnLevels ==
  ASSUME InterruptDiscipline, Depth, NEW p \in Thread, p = current, current' = p,
         \A q \in Thread \ {p} : /\ disableCount'[q] = disableCount[q] /\ pc'[q] = pc[q]
                                 /\ irq'[q] = irq[q] /\ yld'[q] = yld[q]
                                 /\ iDepth'[q] = iDepth[q],
         machine' = "up",
         disableCount'[p] = Levels(p)',
         intr' = 1 <=> disableCount'[p] = 0,
         iDepth'[p] = IF irq'[p] = "none" THEN 0 ELSE 1
  PROVE  NoPanic' /\ InterruptDiscipline' /\ Depth'
<1>1. \A q \in Thread : disableCount'[q] = Levels(q)'
  BY DEF InterruptDiscipline, Levels
<1>2. \A q \in Thread : iDepth'[q] = IF irq'[q] = "none" THEN 0 ELSE 1
  BY DEF Depth
<1> QED BY <1>1, <1>2, ProcAssumption DEF NoPanic, InterruptDiscipline, Depth

\* A thread at level 0 disables interrupts.
LEMMA FirstLevel ==
  ASSUME TypeOK, machine = "up", InterruptDiscipline, Depth, NEW p \in Thread, p = current,
         irq[p] = "none", yld[p] = "none", pc[p] \in Open, pc'[p] \in Closed,
         Disable(p), \A q \in Thread \ {p} : pc'[q] = pc[q],
         UNCHANGED <<current, iDepth, irq, yld, machine>>
  PROVE  NoPanic' /\ InterruptDiscipline' /\ Depth'
<1>1. disableCount[p] = 0
  BY Points DEF InterruptDiscipline, Levels
<1>2. /\ disableCount'[p] = 1 /\ intr' = 0 /\ machine' = "up"
      /\ \A q \in Thread \ {p} : disableCount'[q] = disableCount[q]
  BY <1>1 DEF Disable, TypeOK
<1>3. Levels(p)' = 1
  BY DEF Levels
<1>4. iDepth'[p] = IF irq'[p] = "none" THEN 0 ELSE 1
  BY DEF Depth
<1> QED BY <1>2, <1>3, <1>4, OwnLevels

\* A thread gives one level back.
LEMMA LastLevel ==
  ASSUME TypeOK, InterruptDiscipline, Depth, NEW p \in Thread, p = current, Enable(p),
         Levels(p) = Levels(p)' + 1, Levels(p)' \in Nat,
         \A q \in Thread \ {p} : pc'[q] = pc[q] /\ yld'[q] = yld[q],
         UNCHANGED <<current, iDepth, irq>>
  PROVE  NoPanic' /\ InterruptDiscipline' /\ Depth'
<1>1. disableCount[p] = Levels(p) /\ intr \in {0, 1} /\ (intr = 1 => disableCount[p] = 0)
  BY DEF InterruptDiscipline, TypeOK
<1>2. /\ disableCount'[p] = Levels(p)' /\ machine' = "up"
      /\ intr' = 1 <=> disableCount'[p] = 0
      /\ \A q \in Thread \ {p} : disableCount'[q] = disableCount[q]
  BY <1>1 DEF Enable, TypeOK
<1>3. iDepth'[p] = IF irq'[p] = "none" THEN 0 ELSE 1
  BY DEF Depth
<1> QED BY <1>2, <1>3, OwnLevels

\* Every step keeps the pairing of disable with enable, and so leaves put as the
\* only routine that can panic.
LEMMA DisciplineStep ==
  ASSUME TypeOK, NoPanic, InterruptDiscipline, Depth, Control, Args, Dead, [Next]_vars
  PROVE  NoPanic' /\ InterruptDiscipline' /\ Depth'
<1> USE ProcAssumption, Points DEF Thread, TypeOK, InterruptDiscipline, Depth, NoPanic, Levels
<1>1. ASSUME NEW p \in Thread,
             DownTest(p) \/ DownDec(p) \/ UpTest(p) \/ UpInc(p) \/ UpWake(p) \/ ReapTake(p)
      PROVE  NoPanic' /\ InterruptDiscipline' /\ Depth'
  <2>1. CASE DownTest(p)
    BY <2>1 DEF DownTest, At, Goto
  <2>2. CASE DownDec(p)
    BY <2>2 DEF DownDec, At, Goto
  <2>3. CASE UpTest(p)
    BY <2>3 DEF UpTest, At, Goto
  <2>4. CASE UpInc(p)
    BY <2>4 DEF UpInc, At, Goto
  <2>5. CASE UpWake(p)
    BY <2>5 DEF UpWake, At, Goto
  <2>6. CASE ReapTake(p)
    BY <2>6 DEF ReapTake, At, Goto
  <2> QED BY <1>1, <2>1, <2>2, <2>3, <2>4, <2>5, <2>6
<1>2. ASSUME NEW p \in Thread, NEW s \in Semaphore, Down(p, s) \/ Up(p, s)
      PROVE  NoPanic' /\ InterruptDiscipline' /\ Depth'
  <2>1. CASE Down(p, s)
    BY <2>1, FirstLevel DEF Down, At, Goto
  <2>2. CASE Up(p, s)
    BY <2>2, FirstLevel DEF Up, At, Goto
  <2> QED BY <1>2, <2>1, <2>2
<1>3. ASSUME NEW p \in Thread, NEW d \in 0..MaxDelay, Sleep(p, d)
      PROVE  NoPanic' /\ InterruptDiscipline' /\ Depth'
  BY <1>3, FirstLevel DEF Sleep, At, Goto
<1>4. ASSUME NEW p \in Thread, NEW c \in Proc, Start(p, c)
      PROVE  NoPanic' /\ InterruptDiscipline' /\ Depth'
  BY <1>4, FirstLevel DEF Start, At, Goto
<1>5. ASSUME NEW p \in Thread, Exit(p) \/ Reap(p)
      PROVE  NoPanic' /\ InterruptDiscipline' /\ Depth'
  <2>1. CASE Exit(p)
    BY <2>1, FirstLevel DEF Exit, At, Goto
  <2>2. CASE Reap(p)
    BY <2>2, FirstLevel DEF Reap, At, Goto
  <2> QED BY <1>5, <2>1, <2>2
<1>6. ASSUME NEW p \in Thread, DownEnd(p) \/ End(p) \/ ReapEnd(p)
      PROVE  NoPanic' /\ InterruptDiscipline' /\ Depth'
  <2>1. CASE DownEnd(p)
    <3>1. /\ p = current /\ pc[p] \in Closed /\ pc'[p] \notin Closed
          /\ \A q \in Thread \ {p} : pc'[q] = pc[q]
          /\ Enable(p) /\ UNCHANGED <<current, iDepth, irq, yld>>
      BY <2>1 DEF DownEnd, At, Goto
    <3>2. Levels(p) = Levels(p)' + 1 /\ Levels(p)' \in Nat
      BY <3>1 DEF Levels
    <3> QED BY <3>1, <3>2, LastLevel
  <2>2. CASE End(p)
    <3>1. /\ p = current /\ pc[p] \in Closed /\ pc'[p] \notin Closed
          /\ \A q \in Thread \ {p} : pc'[q] = pc[q]
          /\ Enable(p) /\ UNCHANGED <<current, iDepth, irq, yld>>
      BY <2>2 DEF End, At, Goto
    <3>2. Levels(p) = Levels(p)' + 1 /\ Levels(p)' \in Nat
      BY <3>1 DEF Levels
    <3> QED BY <3>1, <3>2, LastLevel
  <2>3. CASE ReapEnd(p)
    <3>1. /\ p = current /\ pc[p] \in Closed /\ pc'[p] \notin Closed
          /\ \A q \in Thread \ {p} : pc'[q] = pc[q]
          /\ Enable(p) /\ UNCHANGED <<current, iDepth, irq, yld>>
      BY <2>3 DEF ReapEnd, At, Goto
    <3>2. Levels(p) = Levels(p)' + 1 /\ Levels(p)' \in Nat
      BY <3>1 DEF Levels
    <3> QED BY <3>1, <3>2, LastLevel
  <2> QED BY <1>6, <2>1, <2>2, <2>3
<1>7. ASSUME NEW p \in Thread, DownBlock(p) \/ SleepBlock(p)
      PROVE  NoPanic' /\ InterruptDiscipline' /\ Depth'
  <2>1. CASE DownBlock(p)
    <3>1. /\ p = current /\ irq[p] = "none" /\ yld[p] = "none"
          /\ pc[p] \in Closed /\ pc'[p] \in Closed /\ yld'[p] = "pick"
          /\ \A q \in Thread \ {p} : pc'[q] = pc[q] /\ yld'[q] = yld[q]
          /\ disableCount' = [disableCount EXCEPT ![p] = @ + 1] /\ intr' = 0
          /\ machine' = (IF iDepth[p] # 0 THEN "halted" ELSE "up")
          /\ UNCHANGED <<current, iDepth, irq>>
      BY <2>1 DEF DownBlock, At, Goto, YieldOn, Disable
    <3>2. /\ disableCount'[p] = 2 /\ Levels(p)' = 2 /\ iDepth[p] = 0 /\ machine' = "up"
          /\ \A q \in Thread \ {p} : disableCount'[q] = disableCount[q]
      BY <3>1
    <3>3. irq'[p] = "none" /\ iDepth'[p] = 0 /\ current' = p
      BY <3>1, <3>2
    <3> HIDE DEF TypeOK, Levels, NoPanic
    <3> QED BY <3>1, <3>2, <3>3, OwnLevels
  <2>2. CASE SleepBlock(p)
    <3>1. /\ p = current /\ irq[p] = "none" /\ yld[p] = "none"
          /\ pc[p] \in Closed /\ pc'[p] \in Closed /\ yld'[p] = "pick"
          /\ \A q \in Thread \ {p} : pc'[q] = pc[q] /\ yld'[q] = yld[q]
          /\ disableCount' = [disableCount EXCEPT ![p] = @ + 1] /\ intr' = 0
          /\ machine' = (IF iDepth[p] # 0 THEN "halted" ELSE "up")
          /\ UNCHANGED <<current, iDepth, irq>>
      BY <2>2 DEF SleepBlock, At, Goto, YieldOn, Disable
    <3>2. /\ disableCount'[p] = 2 /\ Levels(p)' = 2 /\ iDepth[p] = 0 /\ machine' = "up"
          /\ \A q \in Thread \ {p} : disableCount'[q] = disableCount[q]
      BY <3>1
    <3>3. irq'[p] = "none" /\ iDepth'[p] = 0 /\ current' = p
      BY <3>1, <3>2
    <3> HIDE DEF TypeOK, Levels, NoPanic
    <3> QED BY <3>1, <3>2, <3>3, OwnLevels
  <2> QED BY <1>7, <2>1, <2>2
<1>8. ASSUME NEW p \in Thread, Poll(p) \/ IrqYield(p)
      PROVE  NoPanic' /\ InterruptDiscipline' /\ Depth'
  <2>1. CASE Poll(p)
    BY <2>1, SMTT(40) DEF Poll, At, InIrq, YieldCpu, Disable
  <2>2. CASE IrqYield(p)
    <3>1. /\ p = current /\ irq[p] # "none" /\ irq'[p] = "end" /\ yld[p] = "none"
          /\ yld'[p] = "pick" /\ intr' = 0
          /\ disableCount' = [disableCount EXCEPT ![p] = @ + 1]
          /\ \A q \in Thread \ {p} : irq'[q] = irq[q] /\ yld'[q] = yld[q]
          /\ machine = "up" /\ UNCHANGED <<current, pc, iDepth, machine>>
      BY <2>2 DEF IrqYield, InIrq, YieldCpu, Disable
    <3>2. disableCount[p] = Levels(p) /\ Levels(p)' = Levels(p) + 1 /\ Levels(p) \in Nat
      BY <3>1, SMTT(40) DEF Levels
    <3>3. /\ iDepth'[p] = 1 /\ current' = p /\ machine' = "up"
          /\ disableCount'[p] = Levels(p)' /\ disableCount'[p] # 0
          /\ \A q \in Thread \ {p} : disableCount'[q] = disableCount[q]
      BY <3>1, <3>2
    <3> HIDE DEF TypeOK, Levels, NoPanic
    <3> QED BY <3>1, <3>3, OwnLevels
  <2> QED BY <1>8, <2>1, <2>2
<1>9. ASSUME NEW p \in Thread, Unref(p)
      PROVE  NoPanic' /\ InterruptDiscipline' /\ Depth'
  BY <1>9, SMTT(40) DEF Unref, At, Goto
<1>10. ASSUME NEW p \in Thread, StartReady(p)
      PROVE  NoPanic' /\ InterruptDiscipline' /\ Depth'
  <2> DEFINE q == arg[p]
  <2>1. /\ p = current /\ pc[p] = "ready" /\ irq[p] = "none" /\ yld[p] = "none" /\ machine = "up"
        /\ q \in Proc /\ q # p /\ irq[q] = "none" /\ yld[q] = "none"
    BY <1>10 DEF StartReady, At, Args, ArgOf, Dead
  <2>2. /\ \A t \in Thread : pc'[t] = IF t = q THEN "reap" ELSE IF t = p THEN "end" ELSE pc[t]
        /\ \A t \in Thread : disableCount'[t] = IF t = q THEN 0 ELSE disableCount[t]
        /\ UNCHANGED <<current, iDepth, intr, irq, yld, machine>>
    BY <1>10, <2>1 DEF StartReady
  <2> HIDE DEF q
  <2>3. \A t \in Thread : Levels(t)' = IF t = q THEN 0 ELSE Levels(t)
    <3> HIDE DEF TypeOK, InterruptDiscipline, NoPanic, Depth
    <3>1. ASSUME NEW t \in Thread, t = q PROVE Levels(t)' = 0
      <4>1. pc'[t] = "reap" /\ irq'[t] = "none" /\ yld'[t] = "none"
        BY <2>1, <2>2, <3>1
      <4> QED BY <4>1 DEF Levels
    <3>2. ASSUME NEW t \in Thread, t = p, t # q PROVE Levels(t)' = Levels(t)
      BY <2>1, <2>2, <3>2 DEF Levels
    <3>3. ASSUME NEW t \in Thread, t # q, t # p PROVE Levels(t)' = Levels(t)
      BY <2>2, <3>3 DEF Levels
    <3> HIDE DEF Levels
    <3> QED BY <3>1, <3>2, <3>3
  <2>4. NoPanic' /\ Depth'
    BY <2>1, <2>2 DEF NoPanic, Depth
  <2> HIDE DEF Levels, TypeOK, NoPanic, Depth
  <2>5. \A t \in Thread : disableCount'[t] = Levels(t)'
    BY <2>2, <2>3
  <2>6. intr' = 1 <=> (current' # NoProc /\ disableCount'[current'] = 0)
    BY <2>1, <2>2
  <2> QED BY <2>4, <2>5, <2>6
<1>11. ASSUME NEW p \in Thread, ExitPark(p)
      PROVE  NoPanic' /\ InterruptDiscipline' /\ Depth'
  BY <1>11, SMTT(40) DEF ExitPark, At, Goto
<1>12. ASSUME NEW p \in Thread, YieldReturn(p)
      PROVE  NoPanic' /\ InterruptDiscipline' /\ Depth'
  <2>1. /\ p = current /\ yld[p] = "back" /\ yld' = [yld EXCEPT ![p] = "none"] /\ Enable(p)
        /\ UNCHANGED <<current, pc, iDepth, irq>>
    BY <1>12 DEF YieldReturn
  <2>2. Levels(p) = Levels(p)' + 1 /\ Levels(p)' \in Nat
    BY <2>1
  <2> QED BY <2>1, <2>2, LastLevel
<1>13. ASSUME NEW p \in Thread, Tick(p)
      PROVE  NoPanic' /\ InterruptDiscipline' /\ Depth'
  BY <1>13 DEF Tick, InIrq
<1>14. ASSUME NEW p \in Thread, EndIrq(p)
      PROVE  NoPanic' /\ InterruptDiscipline' /\ Depth'
  BY <1>14, SMTT(40) DEF EndIrq, InIrq, Control
<1>15. CASE Dispatch
  <2>1. /\ current' \in Thread
        /\ intr' = IF current' = current THEN intr ELSE IF disableCount[current'] = 0 THEN 1 ELSE 0
        /\ \A q \in Thread : (yld[q] = "none") <=> (yld'[q] = "none")
    <3>1. current' \in Thread
      BY <1>15, QueueTail DEF Dispatch
    <3>2. current = NoProc \/ yld[current] = "pick"
      BY <1>15 DEF Dispatch, Picking
    <3>3. \A q \in Thread : yld'[q] = IF q = current THEN "back" ELSE yld[q]
      BY <1>15 DEF Dispatch
    <3>4. intr' = IF current' = current THEN intr
                  ELSE IF disableCount[current'] = 0 THEN 1 ELSE 0
      BY <1>15 DEF Dispatch
    <3> QED BY <3>1, <3>2, <3>3, <3>4, SMTT(40)
  <2>2. machine = "up" /\ UNCHANGED <<disableCount, iDepth, pc, irq, machine>>
    BY <1>15 DEF Dispatch
  <2> QED BY <2>1, <2>2, SMTT(40)
<1>16. ASSUME NEW k \in {"tick", "device"}, Irq(k)
      PROVE  NoPanic' /\ InterruptDiscipline' /\ Depth'
  <2>1. PICK p \in Thread : p = current /\ disableCount[p] = 0
    BY <1>16 DEF Irq
  <2>2. pc[p] \notin Closed /\ irq[p] = "none" /\ yld[p] = "none"
    <3>1. 0 = (IF pc[p] \in Closed THEN 1 ELSE 0) + (IF irq[p] # "none" THEN 1 ELSE 0)
              + (IF yld[p] # "none" THEN 1 ELSE 0)
      BY <2>1
    <3> QED BY ONLY <3>1
  <2>3. /\ irq' = [irq EXCEPT ![p] = k] /\ iDepth' = [iDepth EXCEPT ![p] = @ + 1]
        /\ disableCount' = [disableCount EXCEPT ![p] = 1]
        /\ machine' = "up" /\ intr' = 0 /\ UNCHANGED <<current, pc, yld>>
    BY <1>16, <2>1 DEF Irq
  <2> QED BY <2>1, <2>2, <2>3, SMTT(40)
<1>17. CASE UNCHANGED vars
  BY <1>17 DEF vars, HandlerBlocks, semVars
<1>18. ASSUME NEW p \in Thread, Put(p)
      PROVE  NoPanic' /\ InterruptDiscipline' /\ Depth'
  <2>1. /\ p = current /\ irq[p] # "none" /\ irq'[p] # "none" /\ yld[p] = "none"
        /\ UNCHANGED <<current, disableCount, iDepth, intr, pc, yld>>
        /\ irq' = [irq EXCEPT ![p] = irq'[p]]
        /\ Panics(p) \/ machine' = "up"
    BY <1>18, PutSteps DEF Handling, Takes, Gives
  <2>2. \A q \in Thread : irq[q] = "none" <=> irq'[q] = "none"
    BY <2>1
  <2>3. InterruptDiscipline' /\ Depth'
    BY <2>1, <2>2
  <2>4. NoPanic'
    BY <2>1 DEF Panics, HandlerBlocks, semVars
  <2> QED BY <2>3, <2>4
<1> QED
  BY <1>1, <1>2, <1>3, <1>4, <1>5, <1>6, <1>7, <1>8, <1>9, <1>10, <1>11, <1>12,
     <1>13, <1>14, <1>15, <1>16, <1>17, <1>18
     DEF Next, Kernel, Interrupt, Call, Step, Put

\* Every step keeps the activation records combined in the ways listed.
LEMMA ControlStep ==
  ASSUME TypeOK, InterruptDiscipline, Control, Args, OneHome, Dead, [Next]_vars
  PROVE  Control'
<1> USE ProcAssumption, Points DEF Thread, TypeOK, Control, Handling
<1>1. ASSUME NEW p \in Thread,
             DownTest(p) \/ DownDec(p) \/ UpTest(p) \/ UpInc(p) \/ UpWake(p) \/ ReapTake(p)
      PROVE  Control'
  <2>1. CASE DownTest(p)
    BY <2>1 DEF DownTest, At, Goto
  <2>2. CASE DownDec(p)
    BY <2>2 DEF DownDec, At, Goto
  <2>3. CASE UpTest(p)
    BY <2>3 DEF UpTest, At, Goto
  <2>4. CASE UpInc(p)
    BY <2>4 DEF UpInc, At, Goto
  <2>5. CASE UpWake(p)
    BY <2>5 DEF UpWake, At, Goto
  <2>6. CASE ReapTake(p)
    BY <2>6 DEF ReapTake, At, Goto
  <2> QED BY <1>1, <2>1, <2>2, <2>3, <2>4, <2>5, <2>6
<1>2. ASSUME NEW p \in Thread, NEW s \in Semaphore, Down(p, s) \/ Up(p, s)
      PROVE  Control'
  <2>1. CASE Down(p, s)
    BY <2>1 DEF Down, At, Goto
  <2>2. CASE Up(p, s)
    BY <2>2 DEF Up, At, Goto
  <2> QED BY <1>2, <2>1, <2>2
<1>3. ASSUME NEW p \in Thread, NEW d \in 0..MaxDelay, Sleep(p, d)
      PROVE  Control'
  BY <1>3 DEF Sleep, At, Goto
<1>4. ASSUME NEW p \in Thread, NEW c \in Proc, Start(p, c)
      PROVE  Control'
  BY <1>4 DEF Start, At, Goto
<1>5. ASSUME NEW p \in Thread, Exit(p) \/ Reap(p)
      PROVE  Control'
  <2>1. CASE Exit(p)
    BY <2>1 DEF Exit, At, Goto
  <2>2. CASE Reap(p)
    BY <2>2 DEF Reap, At, Goto
  <2> QED BY <1>5, <2>1, <2>2
<1>6. ASSUME NEW p \in Thread, DownEnd(p) \/ End(p) \/ ReapEnd(p)
      PROVE  Control'
  <2>1. CASE DownEnd(p)
    BY <2>1 DEF DownEnd, At, Goto
  <2>2. CASE End(p)
    BY <2>2 DEF End, At, Goto
  <2>3. CASE ReapEnd(p)
    BY <2>3 DEF ReapEnd, At, Goto
  <2> QED BY <1>6, <2>1, <2>2, <2>3
<1>7. ASSUME NEW p \in Thread, DownBlock(p) \/ SleepBlock(p)
      PROVE  Control'
  <2>1. CASE DownBlock(p)
    BY <2>1 DEF DownBlock, At, Goto, YieldOn
  <2>2. CASE SleepBlock(p)
    BY <2>2 DEF SleepBlock, At, Goto, YieldOn
  <2> QED BY <1>7, <2>1, <2>2
<1>8. ASSUME NEW p \in Thread, Poll(p) \/ IrqYield(p)
      PROVE  Control'
  <2>1. CASE Poll(p)
    BY <2>1 DEF Poll, At, InIrq, YieldCpu
  <2>2. CASE IrqYield(p)
    BY <2>2 DEF IrqYield, At, InIrq, YieldCpu
  <2> QED BY <1>8, <2>1, <2>2
<1>9. ASSUME NEW p \in Thread, Unref(p)
      PROVE  Control'
  BY <1>9 DEF Unref, At, Goto
<1>10. ASSUME NEW p \in Thread, StartReady(p)
      PROVE  Control'
  BY <1>10 DEF StartReady, At, Args, ArgOf, Dead
<1>11. ASSUME NEW p \in Thread, ExitPark(p)
      PROVE  Control'
  BY <1>11 DEF ExitPark, At, Goto
<1>12. ASSUME NEW p \in Thread, YieldReturn(p)
      PROVE  Control'
  BY <1>12 DEF YieldReturn, Enable
<1>13. ASSUME NEW p \in Thread, Tick(p)
      PROVE  Control'
  BY <1>13 DEF Tick, InIrq
<1>14. ASSUME NEW p \in Thread, EndIrq(p)
      PROVE  Control'
  BY <1>14 DEF EndIrq, InIrq
<1>15. CASE Dispatch
  <2>1. /\ current' \in Thread
        /\ yld' = [q \in Thread |-> IF q = current THEN "back" ELSE yld[q]]
        /\ current = NoProc \/ yld[current] = "pick"
        /\ pc[current'] # "gone"
    BY <1>15, QueueTail DEF Dispatch, Picking, OneHome, Placed, Dead
  <2>2. UNCHANGED <<pc, irq>>
    BY <1>15 DEF Dispatch
  <2> QED BY <2>1, <2>2
<1>16. ASSUME NEW k \in {"tick", "device"}, Irq(k)
      PROVE  Control'
  <2>1. PICK p \in Thread : p = current /\ disableCount[p] = 0
    BY <1>16 DEF Irq, InterruptDiscipline
  <2>2. pc[p] \notin Closed /\ irq[p] = "none" /\ yld[p] = "none"
    <3>1. 0 = (IF pc[p] \in Closed THEN 1 ELSE 0) + (IF irq[p] # "none" THEN 1 ELSE 0)
              + (IF yld[p] # "none" THEN 1 ELSE 0)
      BY <2>1 DEF InterruptDiscipline, Levels
    <3> QED BY ONLY <3>1
  <2>3. irq' = [irq EXCEPT ![p] = k] /\ UNCHANGED <<current, pc, yld>>
    BY <1>16, <2>1 DEF Irq
  <2> QED BY <2>1, <2>2, <2>3
<1>17. CASE UNCHANGED vars
  BY <1>17 DEF vars
<1>18. ASSUME NEW p \in Thread, Put(p)
      PROVE  Control'
  <2>1. /\ nEmpty \in Sem /\ yld[p] = "none" /\ irq[p] \in Handling
        /\ UNCHANGED <<current, pc, yld>>
        /\ irq' = [irq EXCEPT ![p] = irq'[p]] /\ irq'[p] \in Handling \cup {"yield"}
    BY <1>18, PutSteps
  <2>2. irq[p] # "none" /\ irq'[p] # "none"
    BY <2>1 DEF Handling
  <2> QED BY <2>1, <2>2
<1> QED
  BY <1>1, <1>2, <1>3, <1>4, <1>5, <1>6, <1>7, <1>8, <1>9, <1>10, <1>11, <1>12,
     <1>13, <1>14, <1>15, <1>16, <1>17, <1>18
     DEF Next, Kernel, Interrupt, Call, Step, Put

\* Every step keeps every variable in its type.
LEMMA TypeStep ==
  ASSUME TypeOK, InterruptDiscipline, Depth, Control, Args, [Next]_vars
  PROVE  TypeOK'
<1> USE ProcAssumption, Points DEF Thread, TypeOK
<1>1. ASSUME NEW p \in Thread, DownTest(p) \/ UpTest(p)
      PROVE  TypeOK'
  <2>1. CASE DownTest(p)
    BY <2>1 DEF DownTest, At, Goto, procVars, semVars
  <2>2. CASE UpTest(p)
    BY <2>2 DEF UpTest, At, Goto, procVars, semVars
  <2> QED BY <1>1, <2>1, <2>2
<1>2. ASSUME NEW p \in Thread, DownDec(p)
      PROVE  TypeOK'
  <2>1. arg[p] \in Semaphore /\ count[arg[p]] \in Nat \ {0}
    BY <1>2 DEF DownDec, At, Args, ArgOf, Semaphoring
  <2> QED BY <1>2, <2>1, SMTT(40) DEF DownDec, At, Goto, procVars
<1>3. ASSUME NEW p \in Thread, UpInc(p)
      PROVE  TypeOK'
  <2>1. arg[p] \in Semaphore /\ count[arg[p]] \in Nat
    BY <1>3 DEF UpInc, At, Args, ArgOf, Semaphoring
  <2>2. /\ p = current /\ count' = [count EXCEPT ![arg[p]] = @ + 1] /\ pc' = [pc EXCEPT ![p] = "end"]
        /\ UNCHANGED <<current, state, readyQueue, reaperQueue, waiting, held, disableCount,
                       iDepth, intr, arg, irq, yld, machine>>
    BY <1>3 DEF UpInc, At, Goto, procVars
  <2>3. count' \in [Semaphore -> Nat]
    BY <2>1, <2>2
  <2>4. pc' \in [Thread -> Open \cup Closed]
    BY <2>2
  <2> QED BY <2>2, <2>3, <2>4
<1>4. ASSUME NEW p \in Thread, UpWake(p)
      PROVE  TypeOK'
  <2> DEFINE w == waiting[arg[p]]
  <2>1. arg[p] \in Queue /\ w \in Seq(Proc) /\ w # << >>
    BY <1>4 DEF UpWake, At, Args, ArgOf, Semaphoring, Queue
  <2>2. Head(w) \in Proc /\ Tail(w) \in Seq(Proc)
    BY <2>1, QueueTail
  <2>3. <<Head(w)>> \in Seq(Proc) /\ readyQueue \o <<Head(w)>> \in Seq(Proc)
    BY <2>2, QueueOne, QueueConcat
  <2> HIDE DEF w
  <2>4. readyQueue' \in Seq(Proc) /\ state' \in [Thread -> States]
    BY <1>4, <2>3 DEF UpWake, MakeReady, w, States
  <2>5. waiting' \in [Queue -> Seq(Proc)]
    BY <1>4, <2>1, <2>2 DEF UpWake, w
  <2> QED BY <1>4, <2>4, <2>5 DEF UpWake, At, Goto
<1>5. ASSUME NEW p \in Thread, ReapTake(p)
      PROVE  TypeOK'
  <2>1. reaperQueue # << >> => Head(reaperQueue) \in Proc /\ Tail(reaperQueue) \in Seq(Proc)
    BY QueueTail
  <2> QED BY <1>5, <2>1 DEF ReapTake, At, Goto, semVars
<1>6. ASSUME NEW p \in Thread, NEW s \in Semaphore, Down(p, s) \/ Up(p, s)
      PROVE  TypeOK'
  <2>1. s \in Queue
    BY DEF Queue
  <2>2. /\ pc' \in [Thread -> Open \cup Closed]
        /\ arg' \in [Thread -> Queue \cup Proc \cup {NoProc}]
        /\ disableCount' \in [Thread -> Nat] /\ intr' \in {0, 1}
        /\ UNCHANGED <<current, procVars, waiting, count, iDepth, irq, yld, machine>>
    <3>1. CASE Down(p, s)
      BY <3>1, <2>1, SMTT(40) DEF Down, Goto, Disable, semVars
    <3>2. CASE Up(p, s)
      BY <3>2, <2>1, SMTT(40) DEF Up, Goto, Disable
    <3> QED BY <1>6, <3>1, <3>2
  <2>3. held' \in [Thread -> SUBSET Mutex]
    BY <1>6 DEF Down, Up, semVars
  <2> QED BY <2>2, <2>3 DEF procVars
<1>7. ASSUME NEW p \in Thread, NEW d \in 0..MaxDelay, Sleep(p, d)
      PROVE  TypeOK'
  <2>1. /\ d # 0 => d \in Queue
        /\ pc' \in [Thread -> Open \cup Closed]
    BY <1>7 DEF Sleep, At, Goto, Queue, Timer
  <2>2. /\ arg' \in [Thread -> Queue \cup Proc \cup {NoProc}]
        /\ disableCount' \in [Thread -> Nat] /\ intr' \in {0, 1}
        /\ UNCHANGED <<current, procVars, semVars, iDepth, irq, yld, machine>>
    BY <1>7, <2>1, SMTT(40) DEF Sleep, Disable
  <2> QED BY <2>1, <2>2 DEF procVars, semVars
<1>8. ASSUME NEW p \in Thread, NEW c \in Proc, Start(p, c)
      PROVE  TypeOK'
  BY <1>8, SMTT(40) DEF Start, At, Goto, Disable, procVars, semVars
<1>9. ASSUME NEW p \in Thread, Exit(p) \/ Reap(p)
      PROVE  TypeOK'
  <2>1. CASE Exit(p)
    BY <2>1 DEF Exit, At, Goto, Disable, procVars, semVars
  <2>2. CASE Reap(p)
    BY <2>2 DEF Reap, At, Goto, Disable, procVars, semVars
  <2> QED BY <1>9, <2>1, <2>2
<1>10. ASSUME NEW p \in Thread, DownEnd(p) \/ End(p) \/ ReapEnd(p)
      PROVE  TypeOK'
  <2>1. CASE DownEnd(p)
    <3>1. held' \in [Thread -> SUBSET Mutex]
      BY <2>1 DEF DownEnd
    <3>2. /\ disableCount' \in [Thread -> Nat] /\ intr' \in {0, 1}
          /\ machine' \in {"up", "halted"}
      BY <2>1 DEF DownEnd, Enable
    <3>3. pc' \in [Thread -> Open \cup Closed] /\ arg' \in [Thread -> Queue \cup Proc \cup {NoProc}]
      BY <2>1 DEF DownEnd, Goto
    <3> QED BY <2>1, <3>1, <3>2, <3>3 DEF DownEnd, procVars
  <2>2. CASE End(p)
    BY <2>2, SMTT(40) DEF End, At, Goto, Enable, procVars, semVars
  <2>3. CASE ReapEnd(p)
    BY <2>3 DEF ReapEnd, At, Goto, Enable, procVars, semVars
  <2> QED BY <1>10, <2>1, <2>2, <2>3
<1>11. ASSUME NEW p \in Thread, DownBlock(p) \/ SleepBlock(p)
      PROVE  TypeOK'
  <2>1. p \in Proc /\ arg[p] \in Queue
    BY <1>11 DEF DownBlock, SleepBlock, At, Args, ArgOf, Control, Semaphoring, Queue
  <2>2. Append(waiting[arg[p]], p) \in Seq(Proc)
    BY <2>1, QueueAppend
  <2>3. CASE DownBlock(p)
    BY <2>1, <2>2, <2>3 DEF DownBlock, At, Goto, YieldOn, Disable, States
  <2>4. CASE SleepBlock(p)
    BY <2>1, <2>2, <2>4 DEF SleepBlock, At, Goto, YieldOn, Disable, States
  <2> QED BY <1>11, <2>3, <2>4
<1>12. ASSUME NEW p \in Thread, Poll(p) \/ IrqYield(p)
      PROVE  TypeOK'
  <2>1. /\ state' = [q \in Thread |-> IF q \in Range(<<p>>) THEN "READY" ELSE state[q]]
        /\ readyQueue' = IF <<p>> = <<Idle>> THEN readyQueue ELSE readyQueue \o <<p>>
    BY <1>12 DEF Poll, IrqYield, YieldCpu, MakeReady
  <2>2. readyQueue' \in Seq(Proc) /\ state' \in [Thread -> States]
    <3>1. CASE p = Idle
      BY <2>1, <3>1 DEF States
    <3>2. CASE p # Idle
      BY <2>1, <3>2, QueueOne, QueueConcat DEF States
    <3> QED BY <3>1, <3>2
  <2>3. CASE Poll(p)
    BY <2>2, <2>3, SMTT(40) DEF Poll, At, YieldCpu, Disable
  <2>4. CASE IrqYield(p)
    BY <2>2, <2>4, SMTT(40) DEF IrqYield, InIrq, YieldCpu, Disable
  <2> QED BY <1>12, <2>3, <2>4
<1>13. ASSUME NEW p \in Thread, Unref(p)
      PROVE  TypeOK'
  BY <1>13 DEF Unref, At, Goto, semVars, States
<1>14. ASSUME NEW p \in Thread, StartReady(p)
      PROVE  TypeOK'
  <2>1. arg[p] \in Proc
    BY <1>14 DEF StartReady, At, Args, ArgOf
  <2>2. readyQueue \o <<arg[p]>> \in Seq(Proc)
    BY <2>1, QueueOne, QueueConcat
  <2>3. readyQueue' \in Seq(Proc) /\ state' \in [Thread -> States]
    BY <1>14, <2>2 DEF StartReady, MakeReady, States
  <2> QED BY <1>14, <2>1, <2>3 DEF StartReady, At, semVars
<1>15. ASSUME NEW p \in Thread, ExitPark(p)
      PROVE  TypeOK'
  <2>1. p \in Proc
    BY <1>15 DEF ExitPark, At, Control
  <2>2. Append(reaperQueue, p) \in Seq(Proc)
    BY <2>1, QueueAppend
  <2> QED BY <1>15, <2>2 DEF ExitPark, At, Goto, semVars, States
<1>16. ASSUME NEW p \in Thread, YieldReturn(p)
      PROVE  TypeOK'
  <2>1. state' \in [Thread -> States] /\ reaperQueue' \in Seq(Proc)
    BY <1>16, QueueEmpty DEF YieldReturn, States
  <2> QED BY <1>16, <2>1 DEF YieldReturn, Enable, semVars
<1>17. ASSUME NEW p \in Thread, Tick(p)
      PROVE  TypeOK'
  <2>1. \A q \in Queue \ Semaphore : q # MaxDelay => q + 1 \in Queue
    BY DelayAssumption, SMTT(40) DEF Queue, Timer
  <2>2. waiting' \in [Queue -> Seq(Proc)]
    BY <1>17, <2>1, QueueEmpty DEF Tick
  <2>3. CASE MaxDelay = 0
    <3>1. readyQueue \o << >> \in Seq(Proc) /\ << >> # <<Idle>>
      BY QueueEmpty, QueueConcat
    <3>2. readyQueue' \in Seq(Proc) /\ state' \in [Thread -> States]
      BY <1>17, <2>3, <3>1 DEF Tick, MakeReady, States
    <3> QED BY <1>17, <2>2, <3>2 DEF Tick, InIrq
  <2>4. CASE MaxDelay # 0
    <3>1. 1 \in Queue
      BY <2>4, DelayAssumption DEF Queue, Timer
    <3>2. readyQueue \o waiting[1] \in Seq(Proc)
      BY <3>1, QueueConcat
    <3>3. readyQueue' \in Seq(Proc) /\ state' \in [Thread -> States]
      BY <1>17, <2>4, <3>2 DEF Tick, MakeReady, States
    <3> QED BY <1>17, <2>2, <3>3 DEF Tick, InIrq
  <2> QED BY <2>3, <2>4
<1>18. ASSUME NEW p \in Thread, EndIrq(p)
      PROVE  TypeOK'
  BY <1>18, SMTT(40) DEF EndIrq, InIrq, Depth, procVars, semVars
<1>19. CASE Dispatch
  <2>1. /\ current' \in Thread
        /\ readyQueue' \in Seq(Proc)
    BY <1>19, QueueTail, QueueEmpty DEF Dispatch
  <2>2. yld' \in [Thread -> {"none", "pick", "back"}] /\ intr' \in {0, 1}
    BY <1>19 DEF Dispatch
  <2>3. state' \in [Thread -> States]
    BY <1>19, <2>1 DEF Dispatch, States
  <2> QED BY <1>19, <2>1, <2>2, <2>3 DEF Dispatch, semVars
<1>20. ASSUME NEW k \in {"tick", "device"}, Irq(k)
      PROVE  TypeOK'
  <2>1. current \in Thread
    BY <1>20 DEF Irq, InterruptDiscipline
  <2>2. /\ irq' = [irq EXCEPT ![current] = k] /\ iDepth' = [iDepth EXCEPT ![current] = @ + 1]
        /\ disableCount' = [disableCount EXCEPT ![current] = 1]
        /\ machine' \in {"up", "halted"} /\ intr' = 0
    BY <1>20, <2>1 DEF Irq
  <2>3. UNCHANGED <<current, procVars, semVars, pc, arg, yld>>
    BY <1>20 DEF Irq
  <2> QED BY <2>1, <2>2, <2>3, SMTT(40) DEF procVars, semVars
<1>21. CASE UNCHANGED vars
  BY <1>21 DEF vars, procVars, semVars
<1>22. ASSUME NEW p \in Thread, Put(p)
      PROVE  TypeOK'
  <2>1. /\ irq' = [irq EXCEPT ![p] = irq'[p]] /\ irq'[p] \in Handling \cup {"yield"}
        /\ UNCHANGED <<current, reaperQueue, disableCount, iDepth, intr, pc, arg, yld>>
    BY <1>22, PutSteps
  <2>2. irq' \in [Thread -> {"none", "tick", "device", "lock", "unlock", "full", "yield", "end"}]
    BY <2>1 DEF Handling
  <2>3. CASE Panics(p)
    BY <2>1, <2>2, <2>3 DEF Panics, procVars, semVars
  <2>4. ASSUME NEW s \in Semaphore, Takes(p, s)
        PROVE  TypeOK'
    <3>1. count' \in [Semaphore -> Nat] /\ held' \in [Thread -> SUBSET Mutex]
      BY <2>4, SMTT(40) DEF Takes
    <3> QED BY <2>1, <2>2, <2>4, <3>1 DEF Takes, procVars
  <2>5. ASSUME NEW s \in Semaphore, Gives(p, s)
        PROVE  TypeOK'
    <3>1. held' \in [Thread -> SUBSET Mutex] /\ machine' = "up"
      BY <2>5 DEF Gives
    <3>2. CASE Wakes(s)
      <4>1. /\ s \in Queue /\ Head(waiting[s]) \in Proc
            /\ Tail(waiting[s]) \in Seq(Proc)
        BY <3>2, QueueTail DEF Wakes, Queue
      <4>2. readyQueue \o <<Head(waiting[s])>> \in Seq(Proc)
        BY <4>1, QueueOne, QueueConcat
      <4>3. readyQueue' \in Seq(Proc) /\ state' \in [Thread -> States]
        BY <3>2, <4>2 DEF Wakes, MakeReady, States
      <4>4. waiting' \in [Queue -> Seq(Proc)] /\ UNCHANGED count
        BY <3>2, <4>1 DEF Wakes
      <4> QED BY <2>1, <2>2, <3>1, <4>3, <4>4
    <3>3. CASE ~ Wakes(s)
      <4>1. count' \in [Semaphore -> Nat]
        BY <2>5, <3>3, SMTT(40) DEF Gives
      <4> QED BY <2>1, <2>2, <2>5, <3>1, <3>3, <4>1 DEF Gives, procVars
    <3> QED BY <3>2, <3>3
  <2> QED BY <1>22, PutSteps, <2>3, <2>4, <2>5
<1> QED
  BY <1>1, <1>2, <1>3, <1>4, <1>5, <1>6, <1>7, <1>8, <1>9, <1>10, <1>11, <1>12,
     <1>13, <1>14, <1>15, <1>16, <1>17, <1>18, <1>19, <1>20, <1>21, <1>22
     DEF Next, Kernel, Interrupt, Call, Step, Put

\* The same for the control points at which a thread can be preempted.
LEMMA RestingPoints ==
  /\ \A l \in Open : l \in Resting
  /\ "downEnd" \in Resting /\ "end" \in Resting /\ "gone" \in Resting
  /\ \A l \in Resting :
       /\ l \in Semaphoring => l = "downEnd"
       /\ l \notin {"sleepBlock", "ready", "reapEnd", "downDec", "downBlock", "upInc", "upWake"}
  BY DEF Resting, Open, Semaphoring

\* A thread that is not running its own code is at rest.
LEMMA OthersRest ==
  ASSUME TypeOK, Control, NEW q \in Thread,
         q # current \/ irq[q] # "none" \/ yld[q] # "none"
  PROVE  pc[q] \in Resting
<1>1. pc[q] \in Open \/ pc[q] \in {"user", "downEnd", "end", "reap", "gone"}
  BY DEF Control
<1> QED BY <1>1, RestingPoints, Points

\* Nothing that can change while a thread is at rest concerns its argument.
LEMMA RestingArg ==
  ASSUME NEW q \in Thread, ArgOf(q), pc[q] \in Resting, pc'[q] = pc[q], arg'[q] = arg[q]
  PROVE  ArgOf(q)'
  BY RestingPoints DEF ArgOf

\* Every step keeps what the calls in progress know of their arguments: the one
\* that is running is the only one that has tested anything.
LEMMA ArgsStep ==
  ASSUME TypeOK, InterruptDiscipline, Control, Args, Dead, [Next]_vars
  PROVE  Args'
<1> USE ProcAssumption DEF Thread, TypeOK, Args
<1>1. ASSUME NEW p \in Thread,
             DownTest(p) \/ UpTest(p) \/ DownDec(p) \/ UpInc(p) \/ UpWake(p)
      PROVE  Args'
  <2>1. CASE DownTest(p)
    <3>1. ArgOf(p)'
      BY <2>1 DEF DownTest, At, Goto, ArgOf, Semaphoring, semVars
    <3>2. \A q \in Thread \ {p} : pc'[q] = pc[q] /\ arg'[q] = arg[q] /\ q # current
      BY <2>1 DEF DownTest, At, Goto
    <3> QED BY <3>1, <3>2, OthersRest, RestingArg
  <2>2. CASE UpTest(p)
    <3>1. ArgOf(p)'
      BY <2>2 DEF UpTest, At, Goto, ArgOf, Semaphoring, semVars
    <3>2. \A q \in Thread \ {p} : pc'[q] = pc[q] /\ arg'[q] = arg[q] /\ q # current
      BY <2>2 DEF UpTest, At, Goto
    <3> QED BY <3>1, <3>2, OthersRest, RestingArg
  <2>3. CASE DownDec(p)
    <3>1. ArgOf(p)'
      BY <2>3 DEF DownDec, At, Goto, ArgOf, Semaphoring, semVars
    <3>2. \A q \in Thread \ {p} : pc'[q] = pc[q] /\ arg'[q] = arg[q] /\ q # current
      BY <2>3 DEF DownDec, At, Goto
    <3> QED BY <3>1, <3>2, OthersRest, RestingArg
  <2>4. CASE UpInc(p)
    <3>1. ArgOf(p)'
      BY <2>4 DEF UpInc, At, Goto, ArgOf, Semaphoring, semVars
    <3>2. \A q \in Thread \ {p} : pc'[q] = pc[q] /\ arg'[q] = arg[q] /\ q # current
      BY <2>4 DEF UpInc, At, Goto
    <3> QED BY <3>1, <3>2, OthersRest, RestingArg
  <2>5. CASE UpWake(p)
    <3>1. ArgOf(p)'
      BY <2>5 DEF UpWake, At, Goto, ArgOf, Semaphoring, semVars
    <3>2. \A q \in Thread \ {p} : pc'[q] = pc[q] /\ arg'[q] = arg[q] /\ q # current
      BY <2>5 DEF UpWake, At, Goto
    <3> QED BY <3>1, <3>2, OthersRest, RestingArg
  <2> QED BY <1>1, <2>1, <2>2, <2>3, <2>4, <2>5
<1>2. ASSUME NEW p \in Thread, ReapTake(p)
      PROVE  Args'
  <2>1. ArgOf(p)'
    BY <1>2 DEF ReapTake, At, Goto, ArgOf, Semaphoring
  <2>2. \A q \in Thread \ {p} : pc'[q] = pc[q] /\ arg'[q] = arg[q] /\ q # current
    BY <1>2 DEF ReapTake, At, Goto
  <2> QED BY <2>1, <2>2, OthersRest, RestingArg
<1>3. ASSUME NEW p \in Thread, NEW s \in Semaphore, Down(p, s) \/ Up(p, s)
      PROVE  Args'
  <2>1. CASE Down(p, s)
    <3>1. ArgOf(p)'
      BY <2>1 DEF Down, At, Goto, ArgOf, Semaphoring, procVars, semVars
    <3>2. \A q \in Thread \ {p} : pc'[q] = pc[q] /\ arg'[q] = arg[q] /\ q # current
      BY <2>1 DEF Down, At, Goto
    <3> QED BY <3>1, <3>2, OthersRest, RestingArg
  <2>2. CASE Up(p, s)
    <3>1. ArgOf(p)'
      BY <2>2 DEF Up, At, Goto, ArgOf, Semaphoring, procVars, semVars
    <3>2. \A q \in Thread \ {p} : pc'[q] = pc[q] /\ arg'[q] = arg[q] /\ q # current
      BY <2>2 DEF Up, At, Goto
    <3> QED BY <3>1, <3>2, OthersRest, RestingArg
  <2> QED BY <1>3, <2>1, <2>2
<1>4. ASSUME NEW p \in Thread, NEW d \in 0..MaxDelay, Sleep(p, d)
      PROVE  Args'
  <2>1. ArgOf(p)'
    BY <1>4 DEF Sleep, At, Goto, ArgOf, Semaphoring, Timer
  <2>2. \A q \in Thread \ {p} : pc'[q] = pc[q] /\ arg'[q] = arg[q] /\ q # current
    BY <1>4 DEF Sleep, At, Goto
  <2> QED BY <2>1, <2>2, OthersRest, RestingArg
<1>5. ASSUME NEW p \in Thread, NEW c \in Proc, Start(p, c)
      PROVE  Args'
  <2>1. ArgOf(p)'
    BY <1>5 DEF Start, At, Goto, ArgOf, Semaphoring, procVars
  <2>2. \A q \in Thread \ {p} : pc'[q] = pc[q] /\ arg'[q] = arg[q] /\ q # current
    BY <1>5 DEF Start, At, Goto
  <2> QED BY <2>1, <2>2, OthersRest, RestingArg
<1>6. ASSUME NEW p \in Thread, Exit(p) \/ Reap(p)
      PROVE  Args'
  <2>1. CASE Exit(p)
    <3>1. ArgOf(p)'
      BY <2>1 DEF Exit, At, Goto, ArgOf, Semaphoring
    <3>2. \A q \in Thread \ {p} : pc'[q] = pc[q] /\ arg'[q] = arg[q] /\ q # current
      BY <2>1 DEF Exit, At, Goto
    <3> QED BY <3>1, <3>2, OthersRest, RestingArg
  <2>2. CASE Reap(p)
    <3>1. ArgOf(p)'
      BY <2>2 DEF Reap, At, Goto, ArgOf, Semaphoring
    <3>2. \A q \in Thread \ {p} : pc'[q] = pc[q] /\ arg'[q] = arg[q] /\ q # current
      BY <2>2 DEF Reap, At, Goto
    <3> QED BY <3>1, <3>2, OthersRest, RestingArg
  <2> QED BY <1>6, <2>1, <2>2
<1>7. ASSUME NEW p \in Thread, DownEnd(p) \/ End(p) \/ ReapEnd(p)
      PROVE  Args'
  <2>1. CASE DownEnd(p)
    <3>1. ArgOf(p)'
      BY <2>1 DEF DownEnd, At, Goto, ArgOf, Semaphoring
    <3>2. \A q \in Thread \ {p} : pc'[q] = pc[q] /\ arg'[q] = arg[q] /\ q # current
      BY <2>1 DEF DownEnd, At, Goto
    <3> QED BY <3>1, <3>2, OthersRest, RestingArg
  <2>2. CASE End(p)
    <3>1. ArgOf(p)'
      BY <2>2 DEF End, At, Goto, ArgOf, Semaphoring
    <3>2. \A q \in Thread \ {p} : pc'[q] = pc[q] /\ arg'[q] = arg[q] /\ q # current
      BY <2>2 DEF End, At, Goto
    <3> QED BY <3>1, <3>2, OthersRest, RestingArg
  <2>3. CASE ReapEnd(p)
    <3>1. ArgOf(p)'
      BY <2>3 DEF ReapEnd, At, Goto, ArgOf, Semaphoring
    <3>2. \A q \in Thread \ {p} : pc'[q] = pc[q] /\ arg'[q] = arg[q] /\ q # current
      BY <2>3 DEF ReapEnd, At, Goto
    <3> QED BY <3>1, <3>2, OthersRest, RestingArg
  <2> QED BY <1>7, <2>1, <2>2, <2>3
<1>8. ASSUME NEW p \in Thread, DownBlock(p) \/ SleepBlock(p)
      PROVE  Args'
  <2>1. CASE DownBlock(p)
    <3>1. ArgOf(p)'
      BY <2>1 DEF DownBlock, At, Goto, ArgOf, Semaphoring, YieldOn
    <3>2. \A q \in Thread \ {p} : pc'[q] = pc[q] /\ arg'[q] = arg[q] /\ q # current
      BY <2>1 DEF DownBlock, At, Goto
    <3> QED BY <3>1, <3>2, OthersRest, RestingArg
  <2>2. CASE SleepBlock(p)
    <3>1. ArgOf(p)'
      BY <2>2 DEF SleepBlock, At, Goto, ArgOf, Semaphoring, YieldOn
    <3>2. \A q \in Thread \ {p} : pc'[q] = pc[q] /\ arg'[q] = arg[q] /\ q # current
      BY <2>2 DEF SleepBlock, At, Goto
    <3> QED BY <3>1, <3>2, OthersRest, RestingArg
  <2> QED BY <1>8, <2>1, <2>2
<1>9. ASSUME NEW p \in Thread, Unref(p)
      PROVE  Args'
  <2>1. ArgOf(p)'
    BY <1>9 DEF Unref, At, Goto, ArgOf, Semaphoring
  <2>2. \A q \in Thread \ {p} : pc'[q] = pc[q] /\ arg'[q] = arg[q] /\ q # current
    BY <1>9 DEF Unref, At, Goto
  <2> QED BY <2>1, <2>2, OthersRest, RestingArg
<1>10. ASSUME NEW p \in Thread, StartReady(p)
      PROVE  Args'
  <2>1. PICK c \in Proc : c = arg[p] /\ c # p /\ p = current
    BY <1>10 DEF StartReady, At, ArgOf, Dead
  <2>2. pc'[c] = "reap" /\ pc'[p] = "end"
    BY <1>10, <2>1 DEF StartReady
  <2>3. ArgOf(p)' /\ ArgOf(c)'
    BY <2>2 DEF ArgOf, Semaphoring
  <2>4. \A q \in Thread \ {p, c} : pc'[q] = pc[q] /\ arg'[q] = arg[q]
    BY <1>10, <2>1 DEF StartReady
  <2> QED BY <2>1, <2>3, <2>4, OthersRest, RestingArg
<1>11. ASSUME NEW p \in Thread, ExitPark(p)
      PROVE  Args'
  <2>1. ArgOf(p)'
    BY <1>11 DEF ExitPark, At, Goto, ArgOf, Semaphoring
  <2>2. \A q \in Thread \ {p} : pc'[q] = pc[q] /\ arg'[q] = arg[q] /\ q # current
    BY <1>11 DEF ExitPark, At, Goto
  <2> QED BY <2>1, <2>2, OthersRest, RestingArg
<1>12. ASSUME NEW p \in Thread, Poll(p)
      PROVE  Args'
  <2>1. UNCHANGED <<arg, pc>> /\ pc[p] = "user" /\ p = current
    BY <1>12 DEF Poll, At
  <2>2. \A q \in Thread : pc[q] \in Resting
    BY <2>1, OthersRest, RestingPoints, Points
  <2> QED BY <2>1, <2>2, RestingArg
<1>13. ASSUME NEW p \in Thread, IrqYield(p) \/ YieldReturn(p) \/ Tick(p)
      PROVE  Args'
  <2>1. UNCHANGED arg /\ \A q \in Thread : pc'[q] = pc[q]
    BY <1>13 DEF IrqYield, YieldReturn, Tick, At
  <2>2. \A q \in Thread : pc[q] \in Resting
    BY <1>13, OthersRest DEF IrqYield, YieldReturn, Tick, InIrq
  <2> QED BY <2>1, <2>2, RestingArg
<1>14. ASSUME NEW p \in Thread, EndIrq(p)
      PROVE  Args'
  <2>1. UNCHANGED arg /\ \A q \in Thread : pc'[q] = pc[q] \/ pc'[q] = "reap"
    BY <1>14 DEF EndIrq
  <2>2. \A q \in Thread : pc[q] \in Resting
    BY <1>14, OthersRest DEF EndIrq, InIrq
  <2>3. \A q \in Thread : pc'[q] = "reap" => ArgOf(q)'
    BY DEF ArgOf, Semaphoring
  <2> QED BY <2>1, <2>2, <2>3, RestingArg
<1>15. CASE Dispatch
  <2>1. UNCHANGED <<arg, pc>>
    BY <1>15 DEF Dispatch
  <2>2. \A q \in Thread : pc[q] \in Resting
    BY <1>15, OthersRest DEF Dispatch, Picking
  <2> QED BY <2>1, <2>2, RestingArg
<1>16. ASSUME NEW k \in {"tick", "device"}, Irq(k)
      PROVE  Args'
  <2>1. UNCHANGED <<arg, pc>>
    BY <1>16 DEF Irq
  <2>2. PICK p \in Thread : p = current /\ disableCount[p] = 0
    BY <1>16 DEF Irq, InterruptDiscipline
  <2>3. pc[p] \notin Closed
    <3>1. 0 = (IF pc[p] \in Closed THEN 1 ELSE 0) + (IF irq[p] # "none" THEN 1 ELSE 0)
              + (IF yld[p] # "none" THEN 1 ELSE 0)
      BY <2>2 DEF InterruptDiscipline, Levels
    <3> QED BY ONLY <3>1
  <2>4. \A q \in Thread : pc[q] \in Resting
    BY <2>2, <2>3, OthersRest, RestingPoints
  <2> QED BY <2>1, <2>4, RestingArg
<1>17. CASE UNCHANGED vars
  BY <1>17 DEF vars, procVars, semVars, ArgOf
<1>18. ASSUME NEW p \in Thread, Put(p)
      PROVE  Args'
  <2>1. /\ p = current /\ irq[p] # "none" /\ UNCHANGED <<arg, pc>>
    BY <1>18, PutSteps DEF Handling
  <2>2. \A q \in Thread : pc[q] \in Resting
    BY <2>1, OthersRest
  <2> QED BY <2>1, <2>2, RestingArg
<1> QED
  BY <1>1, <1>2, <1>3, <1>4, <1>5, <1>6, <1>7, <1>8, <1>9, <1>10, <1>11, <1>12,
     <1>13, <1>14, <1>15, <1>16, <1>17, <1>18
     DEF Next, Kernel, Interrupt, Call, Step, Put

\* The steps that move no process between the queues and the processor.
LEMMA HomeFrame ==
  ASSUME OneHome, ReapedOnce, Dead,
         UNCHANGED <<state, readyQueue, reaperQueue, waiting, current>>,
         \A q \in Thread : yld'[q] = "pick" <=> yld[q] = "pick",
         Reaping' = Reaping,
         \A q \in Reaping : arg'[q] = arg[q],
         \A q \in Proc : pc'[q] = "gone" => pc[q] = "gone",
         \A q \in Proc : q # current => yld'[q] = yld[q] /\ irq'[q] = irq[q]
  PROVE  OneHome' /\ ReapedOnce' /\ Dead'
<1>1. Doomed' = Doomed
  BY DEF Doomed
<1>2. OneHome'
  BY <1>1 DEF OneHome, SeparateQueues, Placed, Thread
<1>3. ReapedOnce'
  BY DEF ReapedOnce
<1>4. Dead'
  BY DEF Dead
<1> QED BY <1>2, <1>3, <1>4

\* A process that is woken moves from the queue it waits in to the ready queue.
LEMMA WakeHome ==
  ASSUME TypeOK, OneHome, ReapedOnce, Dead, NEW s \in Queue, Wakes(s),
         UNCHANGED <<current, yld, arg>>, Reaping' = Reaping,
         \A q \in Proc : pc'[q] = "gone" => pc[q] = "gone",
         \A q \in Thread : q # current => irq'[q] = irq[q]
  PROVE  OneHome' /\ ReapedOnce' /\ Dead'
<1> USE ProcAssumption DEF Thread, TypeOK
<1>1. waiting[s] # << >> /\ waiting[s] \in Seq(Proc)
  BY DEF Wakes
<1>2. PICK h \in Proc : /\ h = Head(waiting[s]) /\ h \in Range(waiting[s])
                        /\ Range(Tail(waiting[s])) = Range(waiting[s]) \ {h}
                        /\ IsInjective(Tail(waiting[s]))
  BY <1>1, QueueTail DEF OneHome, SeparateQueues
<1>3. state[h] = "BLOCKED" /\ h \notin Range(readyQueue)
  BY <1>2 DEF OneHome, Placed
<1>4. /\ Range(readyQueue \o <<h>>) = Range(readyQueue) \cup {h}
      /\ IsInjective(readyQueue \o <<h>>)
      /\ Range(<<h>>) = {h} /\ <<h>> # <<Idle>>
  BY <1>3, QueueOne, QueueConcatOne, SMTT(40) DEF OneHome, SeparateQueues
<1>5. /\ readyQueue' = readyQueue \o <<h>>
      /\ \A q \in Thread : state'[q] = IF q = h THEN "READY" ELSE state[q]
  BY <1>2, <1>4 DEF Wakes, MakeReady
<1>6. /\ \A q \in Queue : waiting'[q] = IF q = s THEN Tail(waiting[s]) ELSE waiting[q]
      /\ UNCHANGED reaperQueue
  BY DEF Wakes
<1>7. Doomed' = Doomed
  BY <1>6 DEF Doomed
<1>8. OneHome'
  <2>1. SeparateQueues'
    <3>1. IsInjective(readyQueue') /\ IsInjective(reaperQueue')
      BY <1>4, <1>5, <1>6 DEF OneHome, SeparateQueues
    <3>2. \A q \in Queue : IsInjective(waiting'[q])
      BY <1>2, <1>6 DEF OneHome, SeparateQueues
    <3>3. \A q \in Queue : Range(waiting'[q]) \subseteq Range(waiting[q])
      BY <1>2, <1>6
    <3>4. \A q, r \in Queue : q # r => Range(waiting'[q]) \cap Range(waiting'[r]) = {}
      <4>1. \A q, r \in Queue : q # r => Range(waiting[q]) \cap Range(waiting[r]) = {}
        BY DEF OneHome, SeparateQueues
      <4> HIDE DEF TypeOK
      <4> QED BY <3>3, <4>1
    <3> HIDE DEF TypeOK
    <3> QED BY <3>1, <3>2, <3>4 DEF SeparateQueues
  <2>2. ASSUME NEW q \in Proc PROVE Placed(q)'
    <3>1. Placed(q)
      BY DEF OneHome
    <3>2. q # h => (\E r \in Queue : q \in Range(waiting'[r])) <=> (\E r \in Queue : q \in Range(waiting[r]))
      BY <1>2, <1>6
    <3>3. \A r \in Queue : h \notin Range(waiting'[r])
      BY <1>2, <1>6 DEF OneHome, SeparateQueues
    <3> HIDE DEF TypeOK
    <3> QED BY <1>3, <1>4, <1>5, <1>6, <1>7, <3>1, <3>2, <3>3 DEF Placed
  <2> QED BY <2>1, <2>2 DEF OneHome
<1>9. ReapedOnce'
  BY <1>6 DEF ReapedOnce
<1>10. Dead'
  BY <1>3, <1>5 DEF Dead
<1> QED BY <1>8, <1>9, <1>10

\* Every step keeps every process in one place.
LEMMA HomeStep ==
  ASSUME TypeOK, InterruptDiscipline, Control, Args, OneHome, ReapedOnce, Dead, [Next]_vars
  PROVE  OneHome' /\ ReapedOnce' /\ Dead'
<1> USE ProcAssumption DEF Thread, TypeOK
<1>1. ASSUME NEW p \in Thread, DownTest(p) \/ UpTest(p) \/ DownDec(p) \/ UpInc(p)
      PROVE  OneHome' /\ ReapedOnce' /\ Dead'
  <2>1. CASE DownTest(p)
    <3>1. Reaping' = Reaping /\ \A q \in Reaping : arg'[q] = arg[q]
      BY <2>1 DEF DownTest, At, Goto, Reaping
    <3>2. /\ UNCHANGED <<state, readyQueue, reaperQueue, waiting, current, yld, irq>>
          /\ \A q \in Proc : pc'[q] = "gone" => pc[q] = "gone"
      BY <2>1 DEF DownTest, At, Goto, procVars, semVars
    <3> QED BY <3>1, <3>2, HomeFrame
  <2>2. CASE UpTest(p)
    <3>1. Reaping' = Reaping /\ \A q \in Reaping : arg'[q] = arg[q]
      BY <2>2 DEF UpTest, At, Goto, Reaping
    <3>2. /\ UNCHANGED <<state, readyQueue, reaperQueue, waiting, current, yld, irq>>
          /\ \A q \in Proc : pc'[q] = "gone" => pc[q] = "gone"
      BY <2>2 DEF UpTest, At, Goto, procVars, semVars
    <3> QED BY <3>1, <3>2, HomeFrame
  <2>3. CASE DownDec(p)
    <3>1. Reaping' = Reaping /\ \A q \in Reaping : arg'[q] = arg[q]
      BY <2>3 DEF DownDec, At, Goto, Reaping
    <3>2. /\ UNCHANGED <<state, readyQueue, reaperQueue, waiting, current, yld, irq>>
          /\ \A q \in Proc : pc'[q] = "gone" => pc[q] = "gone"
      BY <2>3 DEF DownDec, At, Goto, procVars, semVars
    <3> QED BY <3>1, <3>2, HomeFrame
  <2>4. CASE UpInc(p)
    <3>1. Reaping' = Reaping /\ \A q \in Reaping : arg'[q] = arg[q]
      BY <2>4 DEF UpInc, At, Goto, Reaping
    <3>2. /\ UNCHANGED <<state, readyQueue, reaperQueue, waiting, current, yld, irq>>
          /\ \A q \in Proc : pc'[q] = "gone" => pc[q] = "gone"
      BY <2>4 DEF UpInc, At, Goto, procVars, semVars
    <3> QED BY <3>1, <3>2, HomeFrame
  <2> QED BY <1>1, <2>1, <2>2, <2>3, <2>4
<1>2. ASSUME NEW p \in Thread, NEW s \in Semaphore, Down(p, s) \/ Up(p, s)
      PROVE  OneHome' /\ ReapedOnce' /\ Dead'
  <2>1. CASE Down(p, s)
    <3>1. Reaping' = Reaping /\ \A q \in Reaping : arg'[q] = arg[q]
      BY <2>1 DEF Down, At, Goto, Reaping
    <3>2. /\ UNCHANGED <<state, readyQueue, reaperQueue, waiting, current, yld, irq>>
          /\ \A q \in Proc : pc'[q] = "gone" => pc[q] = "gone"
      BY <2>1 DEF Down, At, Goto, procVars, semVars
    <3> QED BY <3>1, <3>2, HomeFrame
  <2>2. CASE Up(p, s)
    <3>1. Reaping' = Reaping /\ \A q \in Reaping : arg'[q] = arg[q]
      BY <2>2 DEF Up, At, Goto, Reaping
    <3>2. /\ UNCHANGED <<state, readyQueue, reaperQueue, waiting, current, yld, irq>>
          /\ \A q \in Proc : pc'[q] = "gone" => pc[q] = "gone"
      BY <2>2 DEF Up, At, Goto, procVars, semVars
    <3> QED BY <3>1, <3>2, HomeFrame
  <2> QED BY <1>2, <2>1, <2>2
<1>3. ASSUME NEW p \in Thread, NEW d \in 0..MaxDelay, Sleep(p, d)
      PROVE  OneHome' /\ ReapedOnce' /\ Dead'
  <2>1. Reaping' = Reaping /\ \A q \in Reaping : arg'[q] = arg[q]
    BY <1>3 DEF Sleep, At, Goto, Reaping
  <2>2. /\ UNCHANGED <<state, readyQueue, reaperQueue, waiting, current, yld, irq>>
        /\ \A q \in Proc : pc'[q] = "gone" => pc[q] = "gone"
    BY <1>3 DEF Sleep, At, Goto, procVars, semVars
  <2> QED BY <2>1, <2>2, HomeFrame
<1>4. ASSUME NEW p \in Thread, NEW c \in Proc, Start(p, c)
      PROVE  OneHome' /\ ReapedOnce' /\ Dead'
  <2>1. Reaping' = Reaping /\ \A q \in Reaping : arg'[q] = arg[q]
    BY <1>4 DEF Start, At, Goto, Reaping
  <2>2. /\ UNCHANGED <<state, readyQueue, reaperQueue, waiting, current, yld, irq>>
        /\ \A q \in Proc : pc'[q] = "gone" => pc[q] = "gone"
    BY <1>4 DEF Start, At, Goto, procVars, semVars
  <2> QED BY <2>1, <2>2, HomeFrame
<1>5. ASSUME NEW p \in Thread, Exit(p) \/ Reap(p) \/ DownEnd(p) \/ End(p)
      PROVE  OneHome' /\ ReapedOnce' /\ Dead'
  <2>1. CASE Exit(p)
    <3>1. Reaping' = Reaping /\ \A q \in Reaping : arg'[q] = arg[q]
      BY <2>1 DEF Exit, At, Goto, Reaping
    <3>2. /\ UNCHANGED <<state, readyQueue, reaperQueue, waiting, current, yld, irq>>
          /\ \A q \in Proc : pc'[q] = "gone" => pc[q] = "gone"
      BY <2>1 DEF Exit, At, Goto, procVars, semVars
    <3> QED BY <3>1, <3>2, HomeFrame
  <2>2. CASE Reap(p)
    <3>1. Reaping' = Reaping /\ \A q \in Reaping : arg'[q] = arg[q]
      BY <2>2 DEF Reap, At, Goto, Reaping
    <3>2. /\ UNCHANGED <<state, readyQueue, reaperQueue, waiting, current, yld, irq>>
          /\ \A q \in Proc : pc'[q] = "gone" => pc[q] = "gone"
      BY <2>2 DEF Reap, At, Goto, procVars, semVars
    <3> QED BY <3>1, <3>2, HomeFrame
  <2>3. CASE DownEnd(p)
    <3>1. Reaping' = Reaping /\ \A q \in Reaping : arg'[q] = arg[q]
      BY <2>3 DEF DownEnd, At, Goto, Reaping
    <3>2. /\ UNCHANGED <<state, readyQueue, reaperQueue, waiting, current, yld, irq>>
          /\ \A q \in Proc : pc'[q] = "gone" => pc[q] = "gone"
      BY <2>3 DEF DownEnd, At, Goto, procVars, semVars
    <3> QED BY <3>1, <3>2, HomeFrame
  <2>4. CASE End(p)
    <3>1. Reaping' = Reaping /\ \A q \in Reaping : arg'[q] = arg[q]
      BY <2>4 DEF End, At, Goto, Reaping
    <3>2. /\ UNCHANGED <<state, readyQueue, reaperQueue, waiting, current, yld, irq>>
          /\ \A q \in Proc : pc'[q] = "gone" => pc[q] = "gone"
      BY <2>4 DEF End, At, Goto, procVars, semVars
    <3> QED BY <3>1, <3>2, HomeFrame
  <2> QED BY <1>5, <2>1, <2>2, <2>3, <2>4
<1>6. ASSUME NEW p \in Thread, ReapEnd(p)
      PROVE  OneHome' /\ ReapedOnce' /\ Dead'
  <2>1. arg[p] \in Proc \cup {NoProc} /\ pc[p] = "reapEnd"
    BY <1>6 DEF ReapEnd, At, Args, ArgOf
  <2>2. Reaping' = Reaping
    BY <1>6, <2>1 DEF ReapEnd, Goto, Reaping
  <2>3. /\ UNCHANGED <<state, readyQueue, reaperQueue, waiting, current, yld, irq, arg>>
        /\ \A q \in Proc : pc'[q] = "gone" => pc[q] = "gone"
    BY <1>6 DEF ReapEnd, Goto, procVars, semVars
  <2> QED BY <2>2, <2>3, HomeFrame
<1>7. ASSUME NEW p \in Thread, EndIrq(p)
      PROVE  OneHome' /\ ReapedOnce' /\ Dead'
  <2>1. Reaping' = Reaping
    BY <1>7 DEF EndIrq, Reaping
  <2>2. /\ UNCHANGED <<state, readyQueue, reaperQueue, waiting, current, yld, arg>>
        /\ \A q \in Proc : pc'[q] = "gone" => pc[q] = "gone"
        /\ \A q \in Thread : q # current => irq'[q] = irq[q]
    BY <1>7 DEF EndIrq, InIrq, procVars, semVars
  <2> QED BY <2>1, <2>2, HomeFrame
<1>8. ASSUME NEW p \in Thread, UpWake(p)
      PROVE  OneHome' /\ ReapedOnce' /\ Dead'
  <2>1. PICK s \in Queue : s = arg[p] /\ waiting[s] # << >>
    BY <1>8 DEF UpWake, At, Args, ArgOf, Semaphoring, Queue
  <2>2. /\ Wakes(s) /\ pc' = [pc EXCEPT ![p] = "end"] /\ pc[p] = "upWake"
        /\ UNCHANGED <<current, yld, irq, arg>>
    BY <1>8, <2>1 DEF UpWake, At, Goto, Wakes
  <2>3. Reaping' = Reaping
    BY <2>2 DEF Reaping
  <2>4. \A q \in Proc : pc'[q] = "gone" => pc[q] = "gone"
    BY <2>2
  <2> QED BY <2>1, <2>2, <2>3, <2>4, WakeHome
<1>9. ASSUME NEW p \in Thread, DownBlock(p) \/ SleepBlock(p)
      PROVE  OneHome' /\ ReapedOnce' /\ Dead'
  <2>1. p \in Proc /\ p = current /\ yld[p] # "pick"
    BY <1>9 DEF DownBlock, SleepBlock, At, Control
  <2>2. PICK s \in Queue : s = arg[p]
    BY <1>9 DEF DownBlock, SleepBlock, At, Args, ArgOf, Semaphoring, Queue
  <2>3. state[p] = "RUNNING" /\ \A q \in Queue : p \notin Range(waiting[q])
    BY <2>1 DEF OneHome, Placed
  <2>4. /\ Range(Append(waiting[s], p)) = Range(waiting[s]) \cup {p}
        /\ IsInjective(Append(waiting[s], p))
    BY <2>1, <2>3, QueueAppend DEF OneHome, SeparateQueues
  <2>5. /\ \A q \in Queue : waiting'[q] = IF q = s THEN Append(waiting[s], p) ELSE waiting[q]
        /\ state' = [state EXCEPT ![p] = "BLOCKED"]
        /\ yld' = [yld EXCEPT ![p] = "pick"]
        /\ UNCHANGED <<readyQueue, reaperQueue, current, irq, arg>>
    BY <1>9, <2>2 DEF DownBlock, SleepBlock, YieldOn
  <2>6. pc' = [pc EXCEPT ![p] = pc'[p]] /\ pc'[p] \in {"downEnd", "end"}
    BY <1>9 DEF DownBlock, SleepBlock, Goto
  <2>7. Reaping' = Reaping /\ Doomed' = Doomed
    <3>1. pc[p] \in {"downBlock", "sleepBlock"}
      BY <1>9 DEF DownBlock, SleepBlock, At
    <3>2. Reaping' = Reaping
      BY <2>5, <2>6, <3>1 DEF Reaping
    <3> QED BY <2>5, <3>2 DEF Doomed
  <2>8. OneHome'
    <3>1. SeparateQueues'
      <4>1. /\ SeparateQueues
            /\ \A q \in Queue : Range(waiting'[q]) =
                                IF q = s THEN Range(waiting[s]) \cup {p} ELSE Range(waiting[q])
            /\ \A q \in Queue : IsInjective(waiting'[q])
        BY <2>4, <2>5 DEF OneHome, SeparateQueues
      <4>2. \A q, r \in Queue : q # r => Range(waiting'[q]) \cap Range(waiting'[r]) = {}
        <5> SUFFICES ASSUME NEW q \in Queue, NEW r \in Queue, q # r
                     PROVE  Range(waiting'[q]) \cap Range(waiting'[r]) = {}
          OBVIOUS
        <5>1. /\ Range(waiting[q]) \cap Range(waiting[r]) = {}
              /\ p \notin Range(waiting[q]) /\ p \notin Range(waiting[r])
          BY <4>1, <2>3 DEF SeparateQueues
        <5> QED BY <4>1, <5>1
      <4> QED BY <2>5, <4>1, <4>2 DEF SeparateQueues
    <3>2. ASSUME NEW q \in Proc PROVE Placed(q)'
      <4>1. Placed(q)
        BY DEF OneHome
      <4>2. (\E r \in Queue : q \in Range(waiting'[r]))
              <=> q = p \/ \E r \in Queue : q \in Range(waiting[r])
        BY <2>4, <2>5
      <4> QED BY <2>1, <2>3, <2>5, <2>7, <4>1, <4>2 DEF Placed
    <3> QED BY <3>1, <3>2 DEF OneHome
  <2>9. ReapedOnce' /\ Dead'
    <3>1. ReapedOnce'
      BY <2>1, <2>3, <2>5, <2>6, <2>7 DEF ReapedOnce
    <3>2. Dead'
      BY <2>1, <2>3, <2>5, <2>6, <2>7 DEF Dead
    <3> QED BY <3>1, <3>2
  <2> QED BY <2>8, <2>9
<1>10. ASSUME NEW p \in Thread, Poll(p) \/ IrqYield(p)
      PROVE  OneHome' /\ ReapedOnce' /\ Dead'
  <2>1. p = current /\ yld[p] # "pick" /\ (p \in Proc => state[p] = "RUNNING")
    BY <1>10 DEF Poll, IrqYield, At, InIrq, OneHome, Placed
  <2>2. /\ state' = [q \in Thread |-> IF q \in Range(<<p>>) THEN "READY" ELSE state[q]]
        /\ readyQueue' = IF <<p>> = <<Idle>> THEN readyQueue ELSE readyQueue \o <<p>>
        /\ yld' = [yld EXCEPT ![p] = "pick"]
        /\ UNCHANGED <<waiting, reaperQueue, current, pc, arg>>
        /\ \A q \in Thread : q # p => irq'[q] = irq[q]
    BY <1>10 DEF Poll, IrqYield, YieldCpu, MakeReady
  <2>3. Range(<<p>>) = {p}
    BY QueueOne
  <2>4. Reaping' = Reaping /\ Doomed' = Doomed
    BY <2>2 DEF Doomed, Reaping
  <2>5. CASE p = Idle
    <3>1. UNCHANGED readyQueue /\ \A q \in Proc : state'[q] = state[q] /\ yld'[q] = yld[q]
      BY <2>2, <2>3, <2>5
    <3>2. OneHome'
      BY <2>1, <2>2, <2>4, <2>5, <3>1 DEF OneHome, SeparateQueues, Placed
    <3>3. ReapedOnce' /\ Dead'
      <4>1. ReapedOnce'
        BY <2>2, <2>4 DEF ReapedOnce, Reaping
      <4>2. \A q \in Proc : q # p /\ irq'[q] = irq[q] /\ state'[q] = state[q] /\ yld'[q] = yld[q]
        BY <2>2, <2>5, <3>1
      <4>3. Dead'
        BY <2>2, <4>2 DEF Dead
      <4> QED BY <4>1, <4>3
    <3> QED BY <3>2, <3>3
  <2>6. CASE p # Idle
    <3>1. p \in Proc /\ p \notin Range(readyQueue) /\ <<p>> # <<Idle>>
      BY <2>1, <2>6 DEF OneHome, Placed
    <3>2. /\ Range(readyQueue \o <<p>>) = Range(readyQueue) \cup {p}
          /\ IsInjective(readyQueue \o <<p>>)
      BY <3>1, QueueConcatOne DEF OneHome, SeparateQueues
    <3>3. OneHome'
      BY <2>1, <2>2, <2>3, <2>4, <3>1, <3>2 DEF OneHome, SeparateQueues, Placed
    <3>4. ReapedOnce' /\ Dead'
      <4>1. ReapedOnce'
        BY <2>1, <2>2, <2>3, <2>4, <3>1 DEF ReapedOnce
      <4>2. Dead'
        BY <2>1, <2>2, <2>3, <2>4, <3>1 DEF Dead
      <4> QED BY <4>1, <4>2
    <3> QED BY <3>3, <3>4
  <2> QED BY <2>5, <2>6
<1>11. ASSUME NEW p \in Thread, ReapTake(p)
      PROVE  OneHome' /\ ReapedOnce' /\ Dead'
  <2>1. /\ pc[p] = "reapTake" /\ pc' = [pc EXCEPT ![p] = "reapEnd"]
        /\ UNCHANGED <<state, readyQueue, waiting, current, yld, irq>>
    BY <1>11 DEF ReapTake, At, Goto, semVars
  <2>2. CASE reaperQueue = << >>
    <3>1. arg' = [arg EXCEPT ![p] = NoProc] /\ UNCHANGED reaperQueue
      BY <1>11, <2>2 DEF ReapTake
    <3>2. Reaping' = Reaping /\ p \notin Reaping
      BY <2>1, <3>1 DEF Reaping
    <3> QED BY <2>1, <3>1, <3>2, HomeFrame
  <2>3. CASE reaperQueue # << >>
    <3>1. PICK h \in Proc : /\ h = Head(reaperQueue) /\ h \in Range(reaperQueue)
                            /\ Range(Tail(reaperQueue)) = Range(reaperQueue) \ {h}
                            /\ IsInjective(Tail(reaperQueue))
      BY <2>3, QueueTail DEF OneHome, SeparateQueues
    <3>2. arg' = [arg EXCEPT ![p] = h] /\ reaperQueue' = Tail(reaperQueue)
      BY <1>11, <2>3, <3>1 DEF ReapTake
    <3>3. Reaping' = Reaping \cup {p} /\ p \notin Reaping
      BY <2>1, <3>1, <3>2 DEF Reaping
    <3>4. Doomed' = Doomed
      BY <3>1, <3>2, <3>3, SMTT(40) DEF Doomed, Reaping
    <3>5. OneHome'
      BY <2>1, <3>1, <3>2, <3>4 DEF OneHome, SeparateQueues, Placed
    <3>6. ReapedOnce'
      BY <3>1, <3>2, <3>3 DEF ReapedOnce, Reaping
    <3>7. Dead'
      BY <2>1 DEF Dead
    <3> QED BY <3>5, <3>6, <3>7
  <2> QED BY <2>2, <2>3
<1>12. ASSUME NEW p \in Thread, StartReady(p)
      PROVE  OneHome' /\ ReapedOnce' /\ Dead'
  <2>1. PICK c \in Proc : c = arg[p] /\ c # p /\ p = current /\ state[c] = "ABSENT"
    BY <1>12 DEF StartReady, At, Args, ArgOf, Dead
  <2>2. yld[c] = "none" /\ irq[c] = "none" /\ c # current /\ pc[c] \in {"reap", "gone"}
    BY <2>1 DEF Dead, Control
  <2>3. c \notin Range(readyQueue) /\ c \notin Doomed
    BY <2>1 DEF OneHome, Placed
  <2>4. /\ Range(readyQueue \o <<c>>) = Range(readyQueue) \cup {c}
        /\ IsInjective(readyQueue \o <<c>>)
        /\ Range(<<c>>) = {c} /\ <<c>> # <<Idle>>
    BY <2>3, QueueOne, QueueConcatOne, SMTT(40) DEF OneHome, SeparateQueues
  <2>5. /\ readyQueue' = readyQueue \o <<c>>
        /\ \A q \in Thread : state'[q] = IF q = c THEN "READY" ELSE state[q]
        /\ pc' = [pc EXCEPT ![p] = "end", ![c] = "reap"] /\ pc[p] = "ready"
        /\ UNCHANGED <<waiting, reaperQueue, current, yld, irq, arg>>
    BY <1>12, <2>1, <2>4 DEF StartReady, At, MakeReady, semVars
  <2>6. Reaping' = Reaping /\ Doomed' = Doomed
    <3>1. Reaping' = Reaping
      BY <2>2, <2>5 DEF Reaping
    <3> QED BY <2>5, <3>1 DEF Doomed
  <2>7. OneHome'
    <3>1. SeparateQueues'
      BY <2>4, <2>5 DEF OneHome, SeparateQueues
    <3>2. ASSUME NEW q \in Proc PROVE Placed(q)'
      <4>1. Placed(q)
        BY DEF OneHome
      <4> HIDE DEF TypeOK
      <4> QED BY <4>1, <2>1, <2>2, <2>4, <2>5, <2>6 DEF Placed
    <3> QED BY <3>1, <3>2 DEF OneHome
  <2>8. ReapedOnce' /\ Dead'
    <3>1. ReapedOnce'
      BY <2>1, <2>5, <2>6 DEF ReapedOnce
    <3>2. Dead'
      BY <2>1, <2>5, <2>6, SMTT(40) DEF Dead
    <3> QED BY <3>1, <3>2
  <2> QED BY <2>7, <2>8
<1>13. ASSUME NEW p \in Thread, ExitPark(p)
      PROVE  OneHome' /\ ReapedOnce' /\ Dead'
  <2>1. p \in Proc /\ p = current /\ yld[p] = "none" /\ irq[p] = "none" /\ pc[p] = "exitPark"
    BY <1>13 DEF ExitPark, At, Control
  <2>2. state[p] = "RUNNING" /\ p \notin Doomed /\ p \notin Range(reaperQueue)
    BY <2>1 DEF OneHome, Placed, Doomed
  <2>3. /\ Range(Append(reaperQueue, p)) = Range(reaperQueue) \cup {p}
        /\ IsInjective(Append(reaperQueue, p))
    BY <2>1, <2>2, QueueAppend DEF OneHome, SeparateQueues
  <2>4. /\ reaperQueue' = Append(reaperQueue, p) /\ current' = NoProc
        /\ state' = [state EXCEPT ![p] = "TERMINATED"] /\ pc' = [pc EXCEPT ![p] = "gone"]
        /\ UNCHANGED <<readyQueue, waiting, yld, irq, arg>>
    BY <1>13 DEF ExitPark, Goto, semVars
  <2>5. Reaping' = Reaping
    BY <2>1, <2>4 DEF Reaping
  <2>6. Doomed' = Doomed \cup {p}
    BY <2>3, <2>4, <2>5 DEF Doomed
  <2>7. OneHome'
    BY <2>1, <2>2, <2>3, <2>4, <2>6 DEF OneHome, SeparateQueues, Placed
  <2>8. ReapedOnce'
    BY <2>2, <2>3, <2>4, <2>5 DEF ReapedOnce, Doomed
  <2>9. Dead'
    BY <2>1, <2>4 DEF Dead
  <2> QED BY <2>7, <2>8, <2>9
<1>14. ASSUME NEW p \in Thread, YieldReturn(p)
      PROVE  OneHome' /\ ReapedOnce' /\ Dead'
  <2>1. /\ p = current /\ yld[p] = "back" /\ yld' = [yld EXCEPT ![p] = "none"]
        /\ \A q \in Thread : state'[q] = IF q \in Range(reaperQueue) THEN "ABSENT" ELSE state[q]
        /\ reaperQueue' = << >>
        /\ UNCHANGED <<readyQueue, waiting, current, irq, arg, pc>>
    BY <1>14 DEF YieldReturn, semVars
  <2>2. Reaping' = Reaping
    BY <2>1 DEF Reaping
  <2>3. /\ Range(reaperQueue') = {} /\ IsInjective(reaperQueue')
        /\ Range(reaperQueue) \subseteq Doomed
    BY <2>1, QueueEmpty DEF Doomed
  <2>4. Doomed' = Doomed \ Range(reaperQueue)
    BY <2>1, <2>2, <2>3 DEF Doomed, ReapedOnce
  <2>5. OneHome'
    <3>1. SeparateQueues'
      BY <2>1, <2>3 DEF OneHome, SeparateQueues
    <3>2. ASSUME NEW q \in Proc PROVE Placed(q)'
      BY <2>1, <2>3, <2>4 DEF OneHome, Placed
    <3> QED BY <3>1, <3>2 DEF OneHome
  <2>6. ReapedOnce'
    BY <2>1, <2>2, <2>3 DEF ReapedOnce
  <2>7. Dead'
    BY <2>1, <2>3 DEF Dead, OneHome, Placed
  <2> QED BY <2>5, <2>6, <2>7
<1>15. ASSUME NEW p \in Thread, Unref(p)
      PROVE  OneHome' /\ ReapedOnce' /\ Dead'
  <2>1. PICK h \in Proc : h = arg[p]
    BY <1>15 DEF Unref, At, Args, ArgOf
  <2>2. /\ pc[p] = "unref" /\ pc' = [pc EXCEPT ![p] = "reap"]
        /\ state' = [state EXCEPT ![h] = "ABSENT"] /\ arg' = [arg EXCEPT ![p] = NoProc]
        /\ UNCHANGED <<readyQueue, reaperQueue, waiting, current, yld, irq>>
    BY <1>15, <2>1 DEF Unref, At, Goto, semVars
  <2>3. p \in Reaping /\ Reaping' = Reaping \ {p}
    BY <2>1, <2>2 DEF Reaping
  <2>4. h \in Doomed /\ state[h] = "TERMINATED"
    BY <2>1, <2>3 DEF Doomed, OneHome, Placed
  <2>5. Doomed' = Doomed \ {h}
    BY <2>1, <2>2, <2>3 DEF Doomed, ReapedOnce, Reaping
  <2>6. OneHome'
    BY <2>2, <2>4, <2>5 DEF OneHome, SeparateQueues, Placed
  <2>7. ReapedOnce'
    BY <2>2, <2>3 DEF ReapedOnce, Reaping
  <2>8. Dead'
    BY <2>2, <2>4 DEF Dead
  <2> QED BY <2>6, <2>7, <2>8
<1>16. ASSUME NEW p \in Thread, Tick(p)
      PROVE  OneHome' /\ ReapedOnce' /\ Dead'
  <2> DEFINE w == IF MaxDelay = 0 THEN << >> ELSE waiting[1]
  <2>1. /\ w \in Seq(Proc) /\ IsInjective(w) /\ w # <<Idle>>
        /\ \A q \in Range(w) : q \in Proc /\ state[q] = "BLOCKED"
    <3>1. CASE MaxDelay = 0
      BY <3>1, QueueEmpty
    <3>2. CASE MaxDelay # 0
      <4>1. 1 \in Queue
        BY <3>2, DelayAssumption DEF Queue, Timer
      <4>2. Range(w) \subseteq Proc
        BY <3>2, <4>1, RangeOfSeq
      <4>3. w # <<Idle>>
        BY <4>2, QueueOne, ZenonT(40)
      <4> QED BY <3>2, <4>1, <4>2, <4>3 DEF OneHome, SeparateQueues, Placed
    <3> QED BY <3>1, <3>2
  <2>2. Range(w) \cap Range(readyQueue) = {}
    BY <2>1 DEF OneHome, Placed
  <2>3. /\ Range(readyQueue \o w) = Range(readyQueue) \cup Range(w)
        /\ IsInjective(readyQueue \o w)
    <3>1. readyQueue \in Seq(Proc) /\ IsInjective(readyQueue)
      BY DEF OneHome, SeparateQueues
    <3> HIDE DEF w
    <3> QED BY <3>1, <2>1, <2>2, QueueConcat
  <2>4. /\ readyQueue' = readyQueue \o w
        /\ \A q \in Thread : state'[q] = IF q \in Range(w) THEN "READY" ELSE state[q]
        /\ waiting' = [q \in Queue |-> IF q \in Semaphore THEN waiting[q]
                                       ELSE IF q = MaxDelay THEN << >> ELSE waiting[q + 1]]
        /\ irq' = [irq EXCEPT ![p] = "yield"] /\ p = current
        /\ UNCHANGED <<reaperQueue, current, yld, arg, pc>>
    BY <1>16, <2>1 DEF Tick, InIrq, MakeReady
  <2>5. Reaping' = Reaping /\ Doomed' = Doomed
    BY <2>4 DEF Reaping, Doomed
  \* Where the waiters of each queue were before the tick.
  <2> DEFINE from(q) == IF q \in Semaphore THEN q ELSE q + 1
  <2>6. \A q \in Queue : IF q \notin Semaphore /\ q = MaxDelay
                         THEN waiting'[q] = << >>
                         ELSE from(q) \in Queue /\ waiting'[q] = waiting[from(q)]
    BY <2>4, DelayAssumption DEF Queue, Timer
  <2>7. \A q, r \in Queue : q # r => from(q) # from(r)
    <3>1. \A q \in Queue : IF q \in Semaphore THEN from(q) \in Semaphore
                           ELSE q \in Int /\ from(q) = q + 1
      BY DelayAssumption DEF Queue, Timer
    <3>2. \A n \in Int : n \notin Semaphore /\ n + 1 \in Int
      BY SemaphoreAssumption
    <3>3. \A m, n \in Int : m # n => m + 1 # n + 1
      OBVIOUS
    <3> QED BY <3>1, <3>2, <3>3
  <2>8. \A q \in Queue : from(q) # 1
    BY SemaphoreAssumption DEF Queue, Timer
  <2>9. \A q \in Queue : q # 1 => \E r \in Queue : from(r) = q /\ ~(r \notin Semaphore /\ r = MaxDelay)
    <3> SUFFICES ASSUME NEW q \in Queue, q # 1
                 PROVE  \E r \in Queue : from(r) = q /\ ~(r \notin Semaphore /\ r = MaxDelay)
      OBVIOUS
    <3>1. CASE q \in Semaphore
      BY <3>1
    <3>2. CASE q \notin Semaphore
      <4>1. /\ q \in Int /\ q - 1 \in Timer /\ q - 1 \in Int
            /\ (q - 1) + 1 = q /\ q - 1 # MaxDelay
        <5>1. q \in Int /\ 1 <= q /\ q <= MaxDelay
          BY <3>2, DelayAssumption DEF Queue, Timer
        <5> QED BY <5>1, DelayAssumption DEF Timer
      <4>2. q - 1 \notin Semaphore /\ q - 1 \in Queue
        BY <4>1, SemaphoreAssumption DEF Queue
      <4> QED BY <4>1, <4>2
    <3> QED BY <3>1, <3>2
  <2> HIDE DEF from
  <2>10. SeparateQueues'
    <3>1. \A q \in Queue : IsInjective(waiting'[q])
      BY <2>6, QueueEmpty DEF OneHome, SeparateQueues
    <3>2. ASSUME NEW q \in Queue, NEW r \in Queue, q # r
          PROVE  Range(waiting'[q]) \cap Range(waiting'[r]) = {}
      <4>1. \/ waiting'[q] = << >> \/ waiting'[r] = << >>
            \/ /\ from(q) \in Queue /\ waiting'[q] = waiting[from(q)]
               /\ from(r) \in Queue /\ waiting'[r] = waiting[from(r)]
        BY <2>6
      <4>2. from(q) # from(r)
        BY <2>7, <3>2
      <4> HIDE DEF TypeOK
      <4> QED BY <4>1, <4>2, QueueEmpty DEF OneHome, SeparateQueues
    <3> QED BY <2>3, <2>4, <3>1, <3>2 DEF OneHome, SeparateQueues
  <2>11. ASSUME NEW q \in Proc PROVE Placed(q)'
    <3>1. Placed(q)
      BY DEF OneHome
    <3>2. q \in Range(w) => ~ \E r \in Queue : q \in Range(waiting'[r])
      <4> SUFFICES ASSUME q \in Range(w), NEW r \in Queue, q \in Range(waiting'[r])
                   PROVE  FALSE
        OBVIOUS
      <4>1. MaxDelay # 0 /\ 1 \in Queue /\ q \in Range(waiting[1])
        BY QueueEmpty, DelayAssumption DEF Queue, Timer
      <4>2. from(r) \in Queue /\ q \in Range(waiting[from(r)]) /\ from(r) # 1
        BY <2>6, <2>8, QueueEmpty
      <4> QED BY <4>1, <4>2 DEF OneHome, SeparateQueues
    <3>3. q \notin Range(w) => ((\E r \in Queue : q \in Range(waiting'[r]))
                                  <=> \E r \in Queue : q \in Range(waiting[r]))
      <4>1. ASSUME NEW r \in Queue, q \in Range(waiting'[r])
            PROVE  \E u \in Queue : q \in Range(waiting[u])
        BY <4>1, <2>6, QueueEmpty
      <4>2. ASSUME q \notin Range(w), NEW u \in Queue, q \in Range(waiting[u])
            PROVE  \E r \in Queue : q \in Range(waiting'[r])
        <5>1. u # 1
          BY <4>2, DelayAssumption, SemaphoreAssumption DEF Queue, Timer
        <5> QED BY <5>1, <4>2, <2>6, <2>9
      <4> QED BY <4>1, <4>2
    <3>4. q \in Range(w) => state[q] = "BLOCKED"
      BY <2>1
    <3> HIDE DEF w
    <3> QED BY <2>3, <2>4, <2>5, <3>1, <3>2, <3>3, <3>4 DEF Placed
  <2>12. ReapedOnce' /\ Dead'
    <3>1. ReapedOnce'
      BY <2>1, <2>4, <2>5 DEF ReapedOnce
    <3>2. Dead'
      BY <2>1, <2>4, <2>5 DEF Dead
    <3> QED BY <3>1, <3>2
  <2> QED BY <2>10, <2>11, <2>12 DEF OneHome
<1>17. CASE Dispatch
  <2>1. /\ current = NoProc \/ yld[current] = "pick"
        /\ yld' = [q \in Thread |-> IF q = current THEN "back" ELSE yld[q]]
        /\ UNCHANGED <<reaperQueue, waiting, irq, arg, pc>>
    BY <1>17 DEF Dispatch, Picking, semVars
  <2>2. Reaping' = Reaping /\ Doomed' = Doomed
    BY <2>1 DEF Reaping, Doomed
  <2>3. \A q \in Thread : yld'[q] # "pick"
    BY <2>1 DEF Control
  <2>4. CASE readyQueue = << >>
    <3>1. current' = Idle /\ UNCHANGED readyQueue /\ state' = [state EXCEPT ![Idle] = "RUNNING"]
      BY <1>17, <2>4 DEF Dispatch
    <3>2. OneHome'
      BY <2>1, <2>2, <2>3, <3>1 DEF OneHome, SeparateQueues, Placed
    <3>3. ReapedOnce' /\ Dead'
      <4>1. ReapedOnce'
        BY <2>1, <2>2, <3>1 DEF ReapedOnce
      <4>2. Dead'
        BY <2>1, <2>2, <3>1 DEF Dead
      <4> QED BY <4>1, <4>2
    <3> QED BY <3>2, <3>3
  <2>5. CASE readyQueue # << >>
    <3>1. PICK h \in Proc : /\ h = Head(readyQueue) /\ h \in Range(readyQueue)
                            /\ Range(Tail(readyQueue)) = Range(readyQueue) \ {h}
                            /\ IsInjective(Tail(readyQueue))
      BY <2>5, QueueTail DEF OneHome, SeparateQueues
    <3>2. /\ current' = h /\ readyQueue' = Tail(readyQueue)
          /\ state' = [state EXCEPT ![h] = "RUNNING"]
      BY <1>17, <2>5, <3>1 DEF Dispatch
    <3>3. state[h] = "READY"
      BY <3>1 DEF OneHome, Placed
    <3>4. OneHome'
      <4>1. SeparateQueues'
        BY <2>1, <3>1, <3>2 DEF OneHome, SeparateQueues
      <4>2. \A q \in Proc : state'[q] = IF q = h THEN "RUNNING" ELSE state[q]
        BY <3>2
      <4>3. \A q \in Proc : /\ current' = q /\ yld'[q] # "pick" <=> q = h
                            /\ current = q => yld[q] = "pick"
        BY <2>1, <2>3, <3>2
      <4>4. ASSUME NEW q \in Proc PROVE Placed(q)'
        <5>1. Placed(q)
          BY DEF OneHome
        <5> HIDE DEF TypeOK
        <5> QED BY <2>1, <2>2, <3>1, <3>2, <3>3, <4>2, <4>3, <5>1 DEF Placed
      <4> QED BY <4>1, <4>4 DEF OneHome
    <3>5. ReapedOnce' /\ Dead'
      <4>1. ReapedOnce'
        BY <2>1, <2>2, <3>2, <3>3 DEF ReapedOnce
      <4>2. Dead'
        BY <2>1, <2>2, <3>2, <3>3 DEF Dead
      <4> QED BY <4>1, <4>2
    <3> QED BY <3>4, <3>5
  <2> QED BY <2>4, <2>5
<1>18. ASSUME NEW k \in {"tick", "device"}, Irq(k)
      PROVE  OneHome' /\ ReapedOnce' /\ Dead'
  <2>1. current \in Thread
    BY <1>18 DEF Irq, InterruptDiscipline
  <2>2. /\ irq' = [irq EXCEPT ![current] = k]
        /\ UNCHANGED <<state, readyQueue, reaperQueue, waiting, current, pc, arg, yld>>
    BY <1>18, <2>1 DEF Irq, procVars, semVars
  <2>3. Reaping' = Reaping
    BY <2>2 DEF Reaping
  <2> QED BY <2>1, <2>2, <2>3, HomeFrame
<1>19. CASE UNCHANGED vars
  <2>1. UNCHANGED <<state, readyQueue, reaperQueue, waiting, current, pc, arg, yld, irq>>
    BY <1>19 DEF vars, procVars, semVars
  <2>2. Reaping' = Reaping
    BY <2>1 DEF Reaping
  <2> QED BY <2>1, <2>2, HomeFrame
<1>20. ASSUME NEW p \in Thread, Put(p)
      PROVE  OneHome' /\ ReapedOnce' /\ Dead'
  <2>1. /\ p = current /\ irq' = [irq EXCEPT ![p] = irq'[p]]
        /\ UNCHANGED <<current, reaperQueue, pc, arg, yld>>
    BY <1>20, PutSteps
  <2>2. Reaping' = Reaping
    BY <2>1 DEF Reaping
  <2>3. \A q \in Thread : q # current => irq'[q] = irq[q]
    BY <2>1
  <2>4. CASE UNCHANGED <<state, readyQueue, waiting>>
    BY <2>1, <2>2, <2>3, <2>4, HomeFrame
  <2>5. ASSUME NEW s \in Semaphore, Wakes(s)
        PROVE  OneHome' /\ ReapedOnce' /\ Dead'
    <3>1. s \in Queue
      BY DEF Queue
    <3> QED BY <2>1, <2>2, <2>3, <2>5, <3>1, WakeHome
  <2>6. UNCHANGED <<state, readyQueue, waiting>> \/ \E s \in Semaphore : Wakes(s)
    BY <1>20, PutSteps DEF Panics, Takes, Gives, procVars, semVars
  <2> QED BY <2>4, <2>5, <2>6
<1> QED
  BY <1>1, <1>2, <1>3, <1>4, <1>5, <1>6, <1>7, <1>8, <1>9, <1>10, <1>11, <1>12,
     <1>13, <1>14, <1>15, <1>16, <1>17, <1>18, <1>19, <1>20
     DEF Next, Kernel, Interrupt, Call, Step, Put
----------------------------------------------------------------------------
\* The kernel starts in the invariant.
LEMMA InitIInv ==
  ASSUME Init
  PROVE  IInv
<1> USE ProcAssumption, SemaphoreAssumption, DelayAssumption DEF Init, Thread
<1>1. "reap" \in Open \cup Closed /\ "reap" \notin Closed
  BY Points
<1>2. TypeOK
  <2>1. readyQueue \in Seq(Proc) /\ reaperQueue \in Seq(Proc)
    BY QueueOne, QueueEmpty
  <2>2. waiting \in [Queue -> Seq(Proc)]
    BY QueueEmpty
  <2>3. count \in [Semaphore -> Nat]
    BY DEF Semaphore
  <2> QED BY <1>1, <2>1, <2>2, <2>3 DEF TypeOK, States
<1>3. NoPanic /\ InterruptDiscipline /\ Depth
  BY <1>1 DEF NoPanic, InterruptDiscipline, Levels, Depth
<1>4. Control /\ Args /\ Dead
  BY <1>1 DEF Control, Handling, Args, ArgOf, Semaphoring, Dead
<1>5. Reaping = {} /\ Doomed = {}
  BY QueueEmpty DEF Reaping, Doomed
<1>6. SeparateQueues
  BY QueueOne, QueueEmpty DEF SeparateQueues
<1>7. ASSUME NEW p \in Proc
      PROVE  Placed(p)
  BY <1>5, QueueOne, QueueEmpty DEF Placed
<1>8. ReapedOnce
  BY <1>5 DEF ReapedOnce
<1> QED BY <1>2, <1>3, <1>4, <1>6, <1>7, <1>8 DEF IInv, OneHome

\* Every step of the kernel stays in the invariant.
LEMMA NextIInv ==
  ASSUME IInv, [Next]_vars
  PROVE  IInv'
BY DisciplineStep, ControlStep, TypeStep, ArgsStep, HomeStep DEF IInv

\* The inductive invariant holds of every behaviour of the kernel.
THEOREM Invariance == Spec => []IInv
BY InitIInv, NextIInv, PTL DEF Spec

\* Every variable keeps its type, for every value of the constants.
THEOREM TypeCorrect == Spec => []TypeOK
<1>1. IInv => TypeOK
  BY DEF IInv
<1> QED BY <1>1, Invariance, PTL

\* The only panic that an interleaving of processes and interrupts can lead to
\* is that of the keyboard's handler when a semaphore of its buffer is used up:
\* otherwise nothing blocks in a handler, no interrupt arrives with interrupts
\* disabled or with no current process, and enable never finds a count of 0.
THEOREM NeverPanics == Spec => []NoPanic
<1>1. IInv => NoPanic
  BY DEF IInv
<1> QED BY <1>1, Invariance, PTL

\* disableCount is the number of critical sections a process is inside of, and
\* interrupts are enabled exactly while the running process is inside none.
THEOREM DisciplineHolds == Spec => []InterruptDiscipline
<1>1. IInv => InterruptDiscipline
  BY DEF IInv
<1> QED BY <1>1, Invariance, PTL

\* No process is lost and none is queued twice, by any interleaving of
\* semaphore operations, ticks, preemptions, forks, exits and reaping.
THEOREM ProcessesAreConserved == Spec => []OneHome
<1>1. IInv => OneHome
  BY DEF IInv
<1> QED BY <1>1, Invariance, PTL

-----------------------------------------------------------------------------
(* Semaphores: no wakeup is lost, a mutex is locked by at most one         *)
(* process, nobody is overtaken, and the kernel implements Multitasking.   *)
(*                                                                         *)
(* Mutual exclusion needs to follow the lock through its hand-off, while   *)
(* no process has it in `held`: a thread owns a mutex from the decrement   *)
(* (or from being taken off the queue of waiters by unlock) until unlock   *)
(* has incremented the count or has handed the mutex to the next waiter.   *)

\* A thread in a semaphore's queue is inside down on it.
Waiters ==
  \A s \in Semaphore : \A p \in Range(waiting[s]) : pc[p] = "downEnd" /\ arg[p] = s

\* Nor is a thread inside down or up on a mutex that it has locked.
Locked == \A p \in Thread : pc[p] \in Semaphoring => arg[p] \notin held[p]

Owns(p, m) ==
  \/ m \in held[p]
  \/ arg[p] = m /\ pc[p] \in {"upTest", "upInc", "upWake"}
  \/ arg[p] = m /\ pc[p] = "downEnd" /\ p \notin Range(waiting[m])

\* At most one thread owns the mutex, and none while it is available.
Token(m) ==
  /\ count[m] \in {0, 1}
  /\ \A p \in Thread : Owns(p, m) => count[m] = 0
  /\ \A p, q \in Thread : Owns(p, m) /\ Owns(q, m) => p = q

Tokens == \A m \in Mutex : Token(m)

\* The handler that unlocks the mutex of its buffer has locked it.
HandlerLocks == \A p \in Thread : irq[p] = "unlock" => mutex \in held[p]

\* The inductive invariant.
SInv == IInv /\ Waiters /\ Locked /\ Tokens /\ HandlerLocks /\ NoLostWakeup
----------------------------------------------------------------------------
\* A thread that executes waits for nothing.
LEMMA RunningWaitsNot ==
  ASSUME TypeOK, OneHome, NEW p \in Thread, p = current, yld[p] # "pick",
         NEW q \in Queue
  PROVE  p \notin Range(waiting[q])
<1>1. CASE p \in Proc
  BY <1>1 DEF OneHome, Placed
<1>2. CASE p = Idle
  <2>1. Range(waiting[q]) \subseteq Proc
    BY RangeOfSeq DEF TypeOK
  <2> QED BY <1>2, <2>1, ProcAssumption
<1> QED BY <1>1, <1>2 DEF Thread

\* What the thread that executes does to its own pc and arg concerns no waiter.
LEMMA WaitersFrame ==
  ASSUME TypeOK, OneHome, Waiters, NEW p \in Thread, p = current, yld[p] # "pick",
         UNCHANGED waiting,
         \A q \in Thread \ {p} : pc'[q] = pc[q] /\ arg'[q] = arg[q]
  PROVE  Waiters'
<1> SUFFICES ASSUME NEW s \in Semaphore, NEW q \in Range(waiting[s])
             PROVE  pc'[q] = "downEnd" /\ arg'[q] = s
  BY DEF Waiters
<1>1. s \in Queue
  BY DEF Queue
<1>2. q \in Proc
  BY <1>1, RangeOfSeq DEF TypeOK
<1>3. q # p
  BY <1>1, RunningWaitsNot
<1> QED BY <1>2, <1>3 DEF Waiters, Thread

\* A step after which every owner was one before keeps the mutexes; when only p
\* changed what it does, that is for p to show.
LEMMA TokensFrame ==
  ASSUME Tokens, UNCHANGED count,
         \A q \in Thread, m \in Mutex : Owns(q, m)' => Owns(q, m)
  PROVE  Tokens'
BY DEF Tokens, Token

LEMMA OwnTokensFrame ==
  ASSUME Tokens, UNCHANGED <<count, waiting>>, NEW p \in Thread,
         \A q \in Thread \ {p} : /\ pc'[q] = pc[q] /\ arg'[q] = arg[q]
                                 /\ held'[q] = held[q],
         \A m \in Mutex : Owns(p, m)' => Owns(p, m)
  PROVE  Tokens'
<1> SUFFICES ASSUME NEW q \in Thread, NEW m \in Mutex, Owns(q, m)'
             PROVE  Owns(q, m)
  BY TokensFrame
<1>1. CASE q = p
  BY <1>1
<1>2. CASE q # p
  <2>1. pc'[q] = pc[q] /\ arg'[q] = arg[q] /\ held'[q] = held[q]
    BY <1>2
  <2> QED BY <2>1 DEF Owns
<1> QED BY <1>1, <1>2

\* The handler has the mutex from its lock to its unlock.
LEMMA HandlerStep ==
  ASSUME TypeOK, InterruptDiscipline, Control, HandlerLocks, [Next]_vars
  PROVE  HandlerLocks'
<1> USE DEF HandlerLocks, TypeOK
<1>1. ASSUME NEW p \in Thread, PutLock(p)
      PROVE  HandlerLocks'
  <2>1. mutex \in Mutex
    BY <1>1, PutSteps DEF Put
  <2> QED BY <1>1, <2>1 DEF PutLock, HandlerDown
<1>2. ASSUME NEW p \in Thread, PutEmpty(p)
      PROVE  HandlerLocks'
  BY <1>2 DEF PutEmpty, HandlerDown
<1>3. ASSUME NEW p \in Thread, PutUnlock(p) \/ PutFull(p)
      PROVE  HandlerLocks'
  <2>1. PICK next \in {"full", "yield"}, s \in {mutex, nFull} :
          irq' = [irq EXCEPT ![p] = next] /\ held' = [held EXCEPT ![p] = @ \ {s}]
    BY <1>3 DEF PutUnlock, PutFull, HandlerUp
  <2> QED BY <2>1
<1>4. ASSUME NEW p \in Thread, NEW s \in Semaphore, Down(p, s) \/ Up(p, s)
      PROVE  HandlerLocks'
  <2>1. /\ irq[p] = "none" /\ UNCHANGED irq
        /\ held' = [held EXCEPT ![p] = held'[p]]
    BY <1>4 DEF Down, Up, At, semVars
  <2> QED BY <2>1
<1>5. ASSUME NEW p \in Thread, DownEnd(p)
      PROVE  HandlerLocks'
  <2>1. irq[p] = "none" /\ UNCHANGED irq /\ held' = [held EXCEPT ![p] = held'[p]]
    BY <1>5 DEF DownEnd, At
  <2> QED BY <2>1
<1>6. ASSUME NEW p \in Thread, Tick(p) \/ IrqYield(p) \/ EndIrq(p)
      PROVE  HandlerLocks'
  <2>1. /\ irq' = [irq EXCEPT ![p] = irq'[p]] /\ irq'[p] \in {"yield", "end", "none"}
        /\ UNCHANGED held
    BY <1>6 DEF Tick, IrqYield, EndIrq, semVars
  <2> QED BY <2>1
<1>7. ASSUME NEW k \in {"tick", "device"}, Irq(k)
      PROVE  HandlerLocks'
  <2>1. UNCHANGED irq \/ irq' = [irq EXCEPT ![current] = k]
    BY <1>7 DEF Irq
  <2>2. UNCHANGED held
    BY <1>7 DEF Irq, semVars
  <2> QED BY <2>1, <2>2
<1>8. ASSUME NEW p \in Thread,
             \/ DownTest(p) \/ DownDec(p) \/ DownBlock(p) \/ UpTest(p) \/ UpInc(p)
             \/ UpWake(p) \/ End(p) \/ SleepBlock(p) \/ StartReady(p) \/ ExitPark(p)
             \/ YieldReturn(p) \/ Reap(p) \/ ReapTake(p) \/ ReapEnd(p) \/ Unref(p)
      PROVE  HandlerLocks'
  <2>1. UNCHANGED <<irq, held>>
    BY <1>8 DEF DownTest, DownDec, DownBlock, UpTest, UpInc, UpWake, End, SleepBlock,
                StartReady, ExitPark, YieldReturn, Reap, ReapTake, ReapEnd, Unref, semVars
  <2> QED BY <2>1
<1>9. ASSUME NEW p \in Proc,
             \/ \E d \in 0..MaxDelay : Sleep(p, d)
             \/ \E c \in Proc : Start(p, c)
             \/ Exit(p) \/ Poll(p)
      PROVE  HandlerLocks'
  <2>1. UNCHANGED <<irq, held>>
    BY <1>9 DEF Sleep, Start, Exit, Poll, semVars
  <2> QED BY <2>1
<1>10. CASE Dispatch \/ UNCHANGED vars
  <2>1. UNCHANGED <<irq, held>>
    BY <1>10 DEF Dispatch, vars, semVars
  <2> QED BY <2>1
<1> QED BY <1>1, <1>2, <1>3, <1>4, <1>5, <1>6, <1>7, <1>8, <1>9, <1>10
       DEF Next, Kernel, Interrupt, Call, Step, Thread

\* A semaphore that the handler decrements or gives back changes its owners as
\* one that a process does.
LEMMA PutKeeps ==
  ASSUME TypeOK, Control, OneHome, Waiters, Locked, Tokens, HandlerLocks, NoLostWakeup,
         NEW p \in Thread, Put(p)
  PROVE  Waiters' /\ Locked' /\ Tokens' /\ NoLostWakeup'
<1> USE DEF TypeOK
<1>1. /\ p = current /\ yld[p] = "none" /\ irq[p] \in Handling /\ mutex \in Mutex
      /\ UNCHANGED <<pc, arg>>
  BY PutSteps
<1>2. pc[p] \in Open
  BY <1>1 DEF Control, Handling
<1>3. pc[p] \notin Semaphoring
  BY <1>2 DEF Open, Semaphoring
<1>4. \A r \in Semaphore : r \in Queue
  BY DEF Queue
<1>5. CASE Panics(p)
  BY <1>1, <1>5 DEF Panics, semVars, Waiters, Locked, Tokens, Token, Owns, NoLostWakeup
<1>6. ASSUME NEW s \in Semaphore, Takes(p, s)
      PROVE  Waiters' /\ Locked' /\ Tokens' /\ NoLostWakeup'
  <2>1. /\ count[s] > 0 /\ count' = [count EXCEPT ![s] = @ - 1] /\ UNCHANGED waiting
        /\ held' = [held EXCEPT ![p] = @ \cup ({s} \cap Mutex)]
    BY <1>6 DEF Takes
  <2>2. Waiters'
    BY <1>1, <2>1 DEF Waiters
  <2>3. Locked'
    BY <1>1, <1>3, <2>1 DEF Locked
  <2>4. \A q \in Thread, m \in Mutex : Owns(q, m)' => Owns(q, m) \/ (q = p /\ m = s)
    BY <1>1, <2>1 DEF Owns
  <2>5. \A m \in Mutex : count'[m] = IF m = s THEN count[m] - 1 ELSE count[m]
    BY <2>1 DEF Semaphore
  <2>6. \A q \in Thread, m \in Mutex : m = s => ~ Owns(q, m)
    BY <2>1 DEF Tokens, Token
  <2>7. Tokens'
    <3> SUFFICES ASSUME NEW m \in Mutex PROVE Token(m)'
      BY DEF Tokens
    <3>1. Token(m) /\ (m = s => count[m] = 1)
      BY <2>1 DEF Tokens, Token
    <3>2. count'[m] \in {0, 1} /\ (m = s \/ count[m] = 0 => count'[m] = 0)
      BY <2>5, <3>1 DEF Token
    <3> QED BY <2>4, <2>6, <3>1, <3>2, SMTT(40) DEF Token
  <2>8. NoLostWakeup'
    BY <2>1 DEF NoLostWakeup
  <2> QED BY <2>2, <2>3, <2>7, <2>8
<1>7. ASSUME NEW s \in Semaphore, Gives(p, s)
      PROVE  Waiters' /\ Locked' /\ Tokens' /\ NoLostWakeup'
  <2>1. held' = [held EXCEPT ![p] = @ \ {s}]
    BY <1>7 DEF Gives
  <2>2. s \in Mutex => s \in held[p] /\ Owns(p, s) /\ count[s] = 0
    <3>1. s \in Mutex => s \in held[p]
      BY <1>7, SemaphoreAssumption DEF Gives, HandlerLocks
    <3> QED BY <3>1 DEF Owns, Tokens, Token
  <2>3. Locked'
    BY <1>1, <1>3, <2>1 DEF Locked
  <2>4. ~ (arg[p] = s /\ pc[p] \in {"upTest", "upInc", "upWake", "downEnd"})
    BY <1>3 DEF Semaphoring
  <2>5. CASE ~ Wakes(s)
    <3>1. waiting[s] = << >> /\ count' = [count EXCEPT ![s] = @ + 1] /\ UNCHANGED waiting
      BY <1>7, <2>5 DEF Gives
    <3>2. Waiters'
      BY <1>1, <3>1 DEF Waiters
    <3>3. \A q \in Thread, m \in Mutex : Owns(q, m)' => Owns(q, m)
      BY <1>1, <2>1, <3>1 DEF Owns
    <3>4. \A m \in Mutex : count'[m] = IF m = s THEN count[m] + 1 ELSE count[m]
      BY <3>1 DEF Semaphore
    <3>5. \A q \in Thread : s \in Mutex => ~ Owns(q, s)'
      <4> SUFFICES ASSUME NEW q \in Thread, s \in Mutex, Owns(q, s)'
                   PROVE  FALSE
        OBVIOUS
      <4>1. q = p
        BY <2>2, <3>3 DEF Tokens, Token
      <4> QED BY <1>1, <2>1, <2>4, <4>1 DEF Owns
    <3>6. Tokens'
      <4> SUFFICES ASSUME NEW m \in Mutex PROVE Token(m)'
        BY DEF Tokens
      <4>1. Token(m)
        BY DEF Tokens
      <4>2. CASE m = s
        BY <2>2, <3>4, <3>5, <4>2 DEF Token
      <4>3. CASE m # s
        BY <3>3, <3>4, <4>1, <4>3 DEF Token
      <4> QED BY <4>2, <4>3
    <3>7. NoLostWakeup'
      BY <3>1 DEF NoLostWakeup
    <3> QED BY <2>3, <3>2, <3>6, <3>7
  <2>6. CASE Wakes(s)
    <3>1. /\ waiting[s] # << >> /\ waiting' = [waiting EXCEPT ![s] = Tail(@)]
          /\ UNCHANGED count
      BY <2>6 DEF Wakes
    <3>2. PICK h \in Proc : /\ h = Head(waiting[s]) /\ h \in Range(waiting[s])
                            /\ Range(Tail(waiting[s])) = Range(waiting[s]) \ {h}
      BY <1>4, <3>1, QueueTail DEF OneHome, SeparateQueues
    <3>3. \A r \in Semaphore : Range(waiting'[r]) = IF r = s THEN Range(waiting[s]) \ {h}
                                                   ELSE Range(waiting[r])
      BY <1>4, <3>1, <3>2
    <3>4. Waiters'
      <4> HIDE DEF TypeOK
      <4>1. \A r \in Semaphore : Range(waiting'[r]) \subseteq Range(waiting[r])
        BY <3>3
      <4> QED BY <1>1, <4>1 DEF Waiters
    <3>5. pc[h] = "downEnd" /\ arg[h] = s
      BY <3>2 DEF Waiters
    <3>6. \A q \in Thread, m \in Mutex :
             Owns(q, m)' => IF m = s THEN q = h ELSE Owns(q, m)
      <4> SUFFICES ASSUME NEW q \in Thread, NEW m \in Mutex, Owns(q, m)'
                   PROVE  IF m = s THEN q = h ELSE Owns(q, m)
        OBVIOUS
      <4>1. m \in Semaphore
        BY DEF Semaphore
      <4>2. CASE m # s
        BY <1>1, <2>1, <3>3, <4>1, <4>2 DEF Owns
      <4>3. CASE m = s
        <5>1. q # p
          BY <1>1, <2>1, <2>4, <4>3 DEF Owns
        <5>2. ~ Owns(q, s)
          BY <2>2, <4>3, <5>1 DEF Tokens, Token
        <5> QED BY <1>1, <2>1, <3>3, <4>1, <4>3, <5>1, <5>2 DEF Owns
      <4> QED BY <4>2, <4>3
    <3>7. Tokens'
      BY <2>2, <3>1, <3>6, SMTT(40) DEF Tokens, Token
    <3>8. NoLostWakeup'
      <4>1. count[s] = 0
        <5>1. count[s] \in Nat /\ ~ (count[s] > 0)
          BY <3>1 DEF NoLostWakeup
        <5> QED BY <5>1
      <4> QED BY <1>4, <3>1, <4>1 DEF NoLostWakeup
    <3> QED BY <2>3, <3>4, <3>7, <3>8
  <2> QED BY <2>5, <2>6
<1> QED BY <1>5, <1>6, <1>7, PutSteps

\* Every step keeps the waiters where their queues say, the mutexes with their
\* owners, and no wakeup lost.
LEMMA SemaphoreStep ==
  ASSUME TypeOK, InterruptDiscipline, Control, Args, OneHome, Dead,
         Waiters, Locked, Tokens, HandlerLocks, NoLostWakeup, [Next]_vars
  PROVE  Waiters' /\ Locked' /\ Tokens' /\ NoLostWakeup'
<1> USE ProcAssumption DEF Thread, TypeOK
<1>1. ASSUME NEW p \in Thread, DownTest(p)
      PROVE  Waiters' /\ Locked' /\ Tokens' /\ NoLostWakeup'
  <2>1. /\ p = current /\ yld[p] = "none" /\ UNCHANGED <<waiting, count>>
        /\ \A q \in Thread \ {p} : pc'[q] = pc[q] /\ arg'[q] = arg[q] /\ held'[q] = held[q]
    BY <1>1 DEF DownTest, At, Goto, semVars
  <2>2. \A m \in Mutex : Owns(p, m)' => Owns(p, m)
    BY <1>1 DEF DownTest, At, Goto, semVars, Owns
  <2>3. Locked'
    BY <1>1, <2>1 DEF DownTest, At, Goto, semVars, Locked, Semaphoring
  <2> QED BY <2>1, <2>2, <2>3, WaitersFrame, OwnTokensFrame DEF NoLostWakeup
<1>2. ASSUME NEW p \in Thread, NEW s \in Semaphore, Down(p, s)
      PROVE  Waiters' /\ Locked' /\ Tokens' /\ NoLostWakeup'
  <2>1. /\ p = current /\ yld[p] = "none" /\ UNCHANGED <<waiting, count>>
        /\ \A q \in Thread \ {p} : pc'[q] = pc[q] /\ arg'[q] = arg[q] /\ held'[q] = held[q]
    BY <1>2 DEF Down, At, Goto, semVars
  <2>2. \A m \in Mutex : Owns(p, m)' => Owns(p, m)
    BY <1>2 DEF Down, At, Goto, semVars, Owns
  <2>3. Locked'
    BY <1>2, <2>1 DEF Down, At, Goto, semVars, Locked, Semaphoring
  <2> QED BY <2>1, <2>2, <2>3, WaitersFrame, OwnTokensFrame DEF NoLostWakeup
<1>3. ASSUME NEW p \in Thread, UpTest(p)
      PROVE  Waiters' /\ Locked' /\ Tokens' /\ NoLostWakeup'
  <2>1. /\ p = current /\ yld[p] = "none" /\ UNCHANGED <<waiting, count>>
        /\ \A q \in Thread \ {p} : pc'[q] = pc[q] /\ arg'[q] = arg[q] /\ held'[q] = held[q]
    BY <1>3 DEF UpTest, At, Goto, semVars
  <2>2. \A m \in Mutex : Owns(p, m)' => Owns(p, m)
    BY <1>3 DEF UpTest, At, Goto, semVars, Owns
  <2>3. Locked'
    BY <1>3, <2>1 DEF UpTest, At, Goto, semVars, Locked, Semaphoring
  <2> QED BY <2>1, <2>2, <2>3, WaitersFrame, OwnTokensFrame DEF NoLostWakeup
<1>4. ASSUME NEW p \in Thread, NEW s \in Semaphore, Up(p, s)
      PROVE  Waiters' /\ Locked' /\ Tokens' /\ NoLostWakeup'
  <2>1. /\ p = current /\ yld[p] = "none" /\ UNCHANGED <<waiting, count>>
        /\ \A q \in Thread \ {p} : pc'[q] = pc[q] /\ arg'[q] = arg[q] /\ held'[q] = held[q]
    BY <1>4 DEF Up, At, Goto, semVars
  <2>2. \A m \in Mutex : Owns(p, m)' => Owns(p, m)
    BY <1>4, SemaphoreAssumption DEF Up, At, Goto, semVars, Owns, Semaphore
  <2>3. Locked'
    BY <1>4, <2>1 DEF Up, At, Goto, semVars, Locked, Semaphoring
  <2> QED BY <2>1, <2>2, <2>3, WaitersFrame, OwnTokensFrame DEF NoLostWakeup
<1>5. ASSUME NEW p \in Thread, DownEnd(p)
      PROVE  Waiters' /\ Locked' /\ Tokens' /\ NoLostWakeup'
  <2>1. /\ p = current /\ yld[p] = "none" /\ UNCHANGED <<waiting, count>>
        /\ \A q \in Thread \ {p} : pc'[q] = pc[q] /\ arg'[q] = arg[q] /\ held'[q] = held[q]
    BY <1>5 DEF DownEnd, At, Goto, semVars
  <2>2. \A m \in Mutex : Owns(p, m)' => Owns(p, m)
    BY <1>5, <2>1, RunningWaitsNot
       DEF DownEnd, At, Goto, semVars, Owns, Queue, Semaphore
  <2>3. Locked'
    BY <1>5, <2>1 DEF DownEnd, At, Goto, semVars, Locked, Semaphoring
  <2> QED BY <2>1, <2>2, <2>3, WaitersFrame, OwnTokensFrame DEF NoLostWakeup
<1>6. ASSUME NEW p \in Thread, End(p)
      PROVE  Waiters' /\ Locked' /\ Tokens' /\ NoLostWakeup'
  <2>1. /\ p = current /\ yld[p] = "none" /\ UNCHANGED <<waiting, count>>
        /\ \A q \in Thread \ {p} : pc'[q] = pc[q] /\ arg'[q] = arg[q] /\ held'[q] = held[q]
    BY <1>6 DEF End, At, Goto, semVars
  <2>2. \A m \in Mutex : Owns(p, m)' => Owns(p, m)
    BY <1>6 DEF End, At, Goto, semVars, Owns
  <2>3. Locked'
    BY <1>6, <2>1 DEF End, At, Goto, semVars, Locked, Semaphoring
  <2> QED BY <2>1, <2>2, <2>3, WaitersFrame, OwnTokensFrame DEF NoLostWakeup
<1>7. ASSUME NEW p \in Thread, NEW d \in 0..MaxDelay, Sleep(p, d)
      PROVE  Waiters' /\ Locked' /\ Tokens' /\ NoLostWakeup'
  <2>1. /\ p = current /\ yld[p] = "none" /\ UNCHANGED <<waiting, count>>
        /\ \A q \in Thread \ {p} : pc'[q] = pc[q] /\ arg'[q] = arg[q] /\ held'[q] = held[q]
    BY <1>7 DEF Sleep, At, Goto, semVars
  <2>2. \A m \in Mutex : Owns(p, m)' => Owns(p, m)
    BY <1>7 DEF Sleep, At, Goto, semVars, Owns
  <2>3. Locked'
    BY <1>7, <2>1 DEF Sleep, At, Goto, semVars, Locked, Semaphoring
  <2> QED BY <2>1, <2>2, <2>3, WaitersFrame, OwnTokensFrame DEF NoLostWakeup
<1>8. ASSUME NEW p \in Thread, NEW c \in Proc, Start(p, c)
      PROVE  Waiters' /\ Locked' /\ Tokens' /\ NoLostWakeup'
  <2>1. /\ p = current /\ yld[p] = "none" /\ UNCHANGED <<waiting, count>>
        /\ \A q \in Thread \ {p} : pc'[q] = pc[q] /\ arg'[q] = arg[q] /\ held'[q] = held[q]
    BY <1>8 DEF Start, At, Goto, semVars
  <2>2. \A m \in Mutex : Owns(p, m)' => Owns(p, m)
    BY <1>8 DEF Start, At, Goto, semVars, Owns
  <2>3. Locked'
    BY <1>8, <2>1 DEF Start, At, Goto, semVars, Locked, Semaphoring
  <2> QED BY <2>1, <2>2, <2>3, WaitersFrame, OwnTokensFrame DEF NoLostWakeup
<1>9. ASSUME NEW p \in Thread, Exit(p)
      PROVE  Waiters' /\ Locked' /\ Tokens' /\ NoLostWakeup'
  <2>1. /\ p = current /\ yld[p] = "none" /\ UNCHANGED <<waiting, count>>
        /\ \A q \in Thread \ {p} : pc'[q] = pc[q] /\ arg'[q] = arg[q] /\ held'[q] = held[q]
    BY <1>9 DEF Exit, At, Goto, semVars
  <2>2. \A m \in Mutex : Owns(p, m)' => Owns(p, m)
    BY <1>9 DEF Exit, At, Goto, semVars, Owns
  <2>3. Locked'
    BY <1>9, <2>1 DEF Exit, At, Goto, semVars, Locked, Semaphoring
  <2> QED BY <2>1, <2>2, <2>3, WaitersFrame, OwnTokensFrame DEF NoLostWakeup
<1>10. ASSUME NEW p \in Thread, Reap(p)
      PROVE  Waiters' /\ Locked' /\ Tokens' /\ NoLostWakeup'
  <2>1. /\ p = current /\ yld[p] = "none" /\ UNCHANGED <<waiting, count>>
        /\ \A q \in Thread \ {p} : pc'[q] = pc[q] /\ arg'[q] = arg[q] /\ held'[q] = held[q]
    BY <1>10 DEF Reap, At, Goto, semVars
  <2>2. \A m \in Mutex : Owns(p, m)' => Owns(p, m)
    BY <1>10 DEF Reap, At, Goto, semVars, Owns
  <2>3. Locked'
    BY <1>10, <2>1 DEF Reap, At, Goto, semVars, Locked, Semaphoring
  <2> QED BY <2>1, <2>2, <2>3, WaitersFrame, OwnTokensFrame DEF NoLostWakeup
<1>11. ASSUME NEW p \in Thread, ReapTake(p)
      PROVE  Waiters' /\ Locked' /\ Tokens' /\ NoLostWakeup'
  <2>1. /\ p = current /\ yld[p] = "none" /\ UNCHANGED <<waiting, count>>
        /\ \A q \in Thread \ {p} : pc'[q] = pc[q] /\ arg'[q] = arg[q] /\ held'[q] = held[q]
    BY <1>11 DEF ReapTake, At, Goto, semVars
  <2>2. \A m \in Mutex : Owns(p, m)' => Owns(p, m)
    BY <1>11 DEF ReapTake, At, Goto, semVars, Owns
  <2>3. Locked'
    BY <1>11, <2>1 DEF ReapTake, At, Goto, semVars, Locked, Semaphoring
  <2> QED BY <2>1, <2>2, <2>3, WaitersFrame, OwnTokensFrame DEF NoLostWakeup
<1>12. ASSUME NEW p \in Thread, ReapEnd(p)
      PROVE  Waiters' /\ Locked' /\ Tokens' /\ NoLostWakeup'
  <2>1. /\ p = current /\ yld[p] = "none" /\ UNCHANGED <<waiting, count>>
        /\ \A q \in Thread \ {p} : pc'[q] = pc[q] /\ arg'[q] = arg[q] /\ held'[q] = held[q]
    BY <1>12 DEF ReapEnd, At, Goto, semVars
  <2>2. \A m \in Mutex : Owns(p, m)' => Owns(p, m)
    BY <1>12 DEF ReapEnd, At, Goto, semVars, Owns
  <2>3. Locked'
    BY <1>12, <2>1 DEF ReapEnd, At, Goto, semVars, Locked, Semaphoring
  <2> QED BY <2>1, <2>2, <2>3, WaitersFrame, OwnTokensFrame DEF NoLostWakeup
<1>13. ASSUME NEW p \in Thread, Unref(p)
      PROVE  Waiters' /\ Locked' /\ Tokens' /\ NoLostWakeup'
  <2>1. /\ p = current /\ yld[p] = "none" /\ UNCHANGED <<waiting, count>>
        /\ \A q \in Thread \ {p} : pc'[q] = pc[q] /\ arg'[q] = arg[q] /\ held'[q] = held[q]
    BY <1>13 DEF Unref, At, Goto, semVars
  <2>2. \A m \in Mutex : Owns(p, m)' => Owns(p, m)
    BY <1>13 DEF Unref, At, Goto, semVars, Owns
  <2>3. Locked'
    BY <1>13, <2>1 DEF Unref, At, Goto, semVars, Locked, Semaphoring
  <2> QED BY <2>1, <2>2, <2>3, WaitersFrame, OwnTokensFrame DEF NoLostWakeup
<1>14. ASSUME NEW p \in Thread, ExitPark(p)
      PROVE  Waiters' /\ Locked' /\ Tokens' /\ NoLostWakeup'
  <2>1. /\ p = current /\ yld[p] = "none" /\ UNCHANGED <<waiting, count>>
        /\ \A q \in Thread \ {p} : pc'[q] = pc[q] /\ arg'[q] = arg[q] /\ held'[q] = held[q]
    BY <1>14 DEF ExitPark, At, Goto, semVars
  <2>2. \A m \in Mutex : Owns(p, m)' => Owns(p, m)
    BY <1>14 DEF ExitPark, At, Goto, semVars, Owns
  <2>3. Locked'
    BY <1>14, <2>1 DEF ExitPark, At, Goto, semVars, Locked, Semaphoring
  <2> QED BY <2>1, <2>2, <2>3, WaitersFrame, OwnTokensFrame DEF NoLostWakeup
<1>15. ASSUME NEW p \in Thread, IrqYield(p) \/ YieldReturn(p) \/ Poll(p)
      PROVE  Waiters' /\ Locked' /\ Tokens' /\ NoLostWakeup'
  <2>1. UNCHANGED <<pc, arg, waiting, count, held>>
    BY <1>15 DEF IrqYield, YieldReturn, Poll, YieldCpu, At, semVars
  <2> QED BY <2>1 DEF Waiters, Locked, Tokens, Token, Owns, NoLostWakeup
<1>16. ASSUME NEW k \in {"tick", "device"}, Irq(k)
      PROVE  Waiters' /\ Locked' /\ Tokens' /\ NoLostWakeup'
  <2>1. UNCHANGED <<pc, arg, waiting, count, held>>
    BY <1>16 DEF Irq, semVars
  <2> QED BY <2>1 DEF Waiters, Locked, Tokens, Token, Owns, NoLostWakeup
<1>17. CASE Dispatch
  <2>1. UNCHANGED <<pc, arg, waiting, count, held>>
    BY <1>17 DEF Dispatch, semVars
  <2> QED BY <2>1 DEF Waiters, Locked, Tokens, Token, Owns, NoLostWakeup
<1>18. CASE UNCHANGED vars
  <2>1. UNCHANGED <<pc, arg, waiting, count, held>>
    BY <1>18 DEF vars, semVars
  <2> QED BY <2>1 DEF Waiters, Locked, Tokens, Token, Owns, NoLostWakeup
<1>19. ASSUME NEW p \in Thread, EndIrq(p)
      PROVE  Waiters' /\ Locked' /\ Tokens' /\ NoLostWakeup'
  <2>1. /\ p = current /\ yld[p] = "none" /\ UNCHANGED <<waiting, count, held, arg>>
        /\ pc' = [pc EXCEPT ![p] = IF @ = "hlt" THEN "reap" ELSE @]
    BY <1>19 DEF EndIrq, InIrq, semVars
  <2>2. \A q \in Thread, m \in Mutex : Owns(q, m)' => Owns(q, m)
    BY <2>1 DEF Owns
  <2>3. \A q \in Thread \ {p} : pc'[q] = pc[q] /\ arg'[q] = arg[q]
    BY <2>1
  <2>4. Locked'
    BY <2>1 DEF Locked, Semaphoring
  <2> QED BY <2>4, <2>1, <2>2, <2>3, WaitersFrame, TokensFrame DEF NoLostWakeup
<1>20. ASSUME NEW p \in Thread, StartReady(p)
      PROVE  Waiters' /\ Locked' /\ Tokens' /\ NoLostWakeup'
  <2>1. PICK c \in Proc : c = arg[p] /\ c # p /\ p = current /\ state[c] = "ABSENT"
    BY <1>20 DEF StartReady, At, Args, ArgOf, Dead
  <2>2. /\ pc' = [pc EXCEPT ![p] = "end", ![c] = "reap"]
        /\ UNCHANGED <<waiting, count, held, arg>>
    BY <1>20, <2>1 DEF StartReady, semVars
  <2>3. pc[p] = "ready" /\ yld[p] = "none"
    BY <1>20 DEF StartReady, At
  <2>4. \A q \in Thread, m \in Mutex : Owns(q, m)' => Owns(q, m)
    BY <2>1, <2>2 DEF Owns
  <2>5. Waiters'
    <3> SUFFICES ASSUME NEW s \in Semaphore, NEW q \in Range(waiting[s])
                 PROVE  pc'[q] = "downEnd" /\ arg'[q] = s
      BY <2>2 DEF Waiters
    <3>1. s \in Queue
      BY DEF Queue
    <3>2. q \in Proc
      BY <3>1, RangeOfSeq
    <3>3. q # p /\ q # c
      BY <2>1, <2>3, <3>1, <3>2, RunningWaitsNot DEF OneHome, Placed
    <3> QED BY <2>2, <3>2, <3>3 DEF Waiters
  <2>6. Locked'
    BY <2>1, <2>2 DEF Locked, Semaphoring
  <2> QED BY <2>6, <2>2, <2>4, <2>5, TokensFrame DEF NoLostWakeup
<1>21. ASSUME NEW p \in Thread, DownDec(p)
      PROVE  Waiters' /\ Locked' /\ Tokens' /\ NoLostWakeup'
  <2>1. PICK s \in Semaphore : s = arg[p] /\ count[s] > 0
    BY <1>21 DEF DownDec, At, Args, ArgOf, Semaphoring
  <2>2. /\ p = current /\ yld[p] = "none" /\ pc' = [pc EXCEPT ![p] = "downEnd"]
        /\ count' = [count EXCEPT ![s] = @ - 1] /\ UNCHANGED <<waiting, held, arg>>
    BY <1>21, <2>1 DEF DownDec, At, Goto
  <2>3. Waiters'
    BY <2>2, WaitersFrame
  <2>4. \A q \in Thread, m \in Mutex : Owns(q, m)' => Owns(q, m) \/ (q = p /\ m = s)
    BY <2>1, <2>2 DEF Owns
  <2>5. \A m \in Mutex : count'[m] = IF m = s THEN count[m] - 1 ELSE count[m]
    BY <2>2 DEF Semaphore
  <2>6. \A q \in Thread, m \in Mutex : m = s => ~ Owns(q, m)
    BY <2>1 DEF Tokens, Token
  <2>7. Tokens'
    <3> SUFFICES ASSUME NEW m \in Mutex PROVE Token(m)'
      BY DEF Tokens
    <3>1. Token(m) /\ (m = s => count[m] = 1)
      BY <2>1 DEF Tokens, Token
    <3>2. count'[m] \in {0, 1} /\ (m = s \/ count[m] = 0 => count'[m] = 0)
      BY <2>5, <3>1 DEF Token
    <3> QED BY <2>4, <2>6, <3>1, <3>2, SMTT(40) DEF Token
  <2>8. Locked'
    BY <1>21, <2>2 DEF Locked, Semaphoring, DownDec, At
  <2> QED BY <2>8, <2>1, <2>2, <2>3, <2>7 DEF NoLostWakeup
<1>22. ASSUME NEW p \in Thread, UpInc(p)
      PROVE  Waiters' /\ Locked' /\ Tokens' /\ NoLostWakeup'
  <2>1. PICK s \in Semaphore : s = arg[p] /\ waiting[s] = << >>
    BY <1>22 DEF UpInc, At, Args, ArgOf, Semaphoring
  <2>2. /\ p = current /\ yld[p] = "none" /\ pc[p] = "upInc" /\ pc' = [pc EXCEPT ![p] = "end"]
        /\ count' = [count EXCEPT ![s] = @ + 1] /\ UNCHANGED <<waiting, held, arg>>
    BY <1>22, <2>1 DEF UpInc, At, Goto
  <2>3. Waiters'
    BY <2>2, WaitersFrame
  <2>4. \A q \in Thread, m \in Mutex : Owns(q, m)' => Owns(q, m)
    BY <2>2 DEF Owns
  <2>5. \A m \in Mutex : count'[m] = IF m = s THEN count[m] + 1 ELSE count[m]
    BY <2>2 DEF Semaphore
  <2>6. s \in Mutex => Owns(p, s) /\ s \notin held[p]
    <3>1. Owns(p, s)
      BY <2>1, <2>2 DEF Owns
    <3>2. s \notin held[p]
      BY <2>1, <2>2 DEF Locked, Semaphoring
    <3> QED BY <3>1, <3>2
  <2>7. \A q \in Thread : s \in Mutex => ~ Owns(q, s)'
    <3> SUFFICES ASSUME NEW q \in Thread, s \in Mutex, Owns(q, s)'
                 PROVE  FALSE
      OBVIOUS
    <3>1. q = p
      BY <2>4, <2>6 DEF Tokens, Token
    <3> QED BY <3>1, <2>2, <2>6 DEF Owns
  <2>8. s \in Mutex => count[s] = 0
    BY <2>6 DEF Tokens, Token
  <2>9. Tokens'
    <3> SUFFICES ASSUME NEW m \in Mutex PROVE Token(m)'
      BY DEF Tokens
    <3>1. Token(m)
      BY DEF Tokens
    <3>2. CASE m = s
      BY <2>5, <2>7, <2>8, <3>2 DEF Token
    <3>3. CASE m # s
      BY <2>4, <2>5, <3>1, <3>3 DEF Token
    <3> QED BY <3>2, <3>3
  <2>10. Locked'
    BY <2>2 DEF Locked, Semaphoring
  <2> QED BY <2>10, <2>1, <2>2, <2>3, <2>9 DEF NoLostWakeup
<1>23. ASSUME NEW p \in Thread, UpWake(p)
      PROVE  Waiters' /\ Locked' /\ Tokens' /\ NoLostWakeup'
  <2>1. PICK s \in Semaphore : s = arg[p] /\ waiting[s] # << >>
    BY <1>23 DEF UpWake, At, Args, ArgOf, Semaphoring
  <2>2. s \in Queue
    BY DEF Queue
  <2>3. PICK h \in Proc : /\ h = Head(waiting[s]) /\ h \in Range(waiting[s])
                          /\ Range(Tail(waiting[s])) = Range(waiting[s]) \ {h}
    BY <2>1, <2>2, QueueTail DEF OneHome, SeparateQueues
  <2>4. /\ p = current /\ yld[p] = "none" /\ pc[p] = "upWake" /\ pc' = [pc EXCEPT ![p] = "end"]
        /\ waiting' = [waiting EXCEPT ![s] = Tail(@)] /\ UNCHANGED <<count, held, arg>>
    BY <1>23, <2>1 DEF UpWake, At, Goto
  <2>5. \A r \in Semaphore : Range(waiting'[r]) = IF r = s THEN Range(waiting[s]) \ {h}
                                                 ELSE Range(waiting[r])
    BY <2>2, <2>3, <2>4 DEF Queue
  <2>6. \A r \in Semaphore : p \notin Range(waiting[r])
    BY <2>4, RunningWaitsNot DEF Queue
  <2>7. Waiters'
    <3> SUFFICES ASSUME NEW r \in Semaphore, NEW q \in Range(waiting'[r])
                 PROVE  pc'[q] = "downEnd" /\ arg'[q] = r
      BY DEF Waiters
    <3>1. q \in Range(waiting[r])
      BY <2>5
    <3>2. q \in Proc
      BY <3>1, RangeOfSeq DEF Queue
    <3> QED BY <2>4, <2>6, <3>1, <3>2 DEF Waiters
  <2>8. h # p /\ pc[h] = "downEnd" /\ arg[h] = s
    BY <2>3, <2>6 DEF Waiters
  <2>9. \A q \in Thread, m \in Mutex :
           Owns(q, m)' => IF m = s THEN q = h ELSE Owns(q, m)
    <3> SUFFICES ASSUME NEW q \in Thread, NEW m \in Mutex, Owns(q, m)'
                 PROVE  IF m = s THEN q = h ELSE Owns(q, m)
      OBVIOUS
    <3>1. m \in Semaphore
      BY DEF Semaphore
    <3>2. CASE m # s
      BY <2>4, <2>5, <3>1, <3>2 DEF Owns
    <3>3. CASE m = s
      <4>1. Owns(p, s) /\ s \notin held[p]
        BY <2>1, <2>4, <3>3 DEF Owns, Locked, Semaphoring
      <4>2. q # p
        BY <2>4, <3>3, <4>1 DEF Owns
      <4>3. ~ Owns(q, s)
        BY <3>3, <4>1, <4>2 DEF Tokens, Token
      <4> QED BY <2>4, <2>5, <3>1, <3>3, <4>2, <4>3 DEF Owns
    <3> QED BY <3>2, <3>3
  <2>10. s \in Mutex => count[s] = 0
    <3>1. s \in Mutex => Owns(p, s)
      BY <2>1, <2>4 DEF Owns
    <3> QED BY <3>1 DEF Tokens, Token
  <2>11. Tokens'
    BY <2>4, <2>9, <2>10, SMTT(40) DEF Tokens, Token
  <2>12. NoLostWakeup'
    <3>1. count[s] = 0
      <4>1. count[s] \in Nat /\ ~ (count[s] > 0)
        BY <2>1 DEF NoLostWakeup
      <4> QED BY <4>1
    <3> QED BY <2>2, <2>4, <3>1 DEF NoLostWakeup
  <2>13. Locked'
    BY <2>4 DEF Locked, Semaphoring
  <2> QED BY <2>13, <2>7, <2>11, <2>12
<1>24. ASSUME NEW p \in Thread, DownBlock(p)
      PROVE  Waiters' /\ Locked' /\ Tokens' /\ NoLostWakeup'
  <2>1. PICK s \in Semaphore : s = arg[p] /\ count[s] = 0
    BY <1>24 DEF DownBlock, At, Args, ArgOf, Semaphoring
  <2>2. s \in Queue
    BY DEF Queue
  <2>3. /\ p = current /\ yld[p] = "none" /\ pc[p] = "downBlock"
        /\ pc' = [pc EXCEPT ![p] = "downEnd"]
        /\ waiting' = [waiting EXCEPT ![s] = Append(@, p)]
        /\ UNCHANGED <<count, held, arg>>
    BY <1>24, <2>1 DEF DownBlock, At, Goto, YieldOn
  <2>4. p \in Proc
    BY <2>3 DEF Control
  <2>5. \A r \in Semaphore : Range(waiting'[r]) = IF r = s THEN Range(waiting[s]) \cup {p}
                                                 ELSE Range(waiting[r])
    <3>1. Range(Append(waiting[s], p)) = Range(waiting[s]) \cup {p}
      BY <2>2, <2>4, QueueAppend
    <3> QED BY <2>2, <2>3, <3>1 DEF Queue
  <2>6. Waiters'
    <3> SUFFICES ASSUME NEW r \in Semaphore, NEW q \in Range(waiting'[r])
                 PROVE  pc'[q] = "downEnd" /\ arg'[q] = r
      BY DEF Waiters
    <3>1. CASE q = p
      <4>1. p \notin Range(waiting[r])
        BY <2>3, RunningWaitsNot DEF Queue
      <4> QED BY <2>1, <2>3, <2>5, <3>1, <4>1
    <3>2. CASE q # p
      <4>1. q \in Range(waiting[r])
        BY <2>5, <3>2
      <4>2. q \in Proc
        BY <4>1, RangeOfSeq DEF Queue
      <4> QED BY <2>3, <3>2, <4>1, <4>2 DEF Waiters
    <3> QED BY <3>1, <3>2
  <2>7. \A q \in Thread, m \in Mutex : Owns(q, m)' => Owns(q, m)
    <3> SUFFICES ASSUME NEW q \in Thread, NEW m \in Mutex, Owns(q, m)'
                 PROVE  Owns(q, m)
      OBVIOUS
    <3>1. m \in Semaphore
      BY DEF Semaphore
    <3>2. CASE q = p
      BY <2>1, <2>3, <2>5, <3>1, <3>2 DEF Owns
    <3>3. CASE q # p
      BY <2>3, <2>5, <3>1, <3>3 DEF Owns
    <3> QED BY <3>2, <3>3
  <2>8. NoLostWakeup'
    BY <2>1, <2>2, <2>3 DEF NoLostWakeup, Queue
  <2>9. Locked'
    BY <1>24, <2>3 DEF Locked, Semaphoring, DownBlock, At
  <2> QED BY <2>9, <2>3, <2>6, <2>7, <2>8, TokensFrame
<1>25. ASSUME NEW p \in Thread, SleepBlock(p)
      PROVE  Waiters' /\ Locked' /\ Tokens' /\ NoLostWakeup'
  <2>1. PICK d \in Timer : d = arg[p]
    BY <1>25 DEF SleepBlock, At, Args, ArgOf
  <2>2. \A s \in Semaphore : s # d
    BY SemaphoreAssumption, DelayAssumption DEF Timer
  <2>3. /\ p = current /\ yld[p] = "none" /\ pc[p] = "sleepBlock"
        /\ pc' = [pc EXCEPT ![p] = "end"]
        /\ waiting' = [waiting EXCEPT ![d] = Append(@, p)]
        /\ UNCHANGED <<count, held, arg>>
    BY <1>25, <2>1 DEF SleepBlock, At, Goto, YieldOn
  <2>4. \A s \in Semaphore : waiting'[s] = waiting[s]
    BY <2>2, <2>3 DEF Queue
  <2>5. Waiters'
    <3> SUFFICES ASSUME NEW s \in Semaphore, NEW q \in Range(waiting[s])
                 PROVE  pc'[q] = "downEnd" /\ arg'[q] = s
      BY <2>4 DEF Waiters
    <3>1. q # p /\ q \in Proc
      BY <2>3, RunningWaitsNot, RangeOfSeq DEF Queue
    <3> QED BY <2>3, <3>1 DEF Waiters
  <2>6. \A q \in Thread, m \in Mutex : Owns(q, m)' => Owns(q, m)
    BY <2>3, <2>4 DEF Owns, Semaphore
  <2>7. Locked'
    BY <2>3 DEF Locked, Semaphoring
  <2> QED BY <2>7, <2>3, <2>4, <2>5, <2>6, TokensFrame DEF NoLostWakeup
<1>26. ASSUME NEW p \in Thread, Tick(p)
      PROVE  Waiters' /\ Locked' /\ Tokens' /\ NoLostWakeup'
  <2>1. /\ \A s \in Semaphore : waiting'[s] = waiting[s]
        /\ UNCHANGED <<pc, arg, count, held>>
    BY <1>26 DEF Tick, Queue
  <2>2. Waiters' /\ Locked' /\ NoLostWakeup'
    <3>1. Waiters'
      BY <2>1 DEF Waiters
    <3>2. Locked'
      BY <2>1 DEF Locked
    <3>3. NoLostWakeup'
      BY <2>1 DEF NoLostWakeup
    <3> QED BY <3>1, <3>2, <3>3
  <2>3. \A q \in Thread, m \in Mutex : Owns(q, m)' => Owns(q, m)
    BY <2>1 DEF Owns, Semaphore
  <2> QED BY <2>1, <2>2, <2>3, TokensFrame
<1> QED BY PutKeeps, <1>1, <1>2, <1>3, <1>4, <1>5, <1>6, <1>7, <1>8, <1>9, <1>10, <1>11,
           <1>12, <1>13, <1>14, <1>15, <1>16, <1>17, <1>18, <1>19, <1>20, <1>21,
           <1>22, <1>23, <1>24, <1>25, <1>26
       DEF Next, Kernel, Interrupt, Call, Step, Put

----------------------------------------------------------------------------
\* The kernel starts in the invariant.
LEMMA InitSInv ==
  ASSUME Init
  PROVE  Waiters /\ Locked /\ Tokens /\ HandlerLocks /\ NoLostWakeup
<1>1. Waiters /\ NoLostWakeup
  BY QueueEmpty DEF Init, Waiters, NoLostWakeup, Queue
<1>2. Tokens
  BY DEF Init, Tokens, Token, Owns, Semaphore
<1>3. Locked /\ HandlerLocks
  BY DEF Init, Locked, HandlerLocks, Semaphoring
<1> QED BY <1>1, <1>2, <1>3

\* The inductive invariant holds of every behaviour of the kernel.
THEOREM SemaphoreInvariance == Spec => []SInv
<1>1. Init => SInv
  BY InitIInv, InitSInv DEF SInv
<1>2. SInv /\ [Next]_vars => SInv'
  BY NextIInv, SemaphoreStep, HandlerStep DEF SInv, IInv
<1> QED BY <1>1, <1>2, PTL DEF Spec

\* down's test and its sleep, and up's test and its wakeup or increment, cannot
\* be separated so that a process sleeps on a semaphore that is available.
THEOREM NoWakeupIsLost == Spec => []NoLostWakeup
<1>1. SInv => NoLostWakeup
  BY DEF SInv
<1> QED BY <1>1, SemaphoreInvariance, PTL

\* No two processes have locked the same mutex, whichever way it changed hands.
THEOREM MutexesExclude == Spec => []MutualExclusion
<1>1. SInv => MutualExclusion
  BY DEF SInv, IInv, TypeOK, MutualExclusion, Tokens, Token, Owns
<1> QED BY <1>1, SemaphoreInvariance, PTL

----------------------------------------------------------------------------
(* The order of the queues.                                                *)

\* Leaving a queue alone, adding at its end and removing its head are the
\* changes that overtake nobody.
LEMMA FifoChanges ==
  ASSUME NEW S, NEW s \in Seq(S)
  PROVE  /\ Fifo(s, s)
         /\ \A x \in S : Fifo(s, Append(s, x))
         /\ \A t \in Seq(S) : Fifo(s, s \o t)
         /\ s # << >> => Fifo(s, Tail(s))
<1>0. Len(s) \in Nat
  BY LenProperties
<1>1. Fifo(s, s)
  <2>1. /\ 0 <= Len(s) /\ Len(s) - 0 <= Len(s)
        /\ \A i \in 1..(Len(s) - 0) : s[i] = s[i + 0]
    BY <1>0
  <2> QED BY <2>1 DEF Fifo
<1>2. ASSUME NEW x \in S PROVE Fifo(s, Append(s, x))
  <2> DEFINE t == Append(s, x)
  <2>1. Len(t) = Len(s) + 1 /\ \A i \in 1..Len(s) : t[i] = s[i]
    BY AppendProperties
  <2> HIDE DEF t
  <2>2. /\ 0 <= Len(s) /\ Len(s) - 0 <= Len(t)
        /\ \A i \in 1..(Len(s) - 0) : t[i] = s[i + 0]
    BY <1>0, <2>1
  <2>3. Fifo(s, t)
    BY <2>2 DEF Fifo
  <2> QED BY <2>3 DEF t
<1>3. ASSUME NEW t \in Seq(S) PROVE Fifo(s, s \o t)
  <2> DEFINE u == s \o t
  <2>1. /\ Len(u) = Len(s) + Len(t) /\ Len(t) \in Nat
        /\ \A i \in 1..(Len(s) + Len(t)) :
             u[i] = IF i <= Len(s) THEN s[i] ELSE t[i - Len(s)]
    BY ConcatProperties, LenProperties
  <2> HIDE DEF u
  <2>2. /\ 0 <= Len(s) /\ Len(s) - 0 <= Len(u)
        /\ \A i \in 1..(Len(s) - 0) : u[i] = s[i + 0]
    BY <1>0, <2>1
  <2>3. Fifo(s, u)
    BY <2>2 DEF Fifo
  <2> QED BY <2>3 DEF u
<1>4. ASSUME s # << >> PROVE Fifo(s, Tail(s))
  <2> DEFINE t == Tail(s)
  <2>1. /\ t \in Seq(S) /\ Len(s) = Len(t) + 1
        /\ \A i \in 1..Len(t) : t[i] = s[i + 1]
    BY <1>4, HeadTailProperties
  <2>2. Len(t) \in Nat
    BY <2>1, LenProperties
  <2> HIDE DEF t
  <2>3. /\ 1 <= Len(s) /\ Len(s) - 1 <= Len(t)
        /\ \A i \in 1..(Len(s) - 1) : t[i] = s[i + 1]
    BY <2>1, <2>2
  <2>4. Fifo(s, t)
    BY <2>3 DEF Fifo
  <2> QED BY <2>4 DEF t
<1> QED BY <1>1, <1>2, <1>3, <1>4

\* The processes that become ready queue up behind those that are.
LEMMA ReadyFifo ==
  ASSUME TypeOK, NEW s, s \in Seq(Proc) \/ s = <<Idle>>, MakeReady(s)
  PROVE  Fifo(readyQueue, readyQueue')
<1>1. readyQueue \in Seq(Proc)
  BY DEF TypeOK
<1>2. CASE s = <<Idle>>
  BY <1>1, <1>2, FifoChanges, Zenon DEF MakeReady
<1>3. CASE s # <<Idle>> /\ s \in Seq(Proc)
  BY <1>1, <1>3, FifoChanges, Zenon DEF MakeReady
<1> QED BY <1>2, <1>3

\* One thread that becomes ready, be it the idle one.
LEMMA ReadyOne ==
  ASSUME TypeOK, NEW p \in Thread, MakeReady(<<p>>)
  PROVE  Fifo(readyQueue, readyQueue')
<1>1. CASE p \in Proc
  BY <1>1, ReadyFifo, QueueOne
<1>2. CASE p = Idle
  BY <1>2, ReadyFifo
<1> QED BY <1>1, <1>2 DEF Thread

\* Every step but a tick leaves the queue of a semaphore alone, adds the thread
\* that executes, or removes the head.
LEMMA WaitingFifo ==
  ASSUME TypeOK, NEW q \in Queue,
         \/ UNCHANGED waiting
         \/ \E p \in Proc : waiting' = [waiting EXCEPT ![q] = Append(@, p)]
         \/ waiting[q] # << >> /\ waiting' = [waiting EXCEPT ![q] = Tail(@)]
  PROVE  \A s \in Semaphore : Fifo(waiting[s], waiting'[s])
<1> SUFFICES ASSUME NEW s \in Semaphore
             PROVE  Fifo(waiting[s], waiting'[s])
  OBVIOUS
<1>1. waiting \in [Queue -> Seq(Proc)] /\ s \in Queue
  BY DEF TypeOK, Queue
<1>2. waiting[s] \in Seq(Proc)
  BY <1>1
<1>3. \/ waiting'[s] = waiting[s]
      \/ \E p \in Proc : waiting'[s] = Append(waiting[s], p)
      \/ waiting[s] # << >> /\ waiting'[s] = Tail(waiting[s])
  BY <1>1
<1> QED BY <1>2, <1>3, FifoChanges, ZenonT(40)

\* No step of the kernel lets a process overtake another in a queue.
LEMMA FifoStep ==
  ASSUME IInv, [Next]_vars
  PROVE  /\ Fifo(readyQueue, readyQueue')
         /\ \A s \in Semaphore : Fifo(waiting[s], waiting'[s])
<1> DEFINE Ready == Fifo(readyQueue, readyQueue')
           Waits == \A s \in Semaphore : Fifo(waiting[s], waiting'[s])
<1>0. TypeOK /\ Args /\ Control /\ readyQueue \in Seq(Proc)
  BY DEF IInv, TypeOK
<1>1. ASSUME UNCHANGED readyQueue PROVE Ready
  BY <1>0, <1>1, FifoChanges, Zenon
<1>2. ASSUME UNCHANGED waiting PROVE Waits
  <2> SUFFICES ASSUME NEW s \in Semaphore PROVE Fifo(waiting[s], waiting'[s])
    OBVIOUS
  <2>1. s \in Queue
    BY DEF Queue
  <2> QED BY <1>0, <1>2, <2>1, WaitingFifo
<1>3. ASSUME NEW p \in Proc, NEW q \in Queue, YieldOn(p, q) PROVE Ready /\ Waits
  <2>1. UNCHANGED readyQueue /\ waiting' = [waiting EXCEPT ![q] = Append(@, p)]
    BY <1>3 DEF YieldOn
  <2>2. Waits
    BY <1>0, <2>1, WaitingFifo
  <2> QED BY <1>1, <2>1, <2>2
<1>4. ASSUME NEW p \in Thread, YieldCpu(p) PROVE Ready /\ Waits
  BY <1>0, <1>2, <1>4, ReadyOne DEF YieldCpu
<1> HIDE DEF Ready, Waits
<1>5. ASSUME Dispatch PROVE Ready /\ Waits
  <2>1. UNCHANGED waiting
    BY <1>5 DEF Dispatch, semVars
  <2>2. CASE readyQueue = << >>
    BY <1>1, <1>2, <1>5, <2>1, <2>2 DEF Dispatch
  <2>3. CASE readyQueue # << >>
    <3>1. readyQueue' = Tail(readyQueue)
      BY <1>5, <2>3 DEF Dispatch
    <3>2. Ready
      BY <1>0, <2>3, <3>1, FifoChanges, Zenon DEF Ready
    <3> QED BY <1>2, <2>1, <3>2
  <2> QED BY <2>2, <2>3
<1>6. ASSUME NEW p \in Thread, DownBlock(p) PROVE Ready /\ Waits
  <2>1. pc[p] = "downBlock" /\ YieldOn(p, arg[p])
    BY <1>6 DEF DownBlock, At
  <2>2. p \in Proc /\ arg[p] \in Queue
    BY <1>0, <2>1 DEF Control, Args, ArgOf, Semaphoring, Thread, Queue
  <2> QED BY <1>3, <2>1, <2>2
<1>7. ASSUME NEW p \in Thread, SleepBlock(p) PROVE Ready /\ Waits
  <2>1. pc[p] = "sleepBlock" /\ YieldOn(p, arg[p])
    BY <1>7 DEF SleepBlock, At
  <2>2. p \in Proc /\ arg[p] \in Queue
    BY <1>0, <2>1 DEF Control, Args, ArgOf, Thread, Queue
  <2> QED BY <1>3, <2>1, <2>2
<1>8. ASSUME NEW p \in Thread, UpWake(p) PROVE Ready /\ Waits
  <2>1. /\ pc[p] = "upWake" /\ MakeReady(<<Head(waiting[arg[p]])>>)
        /\ waiting' = [waiting EXCEPT ![arg[p]] = Tail(@)]
    BY <1>8 DEF UpWake, At
  <2>2. arg[p] \in Queue /\ waiting[arg[p]] # << >>
    BY <1>0, <2>1 DEF Args, ArgOf, Semaphoring, Queue
  <2>3. Waits
    BY <1>0, <2>1, <2>2, WaitingFifo DEF Waits
  <2>4. waiting[arg[p]] \in Seq(Proc)
    BY <1>0, <2>2 DEF TypeOK
  <2>5. Head(waiting[arg[p]]) \in Thread
    BY <2>2, <2>4, HeadTailProperties DEF Thread
  <2> QED BY <1>0, <2>1, <2>3, <2>5, ReadyOne DEF Ready
<1>9. ASSUME NEW p \in Thread, StartReady(p) PROVE Ready /\ Waits
  <2>1. arg[p] \in Proc
    BY <1>0, <1>9 DEF StartReady, At, Args, ArgOf
  <2> QED BY <1>0, <1>2, <1>9, <2>1, ReadyOne DEF Ready, StartReady, semVars, Thread
<1>10. ASSUME NEW p \in Thread, Tick(p) PROVE Ready /\ Waits
  <2>1. 1 \in Queue \/ MaxDelay = 0
    BY DelayAssumption DEF Queue, Timer
  <2>2. (IF MaxDelay = 0 THEN << >> ELSE waiting[1]) \in Seq(Proc)
    BY <1>0, <2>1, QueueEmpty DEF TypeOK
  <2>3. Ready
    BY <1>0, <1>10, <2>2, ReadyFifo DEF Ready, Tick
  <2>4. ASSUME NEW s \in Semaphore PROVE waiting[s] \in Seq(Proc) /\ waiting'[s] = waiting[s]
    BY <1>0, <1>10 DEF Tick, TypeOK, Queue
  <2>5. Waits
    BY <2>4, FifoChanges DEF Waits
  <2> QED BY <2>3, <2>5
<1>11. ASSUME NEW p \in Thread,
              \/ DownTest(p) \/ DownDec(p) \/ DownEnd(p) \/ UpTest(p) \/ UpInc(p)
              \/ End(p) \/ ExitPark(p) \/ YieldReturn(p)
              \/ Reap(p) \/ ReapTake(p) \/ ReapEnd(p) \/ Unref(p) \/ EndIrq(p)
       PROVE  Ready /\ Waits
  <2>1. UNCHANGED <<readyQueue, waiting>>
    BY <1>11 DEF DownTest, DownDec, DownEnd, UpTest, UpInc, End, ExitPark, YieldReturn,
                 Reap, ReapTake, ReapEnd, Unref, EndIrq, procVars, semVars
  <2> QED BY <1>1, <1>2, <2>1
<1>12. ASSUME NEW p \in Thread, IrqYield(p) PROVE Ready /\ Waits
  BY <1>4, <1>12 DEF IrqYield
<1>13. ASSUME NEW p \in Proc, Call(p) PROVE Ready /\ Waits
  <2>1. CASE Poll(p)
    BY <1>4, <2>1 DEF Poll, Thread
  <2>2. CASE ~Poll(p)
    <3>1. UNCHANGED <<readyQueue, waiting>>
      BY <1>13, <2>2 DEF Call, Down, Up, Sleep, Start, Exit, procVars, semVars
    <3> QED BY <1>1, <1>2, <3>1
  <2> QED BY <2>1, <2>2
<1>14. ASSUME Interrupt \/ UNCHANGED vars PROVE Ready /\ Waits
  <2>1. UNCHANGED <<readyQueue, waiting>>
    BY <1>14 DEF Interrupt, Irq, vars, procVars, semVars
  <2> QED BY <1>1, <1>2, <2>1
<1>15. ASSUME NEW p \in Thread, Put(p) PROVE Ready /\ Waits
  <2>1. CASE UNCHANGED <<readyQueue, waiting>>
    BY <1>1, <1>2, <2>1
  <2>2. ASSUME NEW s \in Semaphore, Wakes(s) PROVE Ready /\ Waits
    <3>1. s \in Queue /\ waiting[s] \in Seq(Proc) /\ waiting[s] # << >>
      BY <1>0, <2>2 DEF TypeOK, Queue, Wakes
    <3>2. Waits
      BY <1>0, <2>2, <3>1, WaitingFifo DEF Waits, Wakes
    <3>3. Head(waiting[s]) \in Thread
      BY <3>1, HeadTailProperties DEF Thread
    <3> QED BY <1>0, <2>2, <3>2, <3>3, ReadyOne DEF Ready, Wakes
  <2>3. UNCHANGED <<readyQueue, waiting>> \/ \E s \in Semaphore : Wakes(s)
    BY <1>0, <1>15, PutSteps DEF Panics, Takes, Gives, procVars, semVars
  <2> QED BY <2>1, <2>2, <2>3
<1>16. Ready /\ Waits
  BY <1>5, <1>6, <1>7, <1>8, <1>9, <1>10, <1>11, <1>12, <1>13, <1>14, <1>15
     DEF Next, Kernel, Step, Put
<1> QED BY <1>16 DEF Ready, Waits

\* A process in the ready queue or in the queue of a semaphore is served after
\* those that were there before it, and before those that come after it.
THEOREM NobodyIsOvertaken == Spec => NoOvertaking
<1>1. IInv /\ [Next]_vars =>
        [/\ Fifo(readyQueue, readyQueue')
         /\ \A s \in Semaphore : Fifo(waiting[s], waiting'[s])]_vars
  BY FifoStep
<1> QED BY <1>1, Invariance, PTL DEF Spec, NoOvertaking

----------------------------------------------------------------------------
(* The kernel implements Multitasking: every step of Scheduler is one step *)
(* of the abstract specification or none.                                  *)
(*                                                                         *)
(* The abstract step is taken by the one step of each routine that changes *)
(* a queue, a count or the current process; IInv says of that step what    *)
(* the abstract one requires, although the routine has tested it earlier.  *)

\* The abstract cpu, as it is written in the refinement mapping.
Cpu == IF Picking THEN NoProc ELSE current

\* A step that leaves the queues, the counts, the processor and who is choosing
\* alone is a stuttering step.
LEMMA Stutter ==
  ASSUME UNCHANGED <<readyQueue, waiting, count, current>>,
         current \in Thread => (yld'[current] = "pick" <=> yld[current] = "pick"),
         TypeOK
  PROVE  UNCHANGED Abstract!vars
<1>1. UNCHANGED Picking
  BY DEF Picking, TypeOK
<1> QED BY <1>1 DEF Abstract!vars

\* The kernel starts where Multitasking does.
LEMMA InitRefines ==
  ASSUME Init
  PROVE  Abstract!Init
BY DEF Init, Abstract!Init, Picking, Queue, Semaphore, Timer, Abstract!Queue,
   Abstract!Semaphore, Abstract!Timer

\* Every step of the kernel is a step of Multitasking, or none.
LEMMA StepRefines ==
  ASSUME IInv, IInv', [Next]_vars
  PROVE  [Abstract!Next]_(Abstract!vars)
<1> USE ProcAssumption DEF Thread
<1>1. ASSUME NEW p \in Thread, DownDec(p)
      PROVE  Abstract!Next
  <2>1. PICK s \in Semaphore : s = arg[p] /\ count[s] > 0
    BY <1>1 DEF IInv, DownDec, At, Args, ArgOf, Semaphoring
  <2>2. /\ p = current /\ yld[p] = "none"
        /\ count' = [count EXCEPT ![s] = @ - 1]
        /\ UNCHANGED <<current, yld, readyQueue, waiting>>
    BY <1>1, <2>1 DEF DownDec, At, procVars
  <2>3. Cpu = p /\ Cpu' = p
    BY <2>2 DEF Cpu, Picking
  <2>4. Abstract!Acquire(p, s)
    BY <2>1, <2>2, <2>3 DEF Abstract!Acquire, Cpu
  <2> QED BY <2>4 DEF Abstract!Next, Abstract!Thread, Abstract!Semaphore, Semaphore
<1>2. ASSUME NEW p \in Thread, UpInc(p)
      PROVE  Abstract!Next
  <2>1. PICK s \in Semaphore : s = arg[p] /\ waiting[s] = << >>
    BY <1>2 DEF IInv, UpInc, At, Args, ArgOf, Semaphoring
  <2>2. /\ p = current /\ yld[p] = "none"
        /\ count' = [count EXCEPT ![s] = @ + 1]
        /\ UNCHANGED <<current, yld, readyQueue, waiting>>
    BY <1>2, <2>1 DEF UpInc, At, procVars
  <2>3. Cpu = p /\ Cpu' = p
    BY <2>2 DEF Cpu, Picking
  <2>4. Abstract!Release(p, s)
    BY <2>1, <2>2, <2>3 DEF Abstract!Release, Cpu
  <2> QED BY <2>4 DEF Abstract!Next, Abstract!Thread, Abstract!Semaphore, Semaphore
<1>3. ASSUME NEW p \in Thread, UpWake(p)
      PROVE  Abstract!Next
  <2>1. PICK s \in Semaphore : s = arg[p] /\ waiting[s] # << >>
    BY <1>3 DEF IInv, UpWake, At, Args, ArgOf, Semaphoring
  <2>2. PICK h \in Proc : h = Head(waiting[s])
    BY <2>1, QueueTail DEF IInv, TypeOK, Queue
  <2>3. /\ p = current /\ yld[p] = "none"
        /\ readyQueue' = readyQueue \o <<h>>
        /\ waiting' = [waiting EXCEPT ![s] = Tail(@)]
        /\ UNCHANGED <<current, yld, count>>
    <3>1. <<h>> # <<Idle>>
      BY <2>2
    <3> QED BY <1>3, <2>1, <2>2, <3>1 DEF UpWake, At, MakeReady
  <2>4. readyQueue \o <<h>> = Append(readyQueue, h)
    BY AppendIsConcat DEF IInv, TypeOK
  <2>5. Cpu = p /\ Cpu' = p
    BY <2>3 DEF Cpu, Picking
  <2>6. Abstract!Release(p, s)
    BY <2>1, <2>2, <2>3, <2>4, <2>5 DEF Abstract!Release, Cpu
  <2> QED BY <2>6 DEF Abstract!Next, Abstract!Thread, Abstract!Semaphore, Semaphore
<1>4. ASSUME NEW p \in Thread, DownBlock(p)
      PROVE  Abstract!Next
  <2>1. PICK s \in Semaphore : s = arg[p] /\ count[s] = 0
    BY <1>4 DEF IInv, DownBlock, At, Args, ArgOf, Semaphoring
  <2>2. /\ p = current /\ yld[p] = "none" /\ p # Idle
        /\ waiting' = [waiting EXCEPT ![s] = Append(@, p)]
        /\ yld' = [yld EXCEPT ![p] = "pick"]
        /\ UNCHANGED <<current, readyQueue, count>>
    BY <1>4, <2>1 DEF DownBlock, At, YieldOn, IInv, Control
  <2>3. Cpu = p /\ Cpu' = NoProc
    BY <2>2 DEF Cpu, Picking, IInv, TypeOK
  <2>4. s \in Queue
    BY DEF Queue
  <2>6. Abstract!Wait(p, s)
    BY <2>1, <2>2, <2>3 DEF Abstract!Wait, Cpu, Semaphore, Abstract!Semaphore
  <2> QED
    BY <2>4, <2>6 DEF Abstract!Next, Abstract!Thread, Abstract!Semaphore,
       Abstract!Timer,
                      Abstract!Queue, Semaphore, Timer, Queue
<1>5. ASSUME NEW p \in Thread, SleepBlock(p)
      PROVE  Abstract!Next
  <2>1. PICK s \in Timer : s = arg[p]
    BY <1>5 DEF IInv, SleepBlock, At, Args, ArgOf, Semaphoring
  <2>2. /\ p = current /\ yld[p] = "none" /\ p # Idle
        /\ waiting' = [waiting EXCEPT ![s] = Append(@, p)]
        /\ yld' = [yld EXCEPT ![p] = "pick"]
        /\ UNCHANGED <<current, readyQueue, count>>
    BY <1>5, <2>1 DEF SleepBlock, At, YieldOn, IInv, Control
  <2>3. Cpu = p /\ Cpu' = NoProc
    BY <2>2 DEF Cpu, Picking, IInv, TypeOK
  <2>4. s \in Queue
    BY DEF Queue
  <2>5. s \notin Semaphore
    BY <2>1, SemaphoreAssumption, DelayAssumption DEF Timer
  <2>6. Abstract!Wait(p, s)
    BY <2>1, <2>2, <2>3, <2>5 DEF Abstract!Wait, Cpu, Semaphore, Abstract!Semaphore
  <2> QED
    BY <2>4, <2>6 DEF Abstract!Next, Abstract!Thread, Abstract!Semaphore,
       Abstract!Timer,
                      Abstract!Queue, Semaphore, Timer, Queue
<1>6. ASSUME NEW p \in Thread, StartReady(p)
      PROVE  Abstract!Next
  <2>1. PICK c \in Proc : c = arg[p] /\ state[c] = "ABSENT"
    BY <1>6 DEF IInv, StartReady, At, Args, ArgOf
  <2>2. /\ p = current /\ yld[p] = "none"
        /\ readyQueue' = readyQueue \o <<c>>
        /\ UNCHANGED <<current, yld, waiting, count>>
    <3>1. <<c>> # <<Idle>>
      BY <2>1
    <3> QED BY <1>6, <2>1, <3>1 DEF StartReady, At, MakeReady, semVars
  <2>3. Cpu = p /\ Cpu' = p
    BY <2>2 DEF Cpu, Picking
  <2>4. ~ Abstract!Live(c)
    <3>1. /\ c # current /\ c \notin Range(readyQueue)
          /\ \A q \in Queue : c \notin Range(waiting[q])
      BY <2>1 DEF IInv, OneHome, Placed, Dead
    <3>2. Abstract!Queue = Queue
      BY DEF Abstract!Queue, Abstract!Semaphore, Abstract!Timer, Queue, Semaphore, Timer
    <3>3. c # p /\ Cpu = p
      BY <2>2, <2>3, <3>1
    <3>4. \A f : Abstract!Range(f) = Range(f)
      BY DEF Abstract!Range, Range
    <3> QED BY <3>1, <3>2, <3>3, <3>4 DEF Abstract!Live, Cpu
  <2>5. readyQueue \o <<c>> = Append(readyQueue, c)
    BY AppendIsConcat DEF IInv, TypeOK
  <2>6. Abstract!Start(p, c)
    BY <2>2, <2>3, <2>4, <2>5 DEF Abstract!Start, Cpu
  <2> QED BY <2>6 DEF Abstract!Next, Abstract!Thread
<1>7. ASSUME NEW p \in Thread, ExitPark(p)
      PROVE  Abstract!Next
  <2>1. /\ p = current /\ yld[p] = "none" /\ p # Idle /\ current' = NoProc
        /\ UNCHANGED <<readyQueue, waiting, count>>
    BY <1>7 DEF ExitPark, At, IInv, Control, semVars
  <2>2. Cpu = p /\ Cpu' = NoProc
    BY <2>1 DEF Cpu, Picking
  <2>3. Abstract!Exit(p)
    BY <2>1, <2>2 DEF Abstract!Exit, Cpu
  <2> QED BY <2>3 DEF Abstract!Next, Abstract!Thread
<1>8. ASSUME NEW p \in Thread, Poll(p) \/ IrqYield(p)
      PROVE  Abstract!Next
  <2>1. /\ p = current /\ yld[p] = "none" /\ yld' = [yld EXCEPT ![p] = "pick"]
        /\ readyQueue' = IF <<p>> = <<Idle>> THEN readyQueue ELSE readyQueue \o <<p>>
        /\ UNCHANGED <<current, waiting, count>>
    BY <1>8 DEF Poll, IrqYield, At, InIrq, YieldCpu, MakeReady
  <2>2. readyQueue' = IF p = Idle THEN readyQueue ELSE Append(readyQueue, p)
    <3>1. p # Idle => readyQueue \o <<p>> = Append(readyQueue, p)
      BY AppendIsConcat DEF IInv, TypeOK
    <3>2. (<<p>> = <<Idle>>) <=> p = Idle
      OBVIOUS
    <3> QED BY <2>1, <3>1, <3>2
  <2>3. Cpu = p /\ Cpu' = NoProc
    BY <2>1 DEF Cpu, Picking, IInv, TypeOK
  <2>4. Abstract!Preempt(p)
    BY <2>1, <2>2, <2>3 DEF Abstract!Preempt, Cpu
  <2> QED BY <2>4 DEF Abstract!Next, Abstract!Thread
<1>9. ASSUME NEW p \in Thread, Tick(p)
      PROVE  Abstract!Next
  <2>1. /\ p = current /\ yld[p] = "none"
        /\ readyQueue' = readyQueue \o (IF MaxDelay = 0 THEN << >> ELSE waiting[1])
        /\ waiting' = [q \in Queue |-> IF q \in Semaphore THEN waiting[q]
                                       ELSE IF q = MaxDelay THEN << >> ELSE waiting[q + 1]]
        /\ UNCHANGED <<current, yld, count>>
    <3>1. (IF MaxDelay = 0 THEN << >> ELSE waiting[1]) # <<Idle>>
      <4>1. CASE MaxDelay = 0
        BY <4>1
      <4>2. CASE MaxDelay # 0
        <5>1. 1 \in Queue
          BY <4>2, DelayAssumption DEF Queue, Timer
        <5>2. Range(waiting[1]) \subseteq Proc
          BY <5>1, RangeOfSeq DEF IInv, TypeOK
        <5>3. waiting[1] # <<Idle>>
          BY <5>2, QueueOne
        <5> QED BY <4>2, <5>3
      <4> QED BY <4>1, <4>2
    <3> QED BY <1>9, <3>1 DEF Tick, InIrq, MakeReady
  <2>2. readyQueue \o << >> = readyQueue
    BY ConcatEmptySeq DEF IInv, TypeOK
  <2>3. Cpu = p /\ Cpu' = p
    BY <2>1 DEF Cpu, Picking
  <2>4. Abstract!Tick
    BY <2>1, <2>2, <2>3 DEF Abstract!Tick, Cpu, Abstract!Queue, Abstract!Semaphore,
                            Abstract!Timer, Queue, Semaphore, Timer
  <2> QED BY <2>4 DEF Abstract!Next
<1>10. CASE Dispatch
  <2>1. /\ Picking
        /\ current' = IF readyQueue = << >> THEN Idle ELSE Head(readyQueue)
        /\ readyQueue' = IF readyQueue = << >> THEN readyQueue ELSE Tail(readyQueue)
        /\ UNCHANGED <<waiting, count>>
        /\ yld' = [q \in Thread |-> IF q = current THEN "back" ELSE yld[q]]
    BY <1>10 DEF Dispatch, semVars
  <2>2. current' \in Thread
    BY <2>1, QueueTail DEF IInv, TypeOK
  <2>3. yld'[current'] # "pick"
    BY <2>1, <2>2 DEF IInv, Control
  <2>4. Cpu = NoProc /\ Cpu' = current'
    BY <2>1, <2>2, <2>3 DEF Cpu, Picking
  <2>5. Abstract!Dispatch
    BY <2>1, <2>4 DEF Abstract!Dispatch, Cpu
  <2> QED BY <2>5 DEF Abstract!Next
<1>11. ASSUME NEW p \in Thread, 
             \/ DownTest(p) \/ UpTest(p) \/ DownEnd(p) \/ End(p) \/ Exit(p)
             \/ Reap(p) \/ ReapTake(p) \/ ReapEnd(p) \/ Unref(p) \/ EndIrq(p)
      PROVE  UNCHANGED Abstract!vars
  <2>1. UNCHANGED <<readyQueue, waiting, count, current, yld>>
    BY <1>11 DEF DownTest, UpTest, DownEnd, End, Exit, Reap, ReapTake, ReapEnd,
       Unref, EndIrq,
                procVars, semVars
  <2> QED BY <2>1, Stutter DEF IInv
<1>12. ASSUME NEW p \in Thread, NEW s \in Semaphore, Down(p, s) \/ Up(p, s)
      PROVE  UNCHANGED Abstract!vars
  <2>1. UNCHANGED <<readyQueue, waiting, count, current, yld>>
    BY <1>12 DEF Down, Up, procVars, semVars
  <2> QED BY <2>1, Stutter DEF IInv
<1>13. ASSUME NEW p \in Thread, NEW d \in 0..MaxDelay, Sleep(p, d)
      PROVE  UNCHANGED Abstract!vars
  <2>1. UNCHANGED <<readyQueue, waiting, count, current, yld>>
    BY <1>13 DEF Sleep, procVars, semVars
  <2> QED BY <2>1, Stutter DEF IInv
<1>14. ASSUME NEW p \in Thread, NEW c \in Proc, Start(p, c)
      PROVE  UNCHANGED Abstract!vars
  <2>1. UNCHANGED <<readyQueue, waiting, count, current, yld>>
    BY <1>14 DEF Start, procVars, semVars
  <2> QED BY <2>1, Stutter DEF IInv
<1>15. ASSUME NEW p \in Thread, YieldReturn(p)
      PROVE  UNCHANGED Abstract!vars
  <2>1. /\ UNCHANGED <<readyQueue, waiting, count, current>>
        /\ yld[p] = "back" /\ yld' = [yld EXCEPT ![p] = "none"] /\ current = p
    BY <1>15 DEF YieldReturn, semVars
  <2> QED BY <2>1, Stutter DEF IInv, TypeOK
<1>16. ASSUME NEW k \in {"tick", "device"}, Irq(k)
      PROVE  UNCHANGED Abstract!vars
  <2>1. UNCHANGED <<readyQueue, waiting, count, current, yld>>
    BY <1>16 DEF Irq, procVars, semVars
  <2> QED BY <2>1, Stutter DEF IInv
<1>17. CASE UNCHANGED vars
  <2>1. UNCHANGED <<readyQueue, waiting, count, current, yld>>
    BY <1>17 DEF vars, procVars, semVars
  <2> QED BY <2>1, Stutter DEF IInv
<1>18. ASSUME NEW p \in Thread, Put(p)
      PROVE  [Abstract!Next]_(Abstract!vars)
  <2>1. TypeOK /\ Control
    BY DEF IInv
  <2>2. p = current /\ yld[p] = "none" /\ UNCHANGED <<current, yld>>
    BY <1>18, <2>1, PutSteps
  <2>3. Cpu = p /\ Cpu' = p
    BY <2>2 DEF Cpu, Picking
  <2>4. CASE Panics(p)
    <3>1. UNCHANGED <<readyQueue, waiting, count, current, yld>>
      BY <2>2, <2>4 DEF Panics, procVars, semVars
    <3> QED BY <3>1, Stutter DEF IInv
  <2>5. ASSUME NEW s \in Semaphore, Takes(p, s)
        PROVE  Abstract!Next
    <3>1. Abstract!Acquire(p, s)
      BY <2>2, <2>3, <2>5 DEF Abstract!Acquire, Cpu, Takes, procVars
    <3> QED BY <3>1 DEF Abstract!Next, Abstract!Thread, Abstract!Semaphore, Semaphore
  <2>6. ASSUME NEW s \in Semaphore, Gives(p, s)
        PROVE  Abstract!Next
    <3>1. CASE Wakes(s)
      <4>1. PICK h \in Proc : h = Head(waiting[s])
        BY <3>1, QueueTail DEF IInv, TypeOK, Queue, Wakes
      <4>2. <<h>> # <<Idle>>
        BY <4>1
      <4>3. /\ readyQueue' = readyQueue \o <<h>> /\ waiting[s] # << >>
            /\ waiting' = [waiting EXCEPT ![s] = Tail(@)] /\ UNCHANGED count
        BY <3>1, <4>1, <4>2 DEF Wakes, MakeReady
      <4>4. readyQueue \o <<h>> = Append(readyQueue, h)
        BY AppendIsConcat DEF IInv, TypeOK
      <4> QED BY <2>2, <2>3, <4>1, <4>3, <4>4 DEF Abstract!Release, Cpu, Abstract!Next,
                 Abstract!Thread, Abstract!Semaphore, Semaphore
    <3>2. CASE ~ Wakes(s)
      <4>1. /\ waiting[s] = << >> /\ count' = [count EXCEPT ![s] = @ + 1]
            /\ UNCHANGED <<readyQueue, waiting>>
        BY <2>6, <3>2 DEF Gives, procVars
      <4>2. Abstract!Release(p, s)
        BY <2>2, <2>3, <4>1 DEF Abstract!Release, Cpu
      <4> QED BY <4>2 DEF Abstract!Next, Abstract!Thread, Abstract!Semaphore, Semaphore
    <3> QED BY <3>1, <3>2
  <2> QED BY <1>18, <2>1, <2>4, <2>5, <2>6, PutSteps
<1> QED BY <1>1, <1>2, <1>3, <1>4, <1>5, <1>6, <1>7, <1>8, <1>9, <1>10, <1>11,
           <1>12, <1>13, <1>14, <1>15, <1>16, <1>17, <1>18
       DEF Next, Kernel, Interrupt, Call, Step, Put

----------------------------------------------------------------------------
\* Seen from outside, semaphore operations, sleeping, forking, exiting and
\* preemption are indivisible and served first come, first served.
THEOREM Refinement == Spec => ImplementsSteps
<1>1. Init => Abstract!Init
  BY InitRefines
<1>2. IInv /\ IInv' /\ [Next]_vars => [Abstract!Next]_(Abstract!vars)
  BY StepRefines
<1> QED BY <1>1, <1>2, Invariance, PTL DEF Spec, ImplementsSteps, Abstract!Safe
============================================================================
