---------------------------- MODULE Multitasking ----------------------------
(***************************************************************************)
(* What the multitasking core promises the rest of the kernel: one thread  *)
(* at a time has the processor, every call is one indivisible step, and    *)
(* semaphores, timers and the processor itself are handed out first come,  *)
(* first served.  Interrupts show only as the processor being taken away.  *)
(* Scheduler.tla is the code that implements this.                         *)
(***************************************************************************)
EXTENDS Integers, Sequences, Functions

CONSTANTS Proc, InitProc, Idle, NoProc, Mutex, Sem, SemInit, MaxCount, MaxDelay

Thread == Proc \cup {Idle}
Semaphore == Mutex \cup Sem
Timer == 1..MaxDelay
Queue == Semaphore \cup Timer

VARIABLES
  cpu,       \* the thread that has the processor; NoProc while none has
  ready,     \* the threads that could use it, head first
  blocked,   \* the threads waiting for a semaphore or for a time to come
  count      \* the value of each semaphore

vars == <<cpu, ready, blocked, count>>

Init ==
  /\ cpu = NoProc
  /\ ready = <<InitProc>>
  /\ blocked = [q \in Queue |-> << >>]
  /\ count = [s \in Semaphore |-> IF s \in Mutex THEN 1 ELSE SemInit[s]]

Live(p) ==
  \/ cpu = p
  \/ p \in Range(ready)
  \/ \E q \in Queue : p \in Range(blocked[q])

\* The processor goes to the first ready thread, or to the idle thread.
Dispatch ==
  /\ cpu = NoProc
  /\ cpu' = IF ready = << >> THEN Idle ELSE Head(ready)
  /\ ready' = IF ready = << >> THEN ready ELSE Tail(ready)
  /\ UNCHANGED <<blocked, count>>

\* The thread loses the processor, to the back of the queue.
Preempt(p) ==
  /\ cpu = p
  /\ cpu' = NoProc
  /\ ready' = IF p = Idle THEN ready ELSE Append(ready, p)
  /\ UNCHANGED <<blocked, count>>

Acquire(p, s) ==
  /\ cpu = p
  /\ count[s] > 0
  /\ count' = [count EXCEPT ![s] = @ - 1]
  /\ UNCHANGED <<cpu, ready, blocked>>

\* A semaphore that is not available, or a time that has not come.
Wait(p, q) ==
  /\ cpu = p
  /\ p # Idle
  /\ q \in Semaphore => count[q] = 0
  /\ cpu' = NoProc
  /\ blocked' = [blocked EXCEPT ![q] = Append(@, p)]
  /\ UNCHANGED <<ready, count>>

\* The semaphore goes to the first thread waiting for it, if there is one.
Release(p, s) ==
  /\ cpu = p
  /\ \/ /\ blocked[s] = << >>
        /\ count' = [count EXCEPT ![s] = @ + 1]
        /\ UNCHANGED <<ready, blocked>>
     \/ /\ blocked[s] # << >>
        /\ ready' = Append(ready, Head(blocked[s]))
        /\ blocked' = [blocked EXCEPT ![s] = Tail(@)]
        /\ UNCHANGED count
  /\ UNCHANGED cpu

Tick ==
  /\ cpu # NoProc
  /\ ready' = IF MaxDelay = 0 THEN ready ELSE ready \o blocked[1]
  /\ blocked' = [q \in Queue |-> IF q \in Semaphore THEN blocked[q]
                                 ELSE IF q = MaxDelay THEN << >>
                                 ELSE blocked[q + 1]]
  /\ UNCHANGED <<cpu, count>>

Start(p, c) ==
  /\ cpu = p
  /\ ~Live(c)
  /\ ready' = Append(ready, c)
  /\ UNCHANGED <<cpu, blocked, count>>

Exit(p) ==
  /\ cpu = p
  /\ p # Idle
  /\ cpu' = NoProc
  /\ UNCHANGED <<ready, blocked, count>>

Next ==
  \/ Dispatch
  \/ Tick
  \/ \E p \in Thread :
       \/ Preempt(p)
       \/ Exit(p)
       \/ \E s \in Semaphore : Acquire(p, s) \/ Release(p, s)
       \/ \E q \in Queue : Wait(p, q)
       \/ \E c \in Proc : Start(p, c)

Safe == Init /\ [][Next]_vars

\* The processor is always given to somebody, and no thread keeps it.
Spec == Safe /\ WF_vars(Dispatch) /\ \A p \in Thread : WF_vars(Preempt(p))
=============================================================================
