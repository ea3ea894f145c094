------------------------------- MODULE Frames ------------------------------
(***************************************************************************)
(* Physical memory and address spaces, vmm.cc: frames are allocated on     *)
(* page faults and by fork, given back by exec and by the destructor.  Who *)
(* drops the last reference to a process runs its destructor, with an      *)
(* address space of its own active; which references there are is          *)
(* Lifecycle's subject.                                                    *)
(*                                                                         *)
(* alloc, free, pmap and the change of address space run with interrupts   *)
(* disabled and are indivisible; between them the processor can go to any  *)
(* other process.  The processor's TLB is modelled, because the code has   *)
(* to tell it what changes.                                                *)
(***************************************************************************)
EXTENDS Integers, Sequences, FiniteSets, FiniteSetsExt, Functions

CONSTANTS
  Proc,        \* process slots, as in Scheduler
  InitProc,    \* the one that exists at first
  Idle,        \* the idle process; the frames it holds for good are not counted
  Limits,      \* how many frames there may be to allocate, 512 in the kernel
  NPages,      \* the pages from 0x80000000 on
  PerTable     \* how many of them one page table holds, 1024

Thread == Proc \cup {Idle}
Frame == 1..Max(Limits)
NoFrame == 0
Page == 0..(NPages - 1)
TableOf(v) == v \div PerTable

ASSUME ProcAssumption == InitProc \in Proc /\ Idle \notin Proc
ASSUME NameAssumption == "nothing" \notin Proc  \* what a page without a process holds
ASSUME LimitsAssumption == /\ Limits \subseteq Nat \ {0, 1}
                           /\ Limits # {} /\ IsFiniteSet(Limits)
ASSUME SizeAssumption == NPages \in Nat \ {0} /\ PerTable \in Nat \ {0}

\* What an address space has a frame for: its directory, the table of the
\* kernel's identity mapping, tables and pages of its own.
PD == <<"directory", 0>>
Low == <<"kernel", 0>>
PT(t) == <<"table", t>>
PG(v) == <<"page", v>>
Slot == {PD, Low} \cup {PT(TableOf(v)) : v \in Page} \cup {PG(v) : v \in Page}

VARIABLES
  limit,       \* the frames that there are, 1..limit
  current,     \* the process that runs
  tlb,         \* the frames that the processor remembers for pages
  free,        \* free[f]: how often f is in PhysMem's list, or beyond avail
  own,         \* own[p][s]: the frame of slot s in p's address space
  content,     \* who has written a frame last, "blank" or "link"
  pc,          \* what a process is doing in its address space
  child,       \* the process it is forking
  todo,        \* the pages its loop in fork or exec has still to look at
  frame,       \* a frame that it has allocated, or unmapped, and holds
  fault,       \* the page it has faulted on
  victim,      \* the process that a thread is deleting, Idle if none
  machine      \* "up" until alloc panics

pool == <<free, content>>
locals == <<child, todo, frame, fault, victim>>
system == <<limit, machine>>
vars == <<system, current, tlb, pool, own, pc, locals>>

Empty == [s \in Slot |-> NoFrame]
NoTlb == [v \in Page |-> NoFrame]
Gone == {"absent", "building", "dead", "dying"}

\* The first process has been constructed: its directory and kernel table.
Init ==
  /\ limit \in Limits
  /\ current = InitProc
  /\ tlb = NoTlb
  /\ free = [f \in Frame |-> IF f \in 3..limit THEN 1 ELSE 0]
  /\ own = [p \in Proc |-> IF p = InitProc THEN [Empty EXCEPT ![PD] = 1, ![Low] = 2]
                                           ELSE Empty]
  /\ content = [f \in Frame |-> "blank"]
  /\ pc = [p \in Proc |-> IF p = InitProc THEN "user" ELSE "absent"]
  /\ child = [p \in Proc |-> Idle]
  /\ todo = [p \in Proc |-> {}]
  /\ frame = [p \in Proc |-> NoFrame]
  /\ fault = [p \in Proc |-> 0]
  /\ victim = [t \in Thread |-> Idle]
  /\ machine = "up"

----------------------------------------------------------------------------
(* PhysMem.                                                                *)

Available == {f \in Frame : free[f] > 0}

CanAlloc == Available # {}

\* The frame that alloc takes.  The code takes the one freed last, or else a
\* new one; which one it is makes no difference, as a frame's number is never
\* looked at.  When there is none, avail is the address behind the last.
Taken == IF Available = {} THEN limit + 1 ELSE Min(Available)

\* Mutant: the frame is not cleared.
AllocDirty(data) ==
  /\ free' = [free EXCEPT ![Taken] = @ - 1]
  /\ content' = IF data = "blank" THEN content ELSE [content EXCEPT ![Taken] = data]
  /\ UNCHANGED system

\* alloc takes and clears a frame, which then gets the given content.
Alloc(data) ==
  /\ free' = [free EXCEPT ![Taken] = @ - 1]
  /\ content' = [content EXCEPT ![Taken] = data]
  /\ UNCHANGED system

NoMoreFrames ==
  /\ ~CanAlloc
  /\ machine' = "halted"
  /\ UNCHANGED <<limit, current, tlb, pool, own, pc, locals>>

\* free links the frame into the list, through its first word.
FreeFrame(f) ==
  /\ free' = [free EXCEPT ![f] = @ + 1]
  /\ content' = [content EXCEPT ![f] = "link"]
  /\ UNCHANGED system

----------------------------------------------------------------------------
(* Process p runs, at step l, and is not in a destructor.                  *)

Runs(p, l) == machine = "up" /\ current = p /\ pc[p] = l /\ victim[p] = Idle
Goto(p, l) == pc' = [pc EXCEPT ![p] = l]
Forget(v) == tlb' = [tlb EXCEPT ![v] = NoFrame]

\* AddressSpace::pmap of q, by getPTE with a new table if there is none.
Pmap(q, v, f) ==
  LET t == PT(TableOf(v)) IN
  IF own[q][t] # NoFrame
    THEN /\ own' = [own EXCEPT ![q][PG(v)] = f]
         /\ UNCHANGED <<pool, system>>
    ELSE /\ CanAlloc
         /\ own' = [own EXCEPT ![q][PG(v)] = f, ![q][t] = Taken]
         /\ Alloc("blank")

\* The processor writes through its TLB, or walks the tables and remembers.
Access(p, v) ==
  LET f == IF tlb[v] # NoFrame THEN tlb[v] ELSE own[p][PG(v)]
  IN /\ Runs(p, "user")
     /\ f # NoFrame
     /\ tlb' = [tlb EXCEPT ![v] = f]
     /\ content' = [content EXCEPT ![f] = p]
     /\ UNCHANGED <<current, free, own, pc, locals, system>>

\* handlePageFault allocates a frame ...
Fault(p, v) ==
  /\ Runs(p, "user")
  /\ tlb[v] = NoFrame /\ own[p][PG(v)] = NoFrame
  /\ \/ /\ CanAlloc
        /\ frame' = [frame EXCEPT ![p] = Taken]
        /\ fault' = [fault EXCEPT ![p] = v]
        /\ Alloc("blank")
        /\ Goto(p, "map")
        /\ UNCHANGED <<current, tlb, own, child, todo, victim>>
     \/ NoMoreFrames

\* ... and maps it.
Map(p) ==
  /\ Runs(p, "map")
  /\ \/ /\ Pmap(p, fault[p], frame[p])
        /\ Forget(fault[p])
        /\ frame' = [frame EXCEPT ![p] = NoFrame]
        /\ fault' = [fault EXCEPT ![p] = 0]
        /\ Goto(p, "user")
        /\ UNCHANGED <<current, child, todo, victim>>
     \/ own[p][PT(TableOf(fault[p]))] = NoFrame /\ NoMoreFrames

Mapped(p) == {v \in Page : own[p][PG(v)] # NoFrame}

\* Child::Child: the constructor of its address space ...
Fork(p, c) ==
  /\ Runs(p, "user")
  /\ pc[c] = "absent"
  /\ pc' = [pc EXCEPT ![p] = "forkPd", ![c] = "building"]
  /\ child' = [child EXCEPT ![p] = c]
  /\ UNCHANGED <<current, tlb, pool, own, todo, frame, fault, victim, system>>

ForkTable(p, l, s, next) ==
  /\ Runs(p, l)
  /\ \/ /\ CanAlloc
        /\ own' = [own EXCEPT ![child[p]][s] = Taken]
        /\ Alloc("blank")
        /\ Goto(p, next)
        /\ todo' = [todo EXCEPT ![p] = Mapped(p)]
        /\ UNCHANGED <<current, tlb, child, frame, fault, victim>>
     \/ NoMoreFrames

ForkPd(p) == ForkTable(p, "forkPd", PD, "forkLow")
ForkLow(p) == ForkTable(p, "forkLow", Low, "fork")

\* ... then AddressSpace::fork: each page of the parent is copied ...
ForkCopy(p) ==
  /\ Runs(p, "fork")
  /\ todo[p] # {}
  /\ \/ /\ CanAlloc
        /\ frame' = [frame EXCEPT ![p] = Taken]
        /\ Alloc(content[own[p][PG(Min(todo[p]))]])
        /\ Goto(p, "forkMap")
        /\ UNCHANGED <<current, tlb, own, child, todo, fault, victim>>
     \/ NoMoreFrames

\* Mutant: the child shares the parent's frame.
ForkMapShared(p) ==
  LET v == Min(todo[p])
  IN /\ Runs(p, "forkMap")
     /\ \/ /\ Pmap(child[p], v, own[p][PG(v)])
           /\ Forget(v)
           /\ frame' = [frame EXCEPT ![p] = NoFrame]
           /\ todo' = [todo EXCEPT ![p] = @ \ {v}]
           /\ Goto(p, "fork")
           /\ UNCHANGED <<current, child, fault, victim>>
        \/ own[child[p]][PT(TableOf(v))] = NoFrame /\ NoMoreFrames

\* ... and mapped by the child, under the same address.
ForkMap(p) ==
  LET v == Min(todo[p])
  IN /\ Runs(p, "forkMap")
     /\ \/ /\ Pmap(child[p], v, frame[p])
           /\ Forget(v)
           /\ frame' = [frame EXCEPT ![p] = NoFrame]
           /\ todo' = [todo EXCEPT ![p] = @ \ {v}]
           /\ Goto(p, "fork")
           /\ UNCHANGED <<current, child, fault, victim>>
        \/ own[child[p]][PT(TableOf(v))] = NoFrame /\ NoMoreFrames

ForkEnd(p) ==
  /\ Runs(p, "fork")
  /\ todo[p] = {}
  /\ pc' = [pc EXCEPT ![p] = "user", ![child[p]] = "user"]
  /\ child' = [child EXCEPT ![p] = Idle]
  /\ UNCHANGED <<current, tlb, pool, own, todo, frame, fault, victim, system>>

\* AddressSpace::exec: each page is unmapped, and its frame given back.
Exec(p) ==
  /\ Runs(p, "user")
  /\ todo' = [todo EXCEPT ![p] = Mapped(p)]
  /\ Goto(p, "exec")
  /\ UNCHANGED <<current, tlb, pool, own, child, frame, fault, victim, system>>

\* Mutant: the TLB is not told.
ExecUnmapQuiet(p) ==
  LET v == Min(todo[p])
  IN /\ Runs(p, "exec")
     /\ todo[p] # {}
     /\ frame' = [frame EXCEPT ![p] = own[p][PG(v)]]
     /\ own' = [own EXCEPT ![p][PG(v)] = NoFrame]
     /\ todo' = [todo EXCEPT ![p] = @ \ {v}]
     /\ Goto(p, "execFree")
     /\ UNCHANGED <<current, tlb, pool, child, fault, victim, system>>

ExecUnmap(p) ==
  LET v == Min(todo[p])
  IN /\ Runs(p, "exec")
     /\ todo[p] # {}
     /\ frame' = [frame EXCEPT ![p] = own[p][PG(v)]]
     /\ own' = [own EXCEPT ![p][PG(v)] = NoFrame]
     /\ Forget(v)
     /\ todo' = [todo EXCEPT ![p] = @ \ {v}]
     /\ Goto(p, "execFree")
     /\ UNCHANGED <<current, pool, child, fault, victim, system>>

ExecFree(p) ==
  /\ Runs(p, "execFree")
  /\ FreeFrame(frame[p])
  /\ frame' = [frame EXCEPT ![p] = NoFrame]
  /\ Goto(p, "exec")
  /\ UNCHANGED <<current, tlb, own, child, todo, fault, victim>>

ExecEnd(p) ==
  /\ Runs(p, "exec")
  /\ todo[p] = {}
  /\ Goto(p, "user")
  /\ UNCHANGED <<current, tlb, pool, own, locals, system>>

\* The processor goes to q, whose address space dispatch activates: that
\* empties the TLB.
SwitchTo(q) ==
  /\ q # Idle => pc[q] \notin Gone
  /\ current' = q
  /\ tlb' = NoTlb

\* Process::exit: whoever dispatch finds runs from here on.
Exit(p) ==
  /\ Runs(p, "user")
  /\ Goto(p, "dead")
  /\ \E q \in Thread \ {p} : SwitchTo(q)
  /\ UNCHANGED <<pool, own, locals, system>>

\* A dispatch can come between any two of the steps above and below.
Dispatch(q) ==
  /\ machine = "up"
  /\ q # current
  /\ SwitchTo(q)
  /\ UNCHANGED <<pool, own, pc, locals, system>>

----------------------------------------------------------------------------
(* Deleting a process that is dead.                                        *)

\* The destructor gives back the kernel's table, then each table after its
\* pages, then the directory.
Before(s, t) == \/ s = Low /\ t # Low
                \/ t = PD /\ s # PD
                \/ \E v, w \in Page : s = PG(v) /\ t = PG(w) /\ v < w
                \/ \E v \in Page : s = PG(v) /\ t = PT(TableOf(v))
                \/ \E v \in Page : t = PG(v) /\ \E u \in 0..(TableOf(v) - 1) : s = PT(u)
                \/ \E u, w \in 0..TableOf(NPages - 1) : s = PT(u) /\ t = PT(w) /\ u < w

Left(p) == {s \in Slot : own[p][s] # NoFrame}

\* The running thread drops the last reference to p: the idle process or a new
\* one in checkReaper, any process in close, closeAll and the end of join.
Destroy(t, p) ==
  /\ machine = "up"
  /\ current = t
  /\ victim[t] = Idle
  /\ t # Idle => pc[t] = "user"
  /\ pc[p] = "dead"
  /\ Goto(p, "dying")
  /\ victim' = [victim EXCEPT ![t] = p]
  /\ UNCHANGED <<current, tlb, pool, own, child, todo, frame, fault, system>>

\* One frame after the other, each with interrupts enabled before and after.
GiveBack(t) ==
  LET p == victim[t]
  IN /\ machine = "up"
     /\ current = t
     /\ p # Idle
     /\ \E s \in Left(p) :
          /\ \A r \in Left(p) \ {s} : Before(s, r)
          /\ FreeFrame(own[p][s])
          /\ own' = [own EXCEPT ![p][s] = NoFrame]
          /\ IF Left(p) = {s}
               THEN Goto(p, "absent") /\ victim' = [victim EXCEPT ![t] = Idle]
               ELSE UNCHANGED <<pc, victim>>
     /\ UNCHANGED <<current, tlb, child, todo, frame, fault>>

\* checkReaper at the end of dispatch drops the last reference, under the level
\* of disable that yield still has: at whatever step the running thread was
\* preempted, and in one piece.
Reap(p) ==
  LET frames == {own[p][s] : s \in Left(p)}
  IN /\ machine = "up"
     /\ pc[p] = "dead"
     /\ free' = [f \in Frame |-> IF f \in frames THEN free[f] + 1 ELSE free[f]]
     /\ content' = [f \in Frame |-> IF f \in frames THEN "link" ELSE content[f]]
     /\ own' = [own EXCEPT ![p] = Empty]
     /\ Goto(p, "absent")
     /\ UNCHANGED <<current, tlb, locals, system>>

Next ==
  \/ \E p \in Proc :
       \/ \E v \in Page : Access(p, v) \/ Fault(p, v)
       \/ Map(p)
       \/ \E c \in Proc : Fork(p, c)
       \/ ForkPd(p) \/ ForkLow(p) \/ ForkCopy(p) \/ ForkMap(p) \/ ForkEnd(p)
       \/ Exec(p) \/ ExecUnmap(p) \/ ExecFree(p) \/ ExecEnd(p)
       \/ Exit(p) \/ Reap(p)
  \/ \E t \in Thread :
       \/ Dispatch(t)
       \/ \E p \in Proc : Destroy(t, p)
       \/ GiveBack(t)

Spec == Init /\ [][Next]_vars

----------------------------------------------------------------------------
(* Properties.                                                             *)

\* The variables have their types.
TypeOK ==
  /\ limit \in Limits
  /\ current \in Thread
  /\ tlb \in [Page -> Frame \cup {NoFrame}]
  /\ free \in [Frame -> Nat]
  /\ own \in [Proc -> [Slot -> 1..limit \cup {NoFrame}]]
  /\ content \in [Frame -> Proc \cup {"blank", "link"}]
  /\ pc \in [Proc -> Gone \cup {"user", "map", "forkPd", "forkLow", "fork",
                                "forkMap", "exec", "execFree"}]
  /\ child \in [Proc -> Proc \cup {Idle}]
  /\ todo \in [Proc -> SUBSET Page]
  /\ frame \in [Proc -> Frame \cup {NoFrame}]
  /\ fault \in [Proc -> Page]
  /\ victim \in [Thread -> Thread]
  /\ machine \in {"up", "halted"}

Owned(f) == {x \in Proc \X Slot : own[x[1]][x[2]] = f}
Held(f) == {p \in Proc : frame[p] = f}

\* Every frame is in exactly one place: in the list or never allocated, in one
\* slot of one address space, or held by one process on its way from or to
\* these.  No frame is lost and none is in use twice (vmm.cc:23-84, 134-186),
\* and a process that is deleted has given back all it had (vmm.cc:66-84).
FramesConserved ==
  /\ TypeOK
  /\ \A f \in 1..limit : free[f] + Cardinality(Owned(f)) + Cardinality(Held(f)) = 1
  /\ \A p \in Proc : pc[p] = "absent" => own[p] = Empty /\ frame[p] = NoFrame

\* What the processor remembers is what the tables of the running process say.
TlbCoherent ==
  \A v \in Page : tlb[v] # NoFrame =>
    current \in Proc /\ own[current][PG(v)] = tlb[v]

\* What process p sees in page v.
Sees(p, v) == IF pc[p] \in Gone THEN "nothing"
              ELSE IF own[p][PG(v)] = NoFrame THEN "blank"
              ELSE content[own[p][PG(v)]]
Mem == [p \in Proc |-> [v \in Page |-> Sees(p, v)]]

\* Each process has memory of its own, which fork copies: what one writes is
\* never seen by another, nor by the next owner of the frame.
Memory == INSTANCE PrivateMemory WITH
  Blank <- "blank", Nothing <- "nothing", mem <- Mem
ImplementsPrivateMemory == Memory!Spec
============================================================================
