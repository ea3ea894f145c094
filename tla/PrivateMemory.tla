--------------------------- MODULE PrivateMemory ---------------------------
(***************************************************************************)
(* What address spaces promise to processes: memory of their own.  A page  *)
(* starts blank, holds what its process has written last, is copied by     *)
(* fork, and nothing that another process does changes it.                 *)
(***************************************************************************)
CONSTANTS Proc, Page, Blank, Nothing

VARIABLE mem    \* mem[p][v] is what page v of p holds; Nothing without a process

Absent == [v \in Page |-> Nothing]

\* Some processes exist, with blank memory.
Init == mem \in [Proc -> {Absent, [v \in Page |-> Blank]}]

\* A process writes; what it writes is told from what others write.
Store(p, v) == /\ mem[p] # Absent
               /\ mem' = [mem EXCEPT ![p][v] = p]

Fork(p, c) == /\ mem[p] # Absent /\ mem[c] = Absent
              /\ mem' = [mem EXCEPT ![c] = mem[p]]

\* exec gives a page back; the process sees a blank one in its place.
Clear(p, v) == /\ mem[p] # Absent
               /\ mem' = [mem EXCEPT ![p][v] = Blank]

Exit(p) == mem' = [mem EXCEPT ![p] = Absent]

Next == \E p \in Proc : \/ \E v \in Page : Store(p, v) \/ Clear(p, v)
                        \/ \E c \in Proc : Fork(p, c)
                        \/ Exit(p)

Spec == Init /\ [][Next]_mem
============================================================================
