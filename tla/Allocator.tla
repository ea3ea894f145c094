----------------------------- MODULE Allocator -----------------------------
(***************************************************************************)
(* What malloc and free promise to their callers: a block lies inside the  *)
(* arena, overlaps no other block in use, and is refused only when no free *)
(* gap is large enough.  Units are ints, and a block's tags belong to it.  *)
(***************************************************************************)
EXTENDS Integers

CONSTANTS First, Last,   \* the arena
          Sizes          \* the sizes asked for

VARIABLES live,     \* the blocks in use
          result    \* the block the last malloc returned, 0 when it was refused

vars == <<live, result>>

Block == [at : First..Last, ints : 1..(Last - First + 1)]
\* The n ints from i on are in the arena and in no block of blocks.
Free(blocks, i, n) ==
  /\ First <= i /\ i + n - 1 <= Last
  /\ \A b \in blocks : b.at + b.ints <= i \/ i + n <= b.at

Init == live = {} /\ result = 0

\* The block may be larger than asked for, up to what is left of its gap.
Taken(b, n) ==
  /\ result' = b.at
  /\ b.ints >= n
  /\ Free(live, b.at, b.ints)

Allocate(n) == \E b \in Block : Taken(b, n) /\ live' = live \cup {b}

Refuse(n) ==
  /\ \A i \in First..Last : ~Free(live, i, n)
  /\ result' = 0
  /\ UNCHANGED live

Release(b) ==
  /\ live' = live \ {b}
  /\ result' = 0

\* realloc: the new block is taken before the old one is given back, and the old
\* one is gone also when there is no new one.
Replace(b, n) ==
  \/ \E c \in Block : Taken(c, n) /\ live' = (live \cup {c}) \ {b}
  \/ /\ \A i \in First..Last : ~Free(live, i, n)
     /\ live' = live \ {b}
     /\ result' = 0

Next == \/ \E n \in Sizes : Allocate(n) \/ Refuse(n)
        \/ \E b \in live : Release(b) \/ \E n \in Sizes : Replace(b, n)

Spec == Init /\ [][Next]_vars
============================================================================
