-------------------------------- MODULE Heap -------------------------------
(***************************************************************************)
(* The first-fit heap with boundary tags: heap.cc of the kernel, and its   *)
(* copy in the user library, user/heap.c.  The heap is an array of ints;   *)
(* a block has its size in its first and last int, negative while it is    *)
(* taken, and a free block's second and third int link it into the list    *)
(* that starts at avail.  Everything the allocator knows is in that array, *)
(* between the words of its callers.                                       *)
(*                                                                         *)
(* The kernel runs malloc and free with interrupts disabled, and a user    *)
(* heap belongs to one process, so each call is one action.  The panics    *)
(* other than "heap is full" are comments in user/heap.c; they are not      *)
(* reached in either (NeverBad).                                           *)
(***************************************************************************)
EXTENDS Integers, FiniteSets, FiniteSetsExt

CONSTANTS
  Len,       \* the ints of the heap
  Sizes,     \* what callers ask for: ints with the two tags, at least 4
  Word       \* what callers write into their blocks

ASSUME LenAssumption == Len \in Nat /\ Len >= 8
ASSUME SizesAssumption == Sizes \subseteq 4..Len
ASSUME WordAssumption == Word \in Int

VARIABLES
  array, avail,
  live,      \* history: the blocks callers have and have not given back
  result,    \* what malloc has returned last, 0 for no block
  machine    \* "kernel" or "user", whose heap it is; "full" after the kernel's
             \* panic on a full heap, "bad" after another panic

vars == <<array, avail, live, result, machine>>

----------------------------------------------------------------------------
(* The helpers, on a heap h with fields array and avail.                   *)

Abs(x) == IF x < 0 THEN -x ELSE x
Size(h, i) == Abs(h.array[i])
Footer(h, i) == i + Size(h, i) - 1
\* sanity(i) does not panic.
Sane(h, i) == \/ i = 0
              \/ /\ i \in 0..(Len - 1)
                 /\ Footer(h, i) \in 0..(Len - 1)
                 /\ h.array[i] = h.array[Footer(h, i)]
LeftOf(h, i) == i - Size(h, i - 1)
RightOf(h, i) == i + Size(h, i)
IsAvail(h, i) == h.array[i] > 0
\* The sanity of next(i) and prev(i), which remove asks for.
Removable(h, i) == Sane(h, h.array[i + 1]) /\ Sane(h, h.array[i + 2])

\* Mutant: the link back is not updated.
RemoveHalf(h, i) ==
  LET nextIndex == h.array[i + 1]
      prevIndex == h.array[i + 2]
  IN [array |-> IF prevIndex = 0 THEN h.array
                                 ELSE [h.array EXCEPT ![prevIndex + 1] = nextIndex],
      avail |-> IF prevIndex = 0 THEN nextIndex ELSE h.avail]

Remove(h, i) ==
  LET nextIndex == h.array[i + 1]
      prevIndex == h.array[i + 2]
      linked == IF prevIndex = 0 THEN h.array
                                 ELSE [h.array EXCEPT ![prevIndex + 1] = nextIndex]
  IN [array |-> IF nextIndex = 0 THEN linked
                                 ELSE [linked EXCEPT ![nextIndex + 2] = prevIndex],
      avail |-> IF prevIndex = 0 THEN nextIndex ELSE h.avail]

MakeTaken(h, i, ints) ==
  [h EXCEPT !.array = [@ EXCEPT ![i] = -ints, ![i + ints - 1] = -ints]]

MakeAvail(h, i, ints) ==
  LET block == [h.array EXCEPT ![i] = ints, ![i + ints - 1] = ints,
                               ![i + 1] = h.avail, ![i + 2] = 0]
  IN [array |-> IF h.avail = 0 THEN block ELSE [block EXCEPT ![h.avail + 2] = i],
      avail |-> i]

\* Blocks are no smaller than 4 ints, so there are no more than this.
Most == Len \div 4

\* The kth block of the list, 0 when there are fewer.
Listed(h) ==
  LET at[k \in 0..Most] ==
        IF k = 0 THEN h.avail
                 ELSE LET i == at[k - 1] IN IF i = 0 THEN 0 ELSE h.array[i + 1]
  IN at

----------------------------------------------------------------------------
\* Heap::init: a taken block at each end, so that every other has neighbours.
Init ==
  LET zero == [array |-> [i \in 0..(Len - 1) |-> 0], avail |-> 0]
      h == MakeTaken(MakeAvail(MakeTaken(zero, 0, 2), 2, Len - 4), Len - 2, 2)
  IN /\ array = h.array
     /\ avail = h.avail
     /\ live = {}
     /\ result = 0
     /\ machine \in {"kernel", "user"}

Up == machine \in {"kernel", "user"}
Here == [array |-> array, avail |-> avail]
Becomes(h) == array' = h.array /\ avail' = h.avail

\* Mutant: a rest that is too small for a block is split off.
TakeTight(h, i, n) ==
  IF Size(h, i) - n >= 3
    THEN MakeAvail(MakeTaken(Remove(h, i), i, n), i + n, Size(h, i) - n)
    ELSE MakeTaken(Remove(h, i), i, Size(h, i))

\* Block i is taken from the list, and split when the rest can be a block.
Take(h, i, n) ==
  IF Size(h, i) - n >= 4
    THEN MakeAvail(MakeTaken(Remove(h, i), i, n), i + n, Size(h, i) - n)
    ELSE MakeTaken(Remove(h, i), i, Size(h, i))

\* Mutant: a free neighbour on the right is not merged.
GiveBackLeft(h, i) ==
  LET l == LeftOf(h, i)
  IN IF IsAvail(h, l) THEN MakeAvail(Remove(h, l), l, Size(h, l) + Size(h, i))
                      ELSE MakeAvail(h, i, Size(h, i))

\* Block i is merged with its free neighbours and put at the head of the list.
GiveBack(h, i) ==
  LET l == LeftOf(h, i)
      r == RightOf(h, i)
      h1 == IF IsAvail(h, l) THEN Remove(h, l) ELSE h
      h2 == IF IsAvail(h, r) THEN Remove(h1, r) ELSE h1
      right == IF IsAvail(h, r) THEN Size(h, r) ELSE 0
  IN IF IsAvail(h, l)
       THEN MakeAvail(h2, l, Size(h, l) + Size(h, i) + right)
       ELSE MakeAvail(h2, i, Size(h, i) + right)

\* The list is walked to the first block of at least n ints: where it is in the
\* list of h, with Most + 1 for nowhere.
Steps(h, n) ==
  LET at == Listed(h)
  IN Min({Most + 1} \cup {k \in 0..Most : at[k] # 0 /\ Size(h, at[k]) >= n})

\* What malloc(n) finds in h, 0 for nothing.
Found(h, n) == IF Steps(h, n) > Most THEN 0 ELSE Listed(h)[Steps(h, n)]

\* The blocks that it looks at: all of them have to be free.
Visited(h, n) == {Listed(h)[k] : k \in 0..Min({Most, Steps(h, n)})} \ {0}

BlockAt(h, i) == [at |-> i, ints |-> Size(h, i)]

Malloc(n) ==
  /\ Up
  /\ LET i == Found(Here, n)
         h == Take(Here, i, n)
     IN IF \/ \E j \in Visited(Here, n) : ~Sane(Here, j) \/ ~IsAvail(Here, j)
           \/ i # 0 /\ ~Removable(Here, i)
          THEN machine' = "bad" /\ UNCHANGED <<array, avail, live, result>>
        ELSE IF i = 0
          THEN /\ machine' = IF machine = "kernel" THEN "full" ELSE machine
               /\ result' = 0
               /\ UNCHANGED <<array, avail, live>>
          ELSE /\ Becomes(h)
               /\ result' = i
               /\ live' = live \cup {BlockAt(h, i)}
               /\ UNCHANGED machine

\* free looks at the block and its two neighbours, and at the neighbours in the
\* list of those it removes, the left one first.
Freeable(h, i) ==
  LET l == LeftOf(h, i)
      r == RightOf(h, i)
  IN /\ Sane(h, i) /\ ~IsAvail(h, i) /\ Sane(h, l) /\ Sane(h, r)
     /\ IsAvail(h, l) => Removable(h, l)
     /\ IsAvail(h, r) => Removable(IF IsAvail(h, l) THEN Remove(h, l) ELSE h, r)

FreeBlock(b) ==
  /\ Up
  /\ result' = 0
  /\ IF Freeable(Here, b.at)
       THEN /\ Becomes(GiveBack(Here, b.at))
            /\ live' = live \ {b}
            /\ UNCHANGED machine
       ELSE machine' = "bad" /\ UNCHANGED <<array, avail, live>>

\* The first words of the block b, from i on in h.
Copy(h, b, i, n) ==
  [h EXCEPT !.array = [j \in 0..(Len - 1) |->
     IF j \in (i + 1)..(i + Min({b.ints, n - 2})) THEN @[j - i + b.at] ELSE @[j]]]

\* Mutant: the old block is given back first.
ReallocFreeFirst(b, n) ==
  /\ machine = "user"
  /\ LET h == GiveBack(Here, b.at)
         i == Found(h, n)
         taken == Take(h, i, n)
     IN /\ Becomes(IF i = 0 THEN h ELSE Copy(taken, b, i, n))
        /\ result' = i
        /\ live' = (live \ {b}) \cup IF i = 0 THEN {} ELSE {BlockAt(taken, i)}
        /\ UNCHANGED machine

\* realloc, in the user library only: malloc, a copy, and free of the old block,
\* which is lost when malloc fails.
Realloc(b, n) ==
  /\ machine = "user"
  /\ LET i == Found(Here, n)
         h == Take(Here, i, n)
     IN /\ Becomes(GiveBack(IF i = 0 THEN Here ELSE Copy(h, b, i, n), b.at))
        /\ result' = i
        /\ live' = (live \ {b}) \cup IF i = 0 THEN {} ELSE {BlockAt(h, i)}
        /\ UNCHANGED machine

\* The caller fills its block.
Write(b) ==
  /\ Up
  /\ array' = [i \in 0..(Len - 1) |->
                 IF i \in (b.at + 1)..(b.at + b.ints - 2) THEN Word ELSE array[i]]
  /\ UNCHANGED <<avail, live, result, machine>>

Next == \/ \E n \in Sizes : Malloc(n)
        \/ \E b \in live : \/ FreeBlock(b)
                           \/ Write(b)
                           \/ \E n \in Sizes : Realloc(b, n)

Spec == Init /\ [][Next]_vars

----------------------------------------------------------------------------
(* Properties.                                                             *)

\* The blocks from the left end on, each starting where the one before ends.
Tiles ==
  LET at[k \in 0..(Most + 2)] ==
        IF k = 0 THEN 0
        ELSE LET i == at[k - 1]
             IN IF i >= Len THEN Len ELSE i + Max({1, Size(Here, i)})
  IN {at[k] : k \in 0..(Most + 2)} \ {Len}

\* The variables have their types.
TypeOK ==
  /\ array \in [0..(Len - 1) -> Int]
  /\ avail \in {0} \cup 2..(Len - 6)
  /\ live \subseteq [at : 2..(Len - 6), ints : 4..(Len - 4)]
  /\ result \in 0..(Len - 6)
  /\ machine \in {"kernel", "user", "full", "bad"}

\* The blocks tile the heap, their two tags agree, the taken ones are those
\* the callers have, and no two free ones are neighbours (heap.cc:170-201).
TagsAgree ==
  /\ \A i \in Tiles : i < Len /\ Sane(Here, i)
  /\ {BlockAt(Here, i) : i \in {t \in Tiles : ~IsAvail(Here, t)}}
       = live \cup {[at |-> 0, ints |-> 2], [at |-> Len - 2, ints |-> 2]}
  /\ \A i \in Tiles : IsAvail(Here, i) => ~IsAvail(Here, RightOf(Here, i))

\* The list holds each free block once, and its links back agree with its
\* links forth: a block is never offered twice and never lost (heap.cc:87-114).
ListIsFree ==
  LET at == Listed(Here)
  IN /\ {at[k] : k \in 0..Most} \ {0} = {t \in Tiles : IsAvail(Here, t)}
     /\ \A k \in 0..Most : at[k] # 0 =>
          /\ array[at[k] + 2] = IF k = 0 THEN 0 ELSE at[k - 1]
          /\ \A l \in 0..(k - 1) : at[l] # at[k]

\* Tags, list and callers agree on what is free and what is taken, after any
\* sequence of malloc, free and realloc (heap.cc:87-201, user/heap.c).
HeapIsWhole == TypeOK /\ TagsAgree /\ ListIsFree

\* None of the panics of sanity, malloc and free but "heap is full" happens: every
\* block they go through, the neighbours in the list of a removed one included, has
\* two tags that agree and is free or taken as they expect (heap.cc:39-59, 143,
\* 178).
NeverBad == machine # "bad"

Payload(b) == {array[i] : i \in (b.at + 1)..(b.at + b.ints - 2)}

\* No call for one block changes what a caller has written into another.
PayloadKept ==
  [][\A b \in live \cap live' : Payload(b) = {Word} => Payload(b)' = {Word}]_vars

\* malloc and free implement an allocator that refuses a request only when no
\* gap between the blocks in use is large enough.
Blocks == INSTANCE Allocator WITH First <- 2, Last <- Len - 3
ImplementsAllocator == Blocks!Spec
============================================================================
