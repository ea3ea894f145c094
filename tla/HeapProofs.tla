----------------------------- MODULE HeapProofs ----------------------------
(***************************************************************************)
(* For a heap of any size and requests of any sizes: no call of malloc,    *)
(* free or realloc finds a bad block, tags and list describe the blocks    *)
(* that callers have and those that are free, no call changes what another *)
(* block holds, and malloc and free implement the Allocator.               *)
(*                                                                         *)
(* What malloc and free follow are chains: from a block to its neighbour,  *)
(* and from a free block to the next.  The invariant does not walk them.   *)
(* It says of some set of blocks that each block ends where another        *)
(* begins (Tiling), that its tags say so (Tagged), and that its links lead *)
(* to free blocks that link back (Linked); a rank that grows along them    *)
(* keeps the list from going round.  That a walk finds every block is then *)
(* a consequence (ListedAll, TilesAll), by minimal elements: the library's *)
(* induction takes an operator, which the provers cannot instantiate.      *)
(***************************************************************************)
EXTENDS Heap, FiniteSetTheorems, WellFoundedInduction, TLAPS

Index == 0..(Len - 1)
Ends == {0, Len - 2}

\* Blocks that start at T and have sz[i] ints fill the heap, end to end.
Tiling(T, sz) ==
  /\ Ends \subseteq T /\ T \subseteq Index /\ sz \in [Index -> Nat]
  /\ sz[0] = 2 /\ sz[Len - 2] = 2
  /\ \A i \in T \ Ends : sz[i] >= 4
  /\ \A i \in T : i + sz[i] \in T \cup {Len}
  /\ \A i, j \in T : i < j => i + sz[i] <= j
  /\ \A j \in T \ {0} : \E i \in T : i + sz[i] = j

\* F are the free ones, and no two of them are neighbours.
Apart(T, sz, F) ==
  /\ F \subseteq T \ Ends
  /\ \A i \in F : i + sz[i] \notin F

\* Both tags of each block say its size, and whether it is free.
Tagged(a, T, sz, F) ==
  \A i \in T : LET tag == IF i \in F THEN sz[i] ELSE -sz[i]
               IN  a[i] = tag /\ a[i + sz[i] - 1] = tag

\* From v on, the blocks of F are linked both ways, and r, which grows along
\* the links, shows that they do not go round.
Linked(a, v, F, r) ==
  /\ v \in F \cup {0}
  /\ \A i \in F : a[i + 1] \in F \cup {0} /\ a[i + 2] \in F \cup {0}
  /\ \A i \in F : a[i + 2] = 0 <=> v = i
  /\ \A i \in F : a[i + 1] # 0 => a[a[i + 1] + 2] = i /\ r[i] < r[a[i + 1]]
  /\ \A i \in F : a[i + 2] # 0 => a[a[i + 2] + 1] = i

Whole(h, T, sz, F, r) ==
  Tiling(T, sz) /\ Apart(T, sz, F) /\ Tagged(h.array, T, sz, F) /\ Linked(h.array, h.avail, F, r)

\* The blocks that are taken.
Held(T, sz, F) == {[at |-> i, ints |-> sz[i]] : i \in T \ (F \cup Ends)}

\* The heap h is in order, and these blocks are taken.
InOrder(h, blocks) ==
  \E T, F \in SUBSET Index, sz, r \in [Index -> Nat] :
    Whole(h, T, sz, F, r) /\ blocks = Held(T, sz, F)

WholeNow == InOrder(Here, live)

IInv == TypeOK /\ NeverBad /\ WholeNow

Heaps == [array : [Index -> Int], avail : Int]
----------------------------------------------------------------------------
(* Numbers.                                                                *)

\* Min finds the least element.
LEMMA MinNat ==
  ASSUME NEW S \in SUBSET Nat, S # {}
  PROVE  Min(S) \in S /\ \A x \in S : Min(S) <= x
<1>1. PICK x \in S : \A y \in S : ~ (<<y, x>> \in OpToRel(<, Nat))
  BY WFMin, NatLessThanWellFounded, Zenon
<1>2. \A y \in S : ~ (y < x)
  BY <1>1, Zenon DEF OpToRel
<1>3. \A y \in S : x <= y
  BY <1>2
<1> QED BY <1>3 DEF Min

\* Induction, for a property given as the set of numbers that have it.
LEMMA UpTo ==
  ASSUME NEW S \in SUBSET Nat, NEW n \in Nat, 0 \in S,
         \A k \in 0..(n - 1) : k \in S => k + 1 \in S
  PROVE  0..n \subseteq S
<1> DEFINE Bad == 0..n \ S
<1> SUFFICES ASSUME Bad # {} PROVE FALSE
  OBVIOUS
<1>1. Min(Bad) \in Bad /\ \A k \in Bad : Min(Bad) <= k
  BY MinNat
<1>2. PICK m \in Bad : \A k \in Bad : m <= k
  BY <1>1
<1>3. m # 0 /\ m \in 0..n
  BY <1>2
<1>4. m - 1 \notin Bad /\ m - 1 \in 0..(n - 1)
  BY <1>2, <1>3
<1>5. m - 1 \in S
  BY <1>4
<1>6. m - 1 + 1 \in S
  BY <1>4, <1>5
<1> QED BY <1>2, <1>3, <1>6

\* A function can be applied n times in a row.
Walk(g, f, x, n) == g[0] = x /\ \A k \in 1..n : g[k] = f[g[k - 1]]

LEMMA Iterates ==
  ASSUME NEW S, NEW f \in [S -> S], NEW x \in S, NEW n \in Nat
  PROVE  \E g \in [0..n -> S] : Walk(g, f, x, n)
<1> DEFINE Good == {m \in Nat : \E g \in [0..m -> S] :
                                  g[0] = x /\ \A k \in 1..m : g[k] = f[g[k - 1]]}
<1>1. 0 \in Good
  <2> DEFINE g == [k \in 0..0 |-> x]
  <2>1. g \in [0..0 -> S] /\ g[0] = x /\ \A k \in 1..0 : g[k] = f[g[k - 1]]
    OBVIOUS
  <2> QED BY <2>1
<1>2. ASSUME NEW m \in 0..(n - 1), m \in Good PROVE m + 1 \in Good
  <2>1. PICK g \in [0..m -> S] : g[0] = x /\ \A k \in 1..m : g[k] = f[g[k - 1]]
    BY <1>2
  <2> DEFINE h == [k \in 0..(m + 1) |-> IF k = m + 1 THEN f[g[m]] ELSE g[k]]
  <2>2. h \in [0..(m + 1) -> S] /\ h[0] = x
    BY <2>1
  <2>3. ASSUME NEW k \in 1..(m + 1) PROVE h[k] = f[h[k - 1]]
    BY <2>1, <2>3
  <2> HIDE DEF h
  <2> QED BY <2>2, <2>3
<1>3. Good \in SUBSET Nat
  OBVIOUS
<1> HIDE DEF Good
<1>4. 0..n \subseteq Good
  BY <1>1, <1>2, <1>3, UpTo
<1>5. n \in Good
  BY <1>4
<1> QED BY <1>5 DEF Good, Walk

----------------------------------------------------------------------------
(* Tilings.                                                                *)

\* Where blocks are, and that no two of them overlap.
LEMMA TilingFacts ==
  ASSUME NEW T, NEW sz, Tiling(T, sz)
  PROVE  /\ \A i \in T : i \in Index /\ sz[i] \in Nat /\ sz[i] >= 2 /\ i + sz[i] <= Len
         /\ \A i \in T \ Ends : /\ i \in 2..(Len - 6) /\ sz[i] \in 4..(Len - 4)
                                /\ i + sz[i] \in T /\ i + sz[i] <= Len - 2
         /\ \A i, j \in T : i # j => i + sz[i] <= j \/ j + sz[j] <= i
         /\ \A i, j \in T : i + sz[i] = j + sz[j] => i = j
         /\ \A i \in T : i # 0 => \E l \in T : l + sz[l] = i
<1>0. Len \in Nat /\ Len >= 8
  BY LenAssumption
<1>1. \A i \in T : i \in Index /\ sz[i] \in Nat
  BY DEF Tiling
<1>2. \A i \in T : sz[i] >= 2 /\ i + sz[i] <= Len
  <2> SUFFICES ASSUME NEW i \in T PROVE sz[i] >= 2 /\ i + sz[i] <= Len
    OBVIOUS
  <2>1. i = 0 \/ i = Len - 2 \/ i \notin Ends
    BY DEF Ends
  <2>2. sz[i] >= 2
    BY <1>1, <2>1 DEF Tiling
  <2>3. i + sz[i] \in Index \/ i + sz[i] = Len
    BY DEF Tiling
  <2> QED BY <1>0, <2>2, <2>3 DEF Index
<1>3. ASSUME NEW i \in T \ Ends
      PROVE  /\ i \in 2..(Len - 6) /\ sz[i] \in 4..(Len - 4)
             /\ i + sz[i] \in T /\ i + sz[i] <= Len - 2
  <2>1. 0 \in T /\ Len - 2 \in T /\ sz[0] = 2 /\ sz[Len - 2] = 2
    BY DEF Tiling, Ends
  <2>2. i # 0 /\ i # Len - 2 /\ i \in 0..(Len - 1) /\ sz[i] \in Nat /\ sz[i] >= 4
    BY <1>1 DEF Tiling, Ends, Index
  <2>3. 2 <= i
    BY <2>1, <2>2 DEF Tiling
  <2>4. i < Len - 2
    BY <1>0, <2>1, <2>2 DEF Tiling
  <2>5. i + sz[i] <= Len - 2
    BY <2>1, <2>4 DEF Tiling
  <2>6. i + sz[i] \in T
    BY <1>0, <2>5, <2>2 DEF Tiling
  <2> QED BY <1>0, <2>2, <2>3, <2>5, <2>6
<1>4. \A i, j \in T : i # j => i + sz[i] <= j \/ j + sz[j] <= i
  <2> SUFFICES ASSUME NEW i \in T, NEW j \in T, i # j
               PROVE  i + sz[i] <= j \/ j + sz[j] <= i
    OBVIOUS
  <2>1. i \in Int /\ j \in Int
    BY <1>0, <1>1 DEF Index
  <2>2. i < j \/ j < i
    BY <2>1
  <2> QED BY <2>2 DEF Tiling
<1>5. \A i, j \in T : i + sz[i] = j + sz[j] => i = j
  <2> SUFFICES ASSUME NEW i \in T, NEW j \in T, i + sz[i] = j + sz[j], i # j
               PROVE  FALSE
    OBVIOUS
  <2>1. i \in Int /\ j \in Int /\ sz[i] \in Nat /\ sz[j] \in Nat /\ sz[i] >= 2 /\ sz[j] >= 2
    BY <1>0, <1>1, <1>2 DEF Index
  <2> QED BY <1>4, <2>1
<1>6. \A i \in T : i # 0 => \E l \in T : l + sz[l] = i
  BY DEF Tiling
<1> QED BY <1>1, <1>2, <1>3, <1>4, <1>5, <1>6

\* A block is split in two.
Cut(T, i, n) == T \cup {i + n}
CutSize(sz, i, n) == [sz EXCEPT ![i] = n, ![i + n] = sz[i] - n]

LEMMA TilingCut ==
  ASSUME NEW T, NEW sz, Tiling(T, sz), NEW i \in T \ Ends, NEW n \in Nat,
         n >= 4, sz[i] - n >= 4
  PROVE  /\ Tiling(Cut(T, i, n), CutSize(sz, i, n))
         /\ i + n \notin T /\ i + n \in Index /\ i + n # i
         /\ CutSize(sz, i, n) \in [Index -> Nat]
         /\ CutSize(sz, i, n)[i] = n /\ CutSize(sz, i, n)[i + n] = sz[i] - n
         /\ \A j \in T \ {i} : CutSize(sz, i, n)[j] = sz[j]
<1> DEFINE U == Cut(T, i, n)
           s == CutSize(sz, i, n)
<1>0. Len \in Nat /\ Len >= 8
  BY LenAssumption
<1>1. /\ i \in 2..(Len - 6) /\ sz[i] \in Nat /\ i + sz[i] <= Len - 2 /\ i + sz[i] \in T
      /\ T \subseteq Index /\ sz \in [Index -> Nat]
      /\ \A j \in T : j \in Int /\ sz[j] \in Nat /\ sz[j] >= 2
      /\ \A j \in T : i # j => i + sz[i] <= j \/ j + sz[j] <= i
  <2>1. /\ i \in 2..(Len - 6) /\ sz[i] \in 4..(Len - 4) /\ i + sz[i] <= Len - 2 /\ i + sz[i] \in T
    BY TilingFacts, Zenon
  <2>2. \A j \in T : j \in Index /\ sz[j] \in Nat /\ sz[j] >= 2
    BY TilingFacts, Zenon
  <2>3. \A j \in T : i # j => i + sz[i] <= j \/ j + sz[j] <= i
    BY TilingFacts, Zenon
  <2>4. T \subseteq Index /\ sz \in [Index -> Nat]
    BY DEF Tiling
  <2>5. \A j \in Index : j \in Int
    BY <1>0 DEF Index
  <2> QED BY <1>0, <2>1, <2>2, <2>3, <2>4, <2>5
<1>2. i + n \in Index /\ i + n # i /\ i \in Index /\ i + n \notin Ends
  BY <1>0, <1>1 DEF Index, Ends
<1>3. i + n \notin T
  BY <1>1
<1>4. /\ s \in [Index -> Nat] /\ s[i] = n /\ s[i + n] = sz[i] - n
      /\ \A j \in T \ {i} : s[j] = sz[j]
  BY <1>1, <1>2, <1>3 DEF CutSize
<1>5. Ends \subseteq U /\ U \subseteq Index /\ U = T \cup {i + n}
  BY <1>1, <1>2 DEF Cut, Tiling
<1> HIDE DEF U, s
<1>6. s[0] = 2 /\ s[Len - 2] = 2
  BY <1>4 DEF Tiling, Ends
<1>7. \A j \in U \ Ends : s[j] >= 4
  BY <1>4, <1>5 DEF Tiling
<1>8. \A j \in U : j + s[j] \in U \cup {Len}
  <2> SUFFICES ASSUME NEW j \in U PROVE j + s[j] \in U \cup {Len}
    OBVIOUS
  <2>1. CASE j = i
    BY <1>4, <1>5, <2>1
  <2>2. CASE j = i + n
    BY <1>1, <1>4, <1>5, <2>2
  <2>3. CASE j \in T \ {i}
    BY <1>4, <1>5, <2>3 DEF Tiling
  <2> QED BY <1>5, <2>1, <2>2, <2>3
<1>9. \A j, k \in U : j < k => j + s[j] <= k
  <2> SUFFICES ASSUME NEW j \in U, NEW k \in U, j < k PROVE j + s[j] <= k
    OBVIOUS
  <2>1. CASE j \in T \ {i} /\ k \in T
    BY <1>4, <2>1 DEF Tiling
  <2>2. CASE j \in T \ {i} /\ k = i + n
    BY <1>1, <1>4, <2>2
  <2>3. CASE j = i /\ k \in T
    BY <1>1, <1>4, <2>3
  <2>4. CASE j = i /\ k = i + n
    BY <1>1, <1>4, <2>4
  <2>5. CASE j = i + n /\ k \in T
    BY <1>1, <1>4, <2>5
  <2>6. CASE j = i + n /\ k = i + n
    BY <1>1, <2>6
  <2> QED BY <1>5, <2>1, <2>2, <2>3, <2>4, <2>5, <2>6
<1>10. \A k \in U \ {0} : \E j \in U : j + s[j] = k
  <2> SUFFICES ASSUME NEW k \in U \ {0} PROVE \E j \in U : j + s[j] = k
    OBVIOUS
  <2>1. CASE k = i + n
    BY <1>4, <1>5, <2>1
  <2>2. CASE k \in T
    <3>1. PICK j \in T : j + sz[j] = k
      BY <2>2, TilingFacts
    <3>2. CASE j = i
      <4>1. i + n + s[i + n] = k
        BY <1>1, <1>4, <3>1, <3>2
      <4> QED BY <1>5, <4>1
    <3>3. CASE j # i
      BY <1>4, <1>5, <3>1, <3>3
    <3> QED BY <3>2, <3>3
  <2> QED BY <1>5, <2>1, <2>2
<1> QED BY <1>2, <1>3, <1>4, <1>5, <1>6, <1>7, <1>8, <1>9, <1>10 DEF Tiling, U, s

\* The blocks from i up to i + n become one.
Joined(T, i, n) == {j \in T : j <= i \/ j >= i + n}
JoinedSize(sz, i, n) == [sz EXCEPT ![i] = n]

LEMMA TilingJoined ==
  ASSUME NEW T, NEW sz, Tiling(T, sz), NEW i \in T \ Ends, NEW n \in Nat,
         n >= 4, i + n \in T
  PROVE  /\ Tiling(Joined(T, i, n), JoinedSize(sz, i, n))
         /\ JoinedSize(sz, i, n) \in [Index -> Nat] /\ JoinedSize(sz, i, n)[i] = n
         /\ \A j \in T \ {i} : JoinedSize(sz, i, n)[j] = sz[j]
<1> DEFINE U == Joined(T, i, n)
           s == JoinedSize(sz, i, n)
<1>0. Len \in Nat /\ Len >= 8
  BY LenAssumption
<1>1. /\ i \in Int /\ i >= 2 /\ T \subseteq Index /\ sz \in [Index -> Nat]
      /\ \A j \in T : j \in Int /\ sz[j] \in Nat /\ sz[j] >= 2
  <2>1. i \in 2..(Len - 6)
    BY TilingFacts, Zenon
  <2>2. \A j \in T : j \in Index /\ sz[j] \in Nat /\ sz[j] >= 2
    BY TilingFacts, Zenon
  <2>3. T \subseteq Index /\ sz \in [Index -> Nat]
    BY DEF Tiling
  <2>4. \A j \in Index : j \in Int
    BY <1>0 DEF Index
  <2> QED BY <1>0, <2>1, <2>2, <2>3, <2>4
<1>2. i \in Index
  BY <1>1
<1>3. s \in [Index -> Nat] /\ s[i] = n /\ \A j \in T \ {i} : s[j] = sz[j]
  BY <1>1, <1>2 DEF JoinedSize
<1>4. /\ \A j \in U : j \in T /\ (j <= i \/ j >= i + n)
      /\ \A j \in T : j <= i \/ j >= i + n => j \in U
      /\ i \in U /\ i + n \in U
  BY <1>1 DEF Joined
<1> HIDE DEF U, s
<1>5. Ends \subseteq U /\ U \subseteq Index
  <2>1. i + n <= Len - 2
    <3>1. i + n \notin Ends => i + n <= Len - 2
      BY <1>0, TilingFacts
    <3> QED BY <1>0, <1>1, <3>1 DEF Ends
  <2> QED BY <1>0, <1>1, <1>4, <2>1 DEF Tiling, Ends
<1>6. s[0] = 2 /\ s[Len - 2] = 2
  BY <1>3 DEF Tiling, Ends
<1>7. \A j \in U \ Ends : s[j] >= 4
  BY <1>3, <1>4 DEF Tiling
<1>8. \A j \in U : j + s[j] \in U \cup {Len}
  <2> SUFFICES ASSUME NEW j \in U, j # i PROVE j + s[j] \in U \cup {Len}
    BY <1>3, <1>4
  <2>1. j \in T /\ s[j] = sz[j] /\ (j < i \/ j >= i + n)
    BY <1>1, <1>3, <1>4
  <2>2. CASE j < i
    <3>1. j + sz[j] <= i
      BY <2>1, <2>2 DEF Tiling
    <3>2. j + sz[j] \in T
      BY <1>0, <1>1, <2>1, <3>1, TilingFacts DEF Tiling, Index
    <3> QED BY <1>4, <2>1, <3>1, <3>2
  <2>3. CASE j >= i + n
    BY <1>1, <1>4, <2>1, <2>3 DEF Tiling
  <2> QED BY <2>1, <2>2, <2>3
<1>9. \A j, k \in U : j < k => j + s[j] <= k
  <2> SUFFICES ASSUME NEW j \in U, NEW k \in U, j < k PROVE j + s[j] <= k
    OBVIOUS
  <2>1. CASE j = i
    BY <1>1, <1>3, <1>4, <2>1
  <2>2. CASE j # i
    BY <1>3, <1>4, <2>2 DEF Tiling
  <2> QED BY <2>1, <2>2
<1>10. \A k \in U \ {0} : \E j \in U : j + s[j] = k
  <2> SUFFICES ASSUME NEW k \in U \ {0}, k # i + n PROVE \E j \in U : j + s[j] = k
    BY <1>3, <1>4
  <2>1. PICK j \in T : j + sz[j] = k
    BY <1>4, TilingFacts
  <2>2. CASE k <= i
    <3>1. j < i
      BY <1>1, <1>4, <2>1, <2>2
    <3> QED BY <1>1, <1>3, <1>4, <2>1, <3>1
  <2>3. CASE k > i + n
    <3>1. j >= i + n
      <4>1. j < i + n => j + sz[j] <= i + n
        BY DEF Tiling
      <4> QED BY <1>1, <1>4, <2>1, <2>3, <4>1
    <3> QED BY <1>1, <1>3, <1>4, <2>1, <3>1
  <2> QED BY <1>1, <1>4, <2>2, <2>3
<1> QED BY <1>3, <1>4, <1>5, <1>6, <1>7, <1>8, <1>9, <1>10 DEF Tiling, U, s
\* An int belongs to one block.
LEMMA OneBlock ==
  ASSUME NEW T, NEW sz, Tiling(T, sz), NEW i \in T, NEW j \in T, i # j,
         NEW x \in i..(i + sz[i] - 1)
  PROVE  x < j \/ x >= j + sz[j]
<1>1. i \in Index /\ sz[i] \in Nat /\ j \in Index /\ sz[j] \in Nat
  BY TilingFacts, Zenon
<1>2. i + sz[i] <= j \/ j + sz[j] <= i
  BY TilingFacts, Zenon
<1> QED BY <1>1, <1>2, LenAssumption DEF Index

----------------------------------------------------------------------------
(* What the operations write.                                              *)

\* a and b differ at most in the links of the blocks of G.
OnlyLinks(a, b, G) ==
  \A x \in Index : (\A k \in G : x # k + 1 /\ x # k + 2) => b[x] = a[x]

\* a and b differ at most in the blocks of G.
Kept(a, b, T, sz, G) == \A t \in T \ G : \A x \in t..(t + sz[t] - 1) : b[x] = a[x]

\* Where free blocks can be.
Spaced(F) ==
  /\ F \subseteq 2..(Len - 6)
  /\ \A i, j \in F : i = j \/ i + 4 <= j \/ j + 4 <= i

LEMMA FreeSpaced ==
  ASSUME NEW T, NEW sz, Tiling(T, sz), NEW F, F \subseteq T \ Ends
  PROVE  Spaced(F)
<1>1. \A i \in F : i \in 2..(Len - 6) /\ sz[i] \in 4..(Len - 4)
  BY TilingFacts, Zenon
<1>2. \A i, j \in F : i # j => i + sz[i] <= j \/ j + sz[j] <= i
  <2>1. \A i, j \in T : i # j => i + sz[i] <= j \/ j + sz[j] <= i
    BY TilingFacts, Zenon
  <2> QED BY <2>1
<1>3. ASSUME NEW i \in F, NEW j \in F, i # j PROVE i + 4 <= j \/ j + 4 <= i
  BY <1>1, <1>2, <1>3, LenAssumption
<1> QED BY <1>1, <1>3 DEF Spaced

\* The tags and the blocks that are not free do not see the links.
LEMMA LinksInside ==
  ASSUME NEW T, NEW sz, Tiling(T, sz), NEW F, F \subseteq T \ Ends,
         NEW G, G \subseteq F, NEW H, NEW a, NEW b, OnlyLinks(a, b, G)
  PROVE  /\ Tagged(a, T, sz, H) => Tagged(b, T, sz, H)
         /\ Kept(a, b, T, sz, F)
<1>0. Len \in Nat /\ Len >= 8
  BY LenAssumption
<1>1. \A t \in T : t \in Index /\ sz[t] \in Nat /\ sz[t] >= 2 /\ t + sz[t] <= Len
  BY TilingFacts, Zenon
<1>2. \A k \in G : k \in T /\ k \in 2..(Len - 6) /\ sz[k] \in 4..(Len - 4)
  BY TilingFacts, Zenon
<1>3. ASSUME NEW t \in T, NEW x \in t..(t + sz[t] - 1), t \notin G PROVE b[x] = a[x]
  <2>1. ASSUME NEW k \in G PROVE x # k + 1 /\ x # k + 2
    <3>1. x < k \/ x >= k + sz[k]
      BY <1>2, <1>3, OneBlock
    <3> QED BY <1>0, <1>1, <1>2, <3>1 DEF Index
  <2>2. x \in Index
    BY <1>0, <1>1 DEF Index
  <2> QED BY <2>1, <2>2 DEF OnlyLinks
<1>4. ASSUME NEW t \in T PROVE b[t] = a[t] /\ b[t + sz[t] - 1] = a[t + sz[t] - 1]
  <2>1. CASE t \notin G
    <3>1. t \in t..(t + sz[t] - 1) /\ t + sz[t] - 1 \in t..(t + sz[t] - 1)
      BY <1>0, <1>1 DEF Index
    <3> QED BY <1>3, <2>1, <3>1
  <2>2. CASE t \in G
    <3>1. ASSUME NEW k \in G PROVE /\ t # k + 1 /\ t # k + 2
                                   /\ t + sz[t] - 1 # k + 1 /\ t + sz[t] - 1 # k + 2
      <4>0. \A i, j \in T : i # j => i + sz[i] <= j \/ j + sz[j] <= i
        BY TilingFacts, Zenon
      <4>1. k = t \/ k + sz[k] <= t \/ t + sz[t] <= k
        BY <1>2, <4>0
      <4> QED BY <1>0, <1>2, <2>2, <4>1
    <3>2. t \in Index /\ t + sz[t] - 1 \in Index
      BY <1>0, <1>1 DEF Index
    <3> QED BY <3>1, <3>2 DEF OnlyLinks
  <2> QED BY <2>1, <2>2
<1>5. Tagged(a, T, sz, H) => Tagged(b, T, sz, H)
  BY <1>4 DEF Tagged
<1>6. Kept(a, b, T, sz, F)
  BY <1>3 DEF Kept
<1> QED BY <1>5, <1>6

LEMMA RemoveFacts ==
  ASSUME NEW h \in Heaps, NEW F, Spaced(F), NEW r \in [Index -> Nat],
         Linked(h.array, h.avail, F, r), NEW i \in F
  PROVE  /\ Remove(h, i) \in Heaps
         /\ Linked(Remove(h, i).array, Remove(h, i).avail, F \ {i}, r)
         /\ OnlyLinks(h.array, Remove(h, i).array, F \ {i})
<1> DEFINE a == h.array
           n == a[i + 1]
           p == a[i + 2]
           b == Remove(h, i).array
           v == Remove(h, i).avail
           G == F \ {i}
<1>0. Len \in Nat /\ Len >= 8
  BY LenAssumption
<1>1. a \in [Index -> Int] /\ h.avail \in Int
  BY DEF Heaps
<1>2. \A k \in F : k \in 2..(Len - 6) /\ k \in Index /\ k + 1 \in Index /\ k + 2 \in Index
  BY <1>0 DEF Spaced, Index
<1>3. n \in F \cup {0} /\ p \in F \cup {0}
  BY DEF Linked
<1>4. n # 0 => a[n + 2] = i /\ r[i] < r[n]
  BY DEF Linked
<1>5. p # 0 => a[p + 1] = i /\ r[p] < r[i]
  <2>1. p # 0 => p \in F /\ a[p + 1] = i
    BY <1>3 DEF Linked
  <2>2. i # 0
    BY <1>2
  <2>3. \A k \in F : a[k + 1] # 0 => r[k] < r[a[k + 1]]
    BY DEF Linked
  <2> HIDE DEF a, p
  <2> QED BY <2>1, <2>2, <2>3
<1>6. n # i
  BY <1>2, <1>4
<1>7. p # i
  BY <1>2, <1>5
<1>8. \A k \in F : k # 0
  BY <1>2
<1>9. /\ v = IF p = 0 THEN n ELSE h.avail
      /\ b \in [Index -> Int] /\ v \in Int
      /\ Remove(h, i) = [array |-> b, avail |-> v]
      /\ \A x \in Index : b[x] = IF n # 0 /\ x = n + 2 THEN p
                                 ELSE IF p # 0 /\ x = p + 1 THEN n ELSE a[x]
  <2>1. n \in Int /\ p \in Int /\ (n # 0 => n + 2 \in Index) /\ (p # 0 => p + 1 \in Index)
    BY <1>2, <1>3
  <2> HIDE DEF a
  <2>2. n \in Int /\ p \in Int
    BY <2>1
  <2> USE DEF a
  <2> QED BY <1>1, <2>1 DEF Remove
<1> HIDE DEF b, v
<1>10. ASSUME NEW k \in G
       PROVE  /\ b[k + 1] = IF k = p THEN n ELSE a[k + 1]
              /\ b[k + 2] = IF k = n THEN p ELSE a[k + 2]
  <2>1. k \in F /\ k # 0 /\ k \in Int
    BY <1>2
  <2>2. n # 0 => k + 1 # n + 2
    <3>0. \A x \in F : x \in Int /\ (k = x \/ k + 4 <= x \/ x + 4 <= k)
      BY <1>2, <2>1 DEF Spaced
    <3>1. n # 0 => n \in Int /\ (k = n \/ k + 4 <= n \/ n + 4 <= k)
      BY <1>3, <3>0
    <3> QED BY <2>1, <3>1
  <2>3. p # 0 => k + 2 # p + 1
    <3>0. \A x \in F : x \in Int /\ (k = x \/ k + 4 <= x \/ x + 4 <= k)
      BY <1>2, <2>1 DEF Spaced
    <3>1. p # 0 => p \in Int /\ (k = p \/ k + 4 <= p \/ p + 4 <= k)
      BY <1>3, <3>0
    <3> QED BY <2>1, <3>1
  <2>4. k + 1 \in Index /\ k + 2 \in Index /\ n \in Int /\ p \in Int
    BY <1>2, <1>3
  <2>5. (k + 2 = n + 2 <=> k = n) /\ (k + 1 = p + 1 <=> k = p)
    BY <2>1, <2>4
  <2> HIDE DEF n, p
  <2> QED BY <1>9, <2>1, <2>2, <2>3, <2>4, <2>5
<1>11. OnlyLinks(a, b, G)
  <2> SUFFICES ASSUME NEW x \in Index, \A k \in G : x # k + 1 /\ x # k + 2 PROVE b[x] = a[x]
    BY DEF OnlyLinks
  <2>1. ~ (n # 0 /\ x = n + 2) /\ ~ (p # 0 /\ x = p + 1)
    BY <1>3, <1>6, <1>7
  <2> QED BY <1>9, <2>1
<1>12. Linked(b, v, G, r)
  <2>0. \A k \in F : a[k + 1] \in F \cup {0} /\ a[k + 2] \in F \cup {0}
    BY DEF Linked
  <2>1. \A k \in F : a[k + 2] = 0 <=> h.avail = k
    BY DEF Linked
  <2>2. \A k \in F : a[k + 1] # 0 => a[a[k + 1] + 2] = k /\ r[k] < r[a[k + 1]]
    BY DEF Linked
  <2>3. \A k \in F : a[k + 2] # 0 => a[a[k + 2] + 1] = k
    BY DEF Linked
  <2>4. h.avail \in F \cup {0}
    BY DEF Linked
  <2>n. PICK nn : nn = n
    OBVIOUS
  <2>p. PICK pp : pp = p
    OBVIOUS
  <2>a. PICK aa : aa = a
    OBVIOUS
  <2>5. v \in G \cup {0}
    <3>1. p # 0 => h.avail # i
      BY <2>1
    <3> QED BY <1>3, <1>6, <1>9, <2>4, <3>1
  <2>6. \A k \in G : b[k + 1] \in G \cup {0} /\ b[k + 2] \in G \cup {0}
    <3> SUFFICES ASSUME NEW k \in G PROVE b[k + 1] \in G \cup {0} /\ b[k + 2] \in G \cup {0}
      OBVIOUS
    <3>1. k # p => a[k + 1] # i
      BY <1>8, <2>2
    <3>2. k # n => a[k + 2] # i
      BY <1>8, <2>3
    <3> QED BY <1>3, <1>6, <1>7, <1>10, <2>0, <3>1, <3>2
  <2>7. \A k \in G : b[k + 2] = 0 <=> v = k
    <3> SUFFICES ASSUME NEW k \in G PROVE b[k + 2] = 0 <=> v = k
      OBVIOUS
    <3>1. CASE k = n
      BY <1>4, <1>8, <1>9, <1>10, <2>1, <3>1
    <3>2. CASE k # n
      BY <1>9, <1>10, <2>1, <3>2
    <3> QED BY <3>1, <3>2
  <2>8. \A k \in G : b[k + 1] # 0 => b[b[k + 1] + 2] = k /\ r[k] < r[b[k + 1]]
    <3> SUFFICES ASSUME NEW k \in G, b[k + 1] # 0 PROVE b[b[k + 1] + 2] = k /\ r[k] < r[b[k + 1]]
      OBVIOUS
    <3>1. CASE k = p
      <4>1. b[k + 1] = n /\ n \in G /\ b[n + 2] = p
        BY <1>3, <1>6, <1>10, <3>1
      <4>2. r[p] < r[i] /\ r[i] < r[n] /\ r[n] \in Nat /\ r[p] \in Nat /\ r[i] \in Nat
        BY <1>2, <1>4, <1>5, <1>8, <3>1, <4>1
      <4> QED BY <3>1, <4>1, <4>2
    <3>2. CASE k # p
      <4>1. b[k + 1] = a[k + 1] /\ a[a[k + 1] + 2] = k /\ r[k] < r[a[k + 1]]
        BY <1>10, <2>2, <3>2
      <4>2. a[k + 1] # n
        BY <1>4, <4>1
      <4>3. a[k + 1] \in G
        BY <2>6, <4>1
      <4> QED BY <1>10, <4>1, <4>2, <4>3
    <3> QED BY <3>1, <3>2
  <2>9. \A k \in G : b[k + 2] # 0 => b[b[k + 2] + 1] = k
    <3> SUFFICES ASSUME NEW k \in G, b[k + 2] # 0 PROVE b[b[k + 2] + 1] = k
      OBVIOUS
    <3>1. CASE k = n
      <4>1. b[k + 2] = p /\ p \in G
        BY <1>3, <1>7, <1>10, <3>1
      <4> QED BY <1>10, <3>1, <4>1
    <3>2. CASE k # n
      <4>1. b[k + 2] = a[k + 2] /\ a[a[k + 2] + 1] = k
        BY <1>10, <2>3, <3>2
      <4>2. a[k + 2] # p
        BY <1>5, <4>1
      <4>3. a[k + 2] \in G
        BY <2>6, <4>1
      <4> QED BY <1>10, <4>1, <4>2, <4>3
    <3> QED BY <3>1, <3>2
  <2> HIDE DEF G
  <2> QED BY <2>5, <2>6, <2>7, <2>8, <2>9 DEF Linked
<1>13. Remove(h, i) \in Heaps
  BY <1>9 DEF Heaps
<1> QED BY <1>11, <1>12, <1>13 DEF b, v

LEMMA MakeTakenFacts ==
  ASSUME NEW h \in Heaps, NEW i \in Index, NEW m \in Nat, i + m - 1 \in Index
  PROVE  /\ MakeTaken(h, i, m) \in Heaps
         /\ MakeTaken(h, i, m).avail = h.avail
         /\ MakeTaken(h, i, m).array[i] = -m /\ MakeTaken(h, i, m).array[i + m - 1] = -m
         /\ \A x \in Index : x # i /\ x # i + m - 1 => MakeTaken(h, i, m).array[x] = h.array[x]
<1>1. h = [array |-> h.array, avail |-> h.avail] /\ h.array \in [Index -> Int] /\ h.avail \in Int
  BY DEF Heaps
<1>2. MakeTaken(h, i, m) = [array |-> [h.array EXCEPT ![i] = -m, ![i + m - 1] = -m],
                            avail |-> h.avail]
  BY <1>1 DEF MakeTaken
<1>3. -m \in Int
  OBVIOUS
<1> QED BY <1>1, <1>2, <1>3 DEF Heaps

LEMMA MakeAvailFacts ==
  ASSUME NEW h \in Heaps, NEW i \in Index, NEW m \in Nat, m >= 4, i + m <= Len,
         h.avail # 0 => h.avail + 2 \in Index /\ (h.avail + 2 < i \/ h.avail + 2 >= i + m)
  PROVE  /\ MakeAvail(h, i, m) \in Heaps
         /\ MakeAvail(h, i, m).avail = i
         /\ MakeAvail(h, i, m).array[i] = m /\ MakeAvail(h, i, m).array[i + m - 1] = m
         /\ MakeAvail(h, i, m).array[i + 1] = h.avail /\ MakeAvail(h, i, m).array[i + 2] = 0
         /\ h.avail # 0 => MakeAvail(h, i, m).array[h.avail + 2] = i
         /\ \A x \in Index :
              /\ x # i /\ x # i + m - 1 /\ x # i + 1 /\ x # i + 2
              /\ h.avail # 0 => x # h.avail + 2
              => MakeAvail(h, i, m).array[x] = h.array[x]
<1> DEFINE b == MakeAvail(h, i, m).array
           block == [h.array EXCEPT ![i] = m, ![i + m - 1] = m, ![i + 1] = h.avail, ![i + 2] = 0]
<1>0. Len \in Nat /\ Len >= 8
  BY LenAssumption
<1>1. h.array \in [Index -> Int] /\ h.avail \in Int
  BY DEF Heaps
<1>2. /\ i \in Int /\ i + m - 1 \in Index /\ i + 1 \in Index /\ i + 2 \in Index
      /\ i + m - 1 # i /\ i + m - 1 # i + 1 /\ i + m - 1 # i + 2
      /\ i + 1 # i /\ i + 2 # i /\ i + 1 # i + 2
  BY <1>0 DEF Index
<1>3. /\ block \in [Index -> Int]
      /\ block[i] = m /\ block[i + m - 1] = m /\ block[i + 1] = h.avail /\ block[i + 2] = 0
      /\ \A x \in Index : x # i /\ x # i + m - 1 /\ x # i + 1 /\ x # i + 2 => block[x] = h.array[x]
  BY <1>1, <1>2
<1>4. h.avail # 0 => /\ h.avail + 2 # i /\ h.avail + 2 # i + m - 1
                     /\ h.avail + 2 # i + 1 /\ h.avail + 2 # i + 2
  BY <1>0, <1>1, <1>2
<1>5. MakeAvail(h, i, m) = [array |-> IF h.avail = 0 THEN block ELSE [block EXCEPT ![h.avail + 2] = i],
                            avail |-> i]
  BY DEF MakeAvail
<1> HIDE DEF block
<1>6. MakeAvail(h, i, m) \in Heaps /\ MakeAvail(h, i, m).avail = i
  BY <1>1, <1>2, <1>3, <1>5 DEF Heaps
<1>7. b = IF h.avail = 0 THEN block ELSE [block EXCEPT ![h.avail + 2] = i]
  BY <1>5
<1> HIDE DEF b
<1>8. /\ b[i] = m /\ b[i + m - 1] = m /\ b[i + 1] = h.avail /\ b[i + 2] = 0
      /\ h.avail # 0 => b[h.avail + 2] = i
  BY <1>2, <1>3, <1>4, <1>7
<1>9. ASSUME NEW x \in Index, x # i, x # i + m - 1, x # i + 1, x # i + 2,
             h.avail # 0 => x # h.avail + 2
      PROVE  b[x] = h.array[x]
  BY <1>3, <1>7, <1>9
<1> QED BY <1>6, <1>8, <1>9 DEF b

\* A free block is put at the head of the list.
Behind(r, i) == [j \in Index |-> IF j = i THEN 0 ELSE r[j] + 1]

\* In b the block i comes before v, and the links of G are otherwise those of a.
Pushed(a, b, G, v, i) ==
  /\ b[i + 1] = v /\ b[i + 2] = 0 /\ (v # 0 => b[v + 2] = i)
  /\ \A k \in G : b[k + 1] = a[k + 1] /\ (k # v => b[k + 2] = a[k + 2])

LEMMA InsertLinks ==
  ASSUME NEW G, Spaced(G), NEW r \in [Index -> Nat], NEW a, NEW b, NEW v,
         Linked(a, v, G, r), NEW i \in 2..(Len - 6), i \notin G,
         Pushed(a, b, G, v, i)
  PROVE  Behind(r, i) \in [Index -> Nat] /\ Linked(b, i, G \cup {i}, Behind(r, i))
<1> USE DEF Pushed
<1> DEFINE q == Behind(r, i)
<1>0. Len \in Nat /\ Len >= 8
  BY LenAssumption
<1>1. /\ v \in G \cup {0}
      /\ \A k \in G : a[k + 1] \in G \cup {0} /\ a[k + 2] \in G \cup {0}
      /\ \A k \in G : a[k + 2] = 0 <=> v = k
      /\ \A k \in G : a[k + 1] # 0 => a[a[k + 1] + 2] = k /\ r[k] < r[a[k + 1]]
      /\ \A k \in G : a[k + 2] # 0 => a[a[k + 2] + 1] = k
  BY DEF Linked
<1>2. /\ \A k \in G : k # 0 /\ k \in Index /\ k # i
      /\ i \in Index /\ i # 0
  BY <1>0 DEF Spaced, Index
<1>3. /\ q \in [Index -> Nat]
      /\ \A k \in G : q[k] = r[k] + 1 /\ q[i] < q[k]
      /\ \A k \in G : r[k] \in Nat
  <2>1. \A k \in G : r[k] \in Nat
    BY <1>2
  <2>2. \A k \in G : q[k] = r[k] + 1
    BY <1>2 DEF Behind
  <2>3. q[i] = 0
    BY <1>2 DEF Behind
  <2>4. q \in [Index -> Nat]
    BY DEF Behind
  <2> HIDE DEF q
  <2> QED BY <2>1, <2>2, <2>3, <2>4
<1> HIDE DEF q
<1>4. \A k \in G \cup {i} : b[k + 1] \in G \cup {i} \cup {0} /\ b[k + 2] \in G \cup {i} \cup {0}
  <2> SUFFICES ASSUME NEW k \in G \cup {i}
               PROVE  b[k + 1] \in G \cup {i} \cup {0} /\ b[k + 2] \in G \cup {i} \cup {0}
    OBVIOUS
  <2>1. CASE k = i
    BY <1>1, <2>1
  <2>2. CASE k \in G /\ k = v
    <3>1. b[k + 2] = i
      BY <1>2, <2>2
    <3> QED BY <1>1, <2>2, <3>1
  <2>3. CASE k \in G /\ k # v
    BY <1>1, <2>3
  <2> QED BY <2>1, <2>2, <2>3
<1>5. \A k \in G \cup {i} : b[k + 2] = 0 <=> i = k
  BY <1>1, <1>2
<1>6. \A k \in G \cup {i} : b[k + 1] # 0 => b[b[k + 1] + 2] = k /\ q[k] < q[b[k + 1]]
  <2> SUFFICES ASSUME NEW k \in G \cup {i}, b[k + 1] # 0
               PROVE  b[b[k + 1] + 2] = k /\ q[k] < q[b[k + 1]]
    OBVIOUS
  <2>1. CASE k = i
    BY <1>1, <1>3, <2>1
  <2>2. CASE k \in G
    <3>1. PICK m : m = a[k + 1]
      OBVIOUS
    <3>2. m \in G /\ b[k + 1] = m /\ a[m + 2] = k /\ r[k] < r[m]
      BY <1>1, <2>2, <3>1
    <3>3. m # v
      BY <1>1, <1>2, <2>2, <3>2
    <3> QED BY <1>3, <2>2, <3>2, <3>3
  <2> QED BY <2>1, <2>2
<1>7. \A k \in G \cup {i} : b[k + 2] # 0 => b[b[k + 2] + 1] = k
  <2> SUFFICES ASSUME NEW k \in G, b[k + 2] # 0 PROVE b[b[k + 2] + 1] = k
    OBVIOUS
  <2>1. CASE k = v
    BY <1>2, <2>1
  <2>2. CASE k # v
    BY <1>1, <2>2
  <2> QED BY <2>1, <2>2
<1> QED BY <1>3, <1>4, <1>5, <1>6, <1>7 DEF Linked, q

\* Links that an operation does not touch.
LEMMA LinkedKept ==
  ASSUME NEW G, NEW r, NEW a, NEW b, NEW v, Linked(a, v, G, r),
         \A k \in G : b[k + 1] = a[k + 1] /\ b[k + 2] = a[k + 2]
  PROVE  Linked(b, v, G, r)
<1>1. /\ v \in G \cup {0}
      /\ \A k \in G : a[k + 1] \in G \cup {0} /\ a[k + 2] \in G \cup {0}
      /\ \A k \in G : a[k + 2] = 0 <=> v = k
      /\ \A k \in G : a[k + 1] # 0 => a[a[k + 1] + 2] = k /\ r[k] < r[a[k + 1]]
      /\ \A k \in G : a[k + 2] # 0 => a[a[k + 2] + 1] = k
  BY DEF Linked
<1>2. \A k \in G : b[k + 1] # 0 => b[b[k + 1] + 2] = k /\ r[k] < r[b[k + 1]]
  BY <1>1
<1>3. \A k \in G : b[k + 2] # 0 => b[b[k + 2] + 1] = k
  BY <1>1
<1> QED BY <1>1, <1>2, <1>3 DEF Linked

\* What the helpers read in a heap whose tags agree.
LEMMA TagFacts ==
  ASSUME NEW h \in Heaps, NEW T, NEW sz, Tiling(T, sz), NEW F, Tagged(h.array, T, sz, F)
  PROVE  \A i \in T : /\ Size(h, i) = sz[i] /\ (IsAvail(h, i) <=> i \in F) /\ Sane(h, i)
                      /\ RightOf(h, i) = i + sz[i]
                      /\ \A l \in T : l + sz[l] = i => LeftOf(h, i) = l
<1> SUFFICES ASSUME NEW i \in T
             PROVE  /\ Size(h, i) = sz[i] /\ (IsAvail(h, i) <=> i \in F) /\ Sane(h, i)
                    /\ RightOf(h, i) = i + sz[i]
                    /\ \A l \in T : l + sz[l] = i => LeftOf(h, i) = l
  OBVIOUS
<1>0. Len \in Nat /\ Len >= 8
  BY LenAssumption
<1>1. \A t \in T : t \in Index /\ sz[t] \in Nat /\ sz[t] >= 2 /\ t + sz[t] <= Len
  BY TilingFacts, Zenon
<1>2. \A t \in T : /\ t \in F => h.array[t] = sz[t] /\ h.array[t + sz[t] - 1] = sz[t]
                   /\ t \notin F => h.array[t] = -sz[t] /\ h.array[t + sz[t] - 1] = -sz[t]
  BY DEF Tagged
<1>3. Size(h, i) = sz[i]
  BY <1>1, <1>2 DEF Size, Abs
<1>4. IsAvail(h, i) <=> i \in F
  BY <1>1, <1>2 DEF IsAvail
<1>5. Sane(h, i)
  BY <1>0, <1>1, <1>2, <1>3 DEF Sane, Footer, Index
<1>6. ASSUME NEW l \in T, l + sz[l] = i PROVE LeftOf(h, i) = l
  <2>0. l \in Int /\ i \in Int /\ sz[l] \in Int
    BY <1>0, <1>1 DEF Index
  <2>1. i - 1 = l + sz[l] - 1
    BY <1>6, <2>0
  <2>2. Size(h, i - 1) = sz[l]
    BY <1>1, <1>2, <2>1 DEF Size, Abs
  <2> QED BY <1>6, <2>0, <2>2 DEF LeftOf
<1> QED BY <1>3, <1>4, <1>5, <1>6 DEF RightOf

\* The blocks that remove looks at are in the list.
LEMMA LinksAreSane ==
  ASSUME NEW h \in Heaps, NEW T, NEW sz, Tiling(T, sz), NEW H, Tagged(h.array, T, sz, H),
         NEW F, F \subseteq T, NEW v, NEW r, Linked(h.array, v, F, r)
  PROVE  \A i \in F : Removable(h, i)
<1>1. \A i \in T : Sane(h, i)
  BY TagFacts
<1>2. Sane(h, 0)
  BY DEF Sane
<1>3. \A i \in F : h.array[i + 1] \in F \cup {0} /\ h.array[i + 2] \in F \cup {0}
  BY DEF Linked
<1>4. \A x \in F \cup {0} : Sane(h, x)
  BY <1>1, <1>2
<1> QED BY <1>3, <1>4 DEF Removable

\* A block is tagged as taken.
LEMMA TakenTags ==
  ASSUME NEW h \in Heaps, NEW T, NEW sz, Tiling(T, sz), NEW V, V \subseteq T,
         NEW G, G \subseteq T \ Ends, NEW r, Linked(h.array, h.avail, G, r),
         NEW k \in V, k \notin G, Tagged(h.array, V \ {k}, sz, G)
  PROVE  /\ MakeTaken(h, k, sz[k]) \in Heaps
         /\ Tagged(MakeTaken(h, k, sz[k]).array, V, sz, G)
         /\ Linked(MakeTaken(h, k, sz[k]).array, MakeTaken(h, k, sz[k]).avail, G, r)
         /\ Kept(h.array, MakeTaken(h, k, sz[k]).array, T, sz, {k})
<1> DEFINE g == MakeTaken(h, k, sz[k])
<1>0. Len \in Nat /\ Len >= 8
  BY LenAssumption
<1>1. /\ \A t \in T : t \in Index /\ t \in Int /\ sz[t] \in Nat /\ sz[t] >= 2 /\ t + sz[t] <= Len
      /\ k \in T
  <2>1. \A t \in T : t \in Index /\ sz[t] \in Nat /\ sz[t] >= 2 /\ t + sz[t] <= Len
    BY TilingFacts, Zenon
  <2> QED BY <1>0, <2>1 DEF Index
<1>2. k + sz[k] - 1 \in Index
  BY <1>0, <1>1 DEF Index
<1>3. /\ g \in Heaps /\ g.avail = h.avail
      /\ g.array[k] = -sz[k] /\ g.array[k + sz[k] - 1] = -sz[k]
      /\ \A x \in Index : x # k /\ x # k + sz[k] - 1 => g.array[x] = h.array[x]
  BY <1>1, <1>2, MakeTakenFacts
<1> HIDE DEF g
<1>4. ASSUME NEW t \in T, t # k, NEW x \in t..(t + sz[t] - 1) PROVE g.array[x] = h.array[x]
  <2>1. x < k \/ x >= k + sz[k]
    BY <1>1, <1>4, OneBlock
  <2>2. x \in Index /\ x \in Int
    BY <1>0, <1>1 DEF Index
  <2> QED BY <1>1, <1>3, <2>1, <2>2
<1>5. ASSUME NEW t \in T, t # k
      PROVE  g.array[t] = h.array[t] /\ g.array[t + sz[t] - 1] = h.array[t + sz[t] - 1]
  <2>1. t \in t..(t + sz[t] - 1) /\ t + sz[t] - 1 \in t..(t + sz[t] - 1)
    BY <1>1
  <2> QED BY <1>4, <1>5, <2>1
<1>6. Tagged(g.array, V, sz, G)
  <2>1. ASSUME NEW t \in V, t # k
        PROVE  /\ g.array[t] = IF t \in G THEN sz[t] ELSE -sz[t]
               /\ g.array[t + sz[t] - 1] = IF t \in G THEN sz[t] ELSE -sz[t]
    BY <1>5, <2>1 DEF Tagged
  <2> QED BY <1>3, <2>1 DEF Tagged
<1>7. \A t \in G : g.array[t + 1] = h.array[t + 1] /\ g.array[t + 2] = h.array[t + 2]
  <2> SUFFICES ASSUME NEW t \in G
               PROVE  g.array[t + 1] = h.array[t + 1] /\ g.array[t + 2] = h.array[t + 2]
    OBVIOUS
  <2>1. t \in 2..(Len - 6) /\ sz[t] \in 4..(Len - 4) /\ t \in T /\ t # k
    BY TilingFacts, Zenon
  <2>2. t + 1 \in t..(t + sz[t] - 1) /\ t + 2 \in t..(t + sz[t] - 1)
    BY <2>1
  <2> QED BY <1>4, <2>1, <2>2
<1>8. Linked(g.array, g.avail, G, r)
  BY <1>3, <1>7, LinkedKept
<1>9. Kept(h.array, g.array, T, sz, {k})
  BY <1>4 DEF Kept
<1> QED BY <1>3, <1>6, <1>8, <1>9 DEF g

\* A block that has no free neighbour becomes free.
LEMMA FreeWhole ==
  ASSUME NEW h \in Heaps, NEW T, NEW sz, Tiling(T, sz), NEW G, Apart(T, sz, G),
         NEW r \in [Index -> Nat], Linked(h.array, h.avail, G, r),
         NEW k \in T \ Ends, k \notin G, Tagged(h.array, T \ {k}, sz, G),
         k + sz[k] \notin G, \A l \in G : l + sz[l] # k
  PROVE  /\ MakeAvail(h, k, sz[k]) \in Heaps
         /\ Behind(r, k) \in [Index -> Nat]
         /\ Whole(MakeAvail(h, k, sz[k]), T, sz, G \cup {k}, Behind(r, k))
         /\ Kept(h.array, MakeAvail(h, k, sz[k]).array, T, sz, G \cup {k})
<1> DEFINE g == MakeAvail(h, k, sz[k])
           v == h.avail
<1>0. Len \in Nat /\ Len >= 8
  BY LenAssumption
<1>1. \A t \in T : t \in Index /\ t \in Int /\ sz[t] \in Nat /\ sz[t] >= 2 /\ t + sz[t] <= Len
  <2>1. \A t \in T : t \in Index /\ sz[t] \in Nat /\ sz[t] >= 2 /\ t + sz[t] <= Len
    BY TilingFacts, Zenon
  <2> QED BY <1>0, <2>1 DEF Index
<1>2. /\ k \in 2..(Len - 6) /\ sz[k] \in 4..(Len - 4)
      /\ \A t \in G : t \in T /\ t # k /\ t \in 2..(Len - 6) /\ sz[t] \in 4..(Len - 4)
  <2>1. \A t \in T \ Ends : t \in 2..(Len - 6) /\ sz[t] \in 4..(Len - 4)
    BY TilingFacts, Zenon
  <2> QED BY <2>1 DEF Apart
<1>3. \A i, j \in T : i # j => i + sz[i] <= j \/ j + sz[j] <= i
  BY TilingFacts, Zenon
<1>4. v \in G \cup {0}
  BY DEF Linked
<1>5. v # 0 => v \in G /\ v + 2 \in Index /\ (v + 2 < k \/ v + 2 >= k + sz[k])
  <2> SUFFICES ASSUME v # 0 PROVE v \in G /\ v + 2 \in Index /\ (v + 2 < k \/ v + 2 >= k + sz[k])
    OBVIOUS
  <2>1. v \in G /\ v \in T /\ v # k /\ v \in 2..(Len - 6) /\ sz[v] \in 4..(Len - 4)
    BY <1>2, <1>4
  <2>2. v + sz[v] <= k \/ k + sz[k] <= v
    BY <1>3, <2>1
  <2> HIDE DEF v
  <2> QED BY <1>0, <1>2, <2>1, <2>2, SMTT(40) DEF Index
<1>6. /\ g \in Heaps /\ g.avail = k
      /\ g.array[k] = sz[k] /\ g.array[k + sz[k] - 1] = sz[k]
      /\ g.array[k + 1] = v /\ g.array[k + 2] = 0
      /\ v # 0 => g.array[v + 2] = k
      /\ \A x \in Index : /\ x # k /\ x # k + sz[k] - 1 /\ x # k + 1 /\ x # k + 2
                          /\ v # 0 => x # v + 2
                          => g.array[x] = h.array[x]
  <2>1. k \in Index /\ sz[k] \in Nat /\ sz[k] >= 4 /\ k + sz[k] <= Len
    BY <1>1, <1>2
  <2> QED BY <1>5, <2>1, MakeAvailFacts
<1> HIDE DEF g, v
<1>7. ASSUME NEW t \in T, t # k, NEW x \in t..(t + sz[t] - 1), v # 0 => x # v + 2
      PROVE  g.array[x] = h.array[x]
  <2>1. x < k \/ x >= k + sz[k]
    BY <1>7, OneBlock
  <2>2. x \in Index /\ x \in Int
    BY <1>0, <1>1, SMTT(40) DEF Index
  <2> QED BY <1>2, <1>6, <1>7, <2>1, <2>2
<1>8. ASSUME NEW t \in T, t # k
      PROVE  g.array[t] = h.array[t] /\ g.array[t + sz[t] - 1] = h.array[t + sz[t] - 1]
  <2>1. t \in t..(t + sz[t] - 1) /\ t + sz[t] - 1 \in t..(t + sz[t] - 1)
    BY <1>1
  <2>2. v # 0 => t # v + 2 /\ t + sz[t] - 1 # v + 2
    <3> SUFFICES ASSUME v # 0 PROVE t # v + 2 /\ t + sz[t] - 1 # v + 2
      OBVIOUS
    <3>1. v \in T /\ v \in Int /\ sz[v] \in 4..(Len - 4)
      BY <1>2, <1>4
    <3>2. v = t \/ v + sz[v] <= t \/ t + sz[t] <= v
      BY <1>3, <3>1
    <3> QED BY <1>1, <3>1, <3>2
  <2> QED BY <1>7, <1>8, <2>1, <2>2
<1>9. Tagged(g.array, T, sz, G \cup {k})
  <2>1. ASSUME NEW t \in T, t # k
        PROVE  /\ g.array[t] = IF t \in G \cup {k} THEN sz[t] ELSE -sz[t]
               /\ g.array[t + sz[t] - 1] = IF t \in G \cup {k} THEN sz[t] ELSE -sz[t]
    BY <1>8, <2>1 DEF Tagged
  <2> QED BY <1>6, <2>1 DEF Tagged
<1>10. ASSUME NEW t \in G
       PROVE  g.array[t + 1] = h.array[t + 1] /\ (t # v => g.array[t + 2] = h.array[t + 2])
  <2>1. t \in T /\ t # k /\ t + 1 \in t..(t + sz[t] - 1) /\ t + 2 \in t..(t + sz[t] - 1)
    BY <1>2
  <2>2. v # 0 => t + 1 # v + 2 /\ (t # v => t + 2 # v + 2)
    <3> SUFFICES ASSUME v # 0 PROVE t + 1 # v + 2 /\ (t # v => t + 2 # v + 2)
      OBVIOUS
    <3>1. v \in T /\ v \in Int /\ sz[v] \in 4..(Len - 4) /\ sz[t] \in 4..(Len - 4) /\ t \in Int
      BY <1>2, <1>4
    <3>2. v = t \/ v + sz[v] <= t \/ t + sz[t] <= v
      BY <1>3, <2>1, <3>1
    <3> QED BY <3>1, <3>2
  <2> QED BY <1>7, <2>1, <2>2
<1>11. Behind(r, k) \in [Index -> Nat] /\ Linked(g.array, g.avail, G \cup {k}, Behind(r, k))
  <2>1. Spaced(G)
    BY FreeSpaced DEF Apart
  <2>2. Linked(h.array, v, G, r)
    BY DEF v
  <2>3. \A t \in G : /\ g.array[t + 1] = h.array[t + 1]
                     /\ t # v => g.array[t + 2] = h.array[t + 2]
    BY <1>10
  <2>4. k \in 2..(Len - 6) /\ k \notin G /\ g.array[k + 1] = v /\ g.array[k + 2] = 0
    BY <1>2, <1>6
  <2>5. v # 0 => g.array[v + 2] = k
    BY <1>6
  <2>6. Behind(r, k) \in [Index -> Nat] /\ Linked(g.array, k, G \cup {k}, Behind(r, k))
    <3>1. Pushed(h.array, g.array, G, v, k)
      BY <2>3, <2>4, <2>5 DEF Pushed
    <3> QED BY <2>1, <2>2, <2>4, <3>1, InsertLinks
  <2> QED BY <1>6, <2>6
<1>12. Apart(T, sz, G \cup {k})
  <2>1. k + sz[k] # k
    BY <1>2
  <2> QED BY <2>1 DEF Apart
<1>13. Kept(h.array, g.array, T, sz, G \cup {k})
  <2> SUFFICES ASSUME NEW t \in T \ (G \cup {k}), NEW x \in t..(t + sz[t] - 1)
               PROVE  g.array[x] = h.array[x]
    BY DEF Kept
  <2>1. v # 0 => x # v + 2
    <3> SUFFICES ASSUME v # 0 PROVE x # v + 2
      OBVIOUS
    <3>1. v \in T /\ v \in Int /\ sz[v] \in 4..(Len - 4) /\ v # t
      BY <1>2, <1>4
    <3>2. x < v \/ x >= v + sz[v]
      BY <3>1, OneBlock
    <3> QED BY <1>1, <3>1, <3>2
  <2> QED BY <1>7, <2>1
<1> QED BY <1>6, <1>9, <1>11, <1>12, <1>13 DEF Whole, g, v

\* malloc's half: the block i of the list becomes taken, as it is or split.
LEMMA TakeWhole ==
  ASSUME NEW h \in Heaps, NEW T, NEW sz, NEW F, NEW r \in [Index -> Nat],
         Whole(h, T, sz, F, r), NEW i \in F, NEW n \in Nat, n >= 4, sz[i] >= n
  PROVE  /\ Take(h, i, n) \in Heaps
         /\ Kept(h.array, Take(h, i, n).array, T, sz, F)
         /\ \E U, G \in SUBSET Index, s, q \in [Index -> Nat] :
              /\ Whole(Take(h, i, n), U, s, G, q)
              /\ i \in U \ (G \cup Ends) /\ s[i] >= n
              /\ T \ F \subseteq U \ G /\ \A t \in T \ F : s[t] = sz[t]
              /\ Held(U, s, G) = Held(T, sz, F) \cup {[at |-> i, ints |-> s[i]]}
<1> DEFINE m == sz[i] - n
           h1 == Remove(h, i)
           H == F \ {i}
<1>0. Len \in Nat /\ Len >= 8
  BY LenAssumption
<1>1. /\ Tiling(T, sz) /\ Apart(T, sz, F) /\ Tagged(h.array, T, sz, F)
      /\ Linked(h.array, h.avail, F, r) /\ F \subseteq T \ Ends /\ T \subseteq Index
      /\ sz \in [Index -> Nat] /\ i \in T \ Ends /\ i \notin T \ F
  BY DEF Whole, Apart, Tiling
<1>2. /\ i \in 2..(Len - 6) /\ sz[i] \in 4..(Len - 4) /\ i + sz[i] \in T
      /\ i + sz[i] \notin F
  <2>1. i \in 2..(Len - 6) /\ sz[i] \in 4..(Len - 4) /\ i + sz[i] \in T
    BY <1>1, TilingFacts, Zenon
  <2> QED BY <1>1, <2>1 DEF Apart
<1>3. Size(h, i) = sz[i]
  BY <1>1, TagFacts
<1>4. h1 \in Heaps /\ Linked(h1.array, h1.avail, H, r) /\ OnlyLinks(h.array, h1.array, H)
  <2>1. Spaced(F)
    BY <1>1, FreeSpaced
  <2> QED BY <1>1, <2>1, RemoveFacts
<1>5. Tagged(h1.array, T, sz, F) /\ Kept(h.array, h1.array, T, sz, F)
  BY <1>1, <1>4, LinksInside
<1>6. H \subseteq T \ Ends /\ i \notin H
  BY <1>1
<1>7. CASE m >= 4
  <2> DEFINE U == Cut(T, i, n)
             s == CutSize(sz, i, n)
             k == i + n
             h2 == MakeTaken(h1, i, n)
             g == MakeAvail(h2, k, m)
  <2>1. /\ Tiling(U, s) /\ k \notin T /\ k \in Index /\ k # i /\ s \in [Index -> Nat]
        /\ s[i] = n /\ s[k] = m /\ \A j \in T \ {i} : s[j] = sz[j]
    BY <1>1, <1>2, <1>7, TilingCut
  <2>2. Take(h, i, n) = g
    BY <1>3, <1>7 DEF Take
  <2>3. U = T \cup {k} /\ k + m = i + sz[i] /\ k \notin Ends
    <3>1. U = T \cup {k}
      BY DEF Cut
    <3>2. k \notin Ends
      BY <1>1, <2>1 DEF Tiling
    <3> QED BY <1>2, <3>1, <3>2
  <2>4. /\ h2 \in Heaps /\ Tagged(h2.array, U \ {k}, s, H)
        /\ Linked(h2.array, h2.avail, H, r) /\ Kept(h1.array, h2.array, U, s, {i})
    <3>1. Tagged(h1.array, (U \ {k}) \ {i}, s, H)
      BY <1>5, <2>1, <2>3 DEF Tagged
    <3>2. U \ {k} \subseteq U /\ H \subseteq U \ Ends /\ i \in U \ {k}
      BY <1>1, <2>1, <2>3
    <3>3. /\ MakeTaken(h1, i, s[i]) \in Heaps
          /\ Tagged(MakeTaken(h1, i, s[i]).array, U \ {k}, s, H)
          /\ Linked(MakeTaken(h1, i, s[i]).array, MakeTaken(h1, i, s[i]).avail, H, r)
          /\ Kept(h1.array, MakeTaken(h1, i, s[i]).array, U, s, {i})
      <4> HIDE DEF U, s, h1, H, k
      <4> QED BY <1>4, <1>6, <2>1, <3>1, <3>2, TakenTags
    <3> QED BY <2>1, <3>3
  <2>5. Apart(U, s, H) /\ k + s[k] \notin H /\ k \in U \ Ends /\ k \notin H
        /\ \A l \in H : l + s[l] # k
    <3>1. \A l \in H : l \in T /\ s[l] = sz[l] /\ l + sz[l] \in T /\ l + sz[l] \notin F
      <4>1. \A l \in T \ Ends : l + sz[l] \in T
        BY <1>1, TilingFacts, Zenon
      <4> QED BY <1>1, <2>1, <4>1 DEF Apart
    <3> HIDE DEF k, s, U
    <3>2. \A l \in H : l + s[l] # k /\ l + s[l] \notin H
      BY <2>1, <3>1
    <3>3. k + s[k] \notin H
      BY <1>2, <2>1, <2>3
    <3>4. k \in U \ Ends /\ k \notin H /\ H \subseteq U \ Ends
      BY <1>1, <2>1, <2>3
    <3> QED BY <3>2, <3>3, <3>4 DEF Apart
  <2> HIDE DEF U, s, k, H, m, h1, h2
  <2>6. /\ MakeAvail(h2, k, s[k]) \in Heaps
        /\ Behind(r, k) \in [Index -> Nat]
        /\ Whole(MakeAvail(h2, k, s[k]), U, s, H \cup {k}, Behind(r, k))
        /\ Kept(h2.array, MakeAvail(h2, k, s[k]).array, U, s, H \cup {k})
    BY <2>1, <2>4, <2>5, FreeWhole
  <2>7. /\ g \in Heaps
        /\ Whole(g, U, s, H \cup {k}, Behind(r, k))
        /\ Kept(h2.array, g.array, U, s, H \cup {k})
    BY <2>1, <2>6
  <2> HIDE DEF g
  <2>8. H = F \ {i}
    BY DEF H
  <2>9. \A t \in T \ F : t \in U \ (H \cup {k}) /\ t # i /\ s[t] = sz[t]
    BY <2>1, <2>3, <2>8
  <2>10. Kept(h.array, g.array, T, sz, F)
    <3> SUFFICES ASSUME NEW t \in T \ F, NEW x \in t..(t + sz[t] - 1)
                 PROVE  g.array[x] = h.array[x]
      BY DEF Kept
    <3>1. h1.array[x] = h.array[x]
      BY <1>5 DEF Kept
    <3>2. h2.array[x] = h1.array[x]
      BY <2>4, <2>9 DEF Kept
    <3>3. g.array[x] = h2.array[x]
      BY <2>7, <2>9 DEF Kept
    <3> QED BY <3>1, <3>2, <3>3
  <2>11. i \in U \ (H \cup {k} \cup Ends) /\ s[i] >= n
    BY <1>1, <1>6, <2>1, <2>3
  <2>12. Held(U, s, H \cup {k}) = Held(T, sz, F) \cup {[at |-> i, ints |-> s[i]]}
    <3>1. U \ (H \cup {k} \cup Ends) = (T \ (F \cup Ends)) \cup {i}
      BY <1>1, <2>1, <2>3, <2>8
    <3> QED BY <2>9, <3>1 DEF Held
  <2>13. U \in SUBSET Index /\ H \cup {k} \in SUBSET Index
    BY <1>1, <2>1, <2>3, <2>8
  <2>14. T \ F \subseteq U \ (H \cup {k}) /\ \A t \in T \ F : s[t] = sz[t]
    BY <2>9
  <2> QED BY <2>1, <2>2, <2>6, <2>7, <2>10, <2>11, <2>12, <2>13, <2>14
<1>8. CASE ~ (m >= 4)
  <2> DEFINE g == MakeTaken(h1, i, sz[i])
  <2>1. Take(h, i, n) = g
    BY <1>3, <1>8 DEF Take
  <2>2. Tagged(h1.array, T \ {i}, sz, H)
    BY <1>5 DEF Tagged
  <2>3. /\ g \in Heaps /\ Tagged(g.array, T, sz, H)
        /\ Linked(g.array, g.avail, H, r) /\ Kept(h1.array, g.array, T, sz, {i})
    <3> HIDE DEF H, h1
    <3> QED BY <1>1, <1>4, <1>6, <2>2, TakenTags
  <2> HIDE DEF g
  <2>4. Apart(T, sz, H)
    BY <1>1 DEF Apart
  <2>5. Whole(g, T, sz, H, r)
    BY <1>1, <2>3, <2>4 DEF Whole
  <2>6. Kept(h.array, g.array, T, sz, F)
    BY <1>5, <2>3 DEF Kept
  <2>7. Held(T, sz, H) = Held(T, sz, F) \cup {[at |-> i, ints |-> sz[i]]}
    <3>1. T \ (H \cup Ends) = (T \ (F \cup Ends)) \cup {i}
      BY <1>1
    <3> QED BY <3>1 DEF Held
  <2>8. T \in SUBSET Index /\ H \in SUBSET Index /\ i \in T \ (H \cup Ends) /\ sz[i] >= n
        /\ T \ F \subseteq T \ H
    BY <1>1
  <2> HIDE DEF H
  <2> QED BY <1>1, <2>1, <2>3, <2>5, <2>6, <2>7, <2>8
<1> QED BY <1>7, <1>8

\* The m ints from k on are the block i and free blocks next to it; H are the
\* other free blocks, none of which is next to those.
Merges(T, sz, F, H, i, k, m) ==
  /\ k \in T \ Ends /\ m >= 4 /\ k + m \in T /\ k <= i /\ i < k + m
  /\ \A j \in T : k <= j /\ j < k + m => j \in F \cup {i}
  /\ H \subseteq F /\ \A j \in F : j \in H <=> j < k \/ j >= k + m
  /\ k + m \notin H /\ \A l \in H : l + sz[l] # k

\* free's half: such blocks become one free block, when they have left the list.
LEMMA MergeWhole ==
  ASSUME NEW h \in Heaps, NEW T, NEW sz, Tiling(T, sz), NEW F, Apart(T, sz, F),
         Tagged(h.array, T, sz, F), NEW i \in T \ (F \cup Ends),
         NEW k, NEW m \in Nat, NEW H, Merges(T, sz, F, H, i, k, m),
         NEW r \in [Index -> Nat], Linked(h.array, h.avail, H, r)
  PROVE  /\ MakeAvail(h, k, m) \in Heaps
         /\ Kept(h.array, MakeAvail(h, k, m).array, T, sz, F \cup {i})
         /\ InOrder(MakeAvail(h, k, m), Held(T, sz, F) \ {[at |-> i, ints |-> sz[i]]})
<1> DEFINE U == Joined(T, k, m)
           s == JoinedSize(sz, k, m)
           g == MakeAvail(h, k, m)
<1> USE DEF Merges
<1>0. Len \in Nat /\ Len >= 8
  BY LenAssumption
<1>1. /\ T \subseteq Index /\ F \subseteq T \ Ends /\ \A l \in F : l + sz[l] \notin F
      /\ \A t \in T : t \in Int
  <2>1. T \subseteq Index
    BY DEF Tiling
  <2>2. \A t \in T : t \in Int
    BY <1>0, <2>1 DEF Index
  <2> QED BY <2>1, <2>2 DEF Apart
<1>2. /\ Tiling(U, s) /\ s \in [Index -> Nat] /\ s[k] = m
      /\ \A j \in T \ {k} : s[j] = sz[j]
  BY TilingJoined
<1>k. k \in T \ Ends /\ k \in T
  OBVIOUS
<1>3. \A j : j \in U <=> j \in T /\ (j <= k \/ j >= k + m)
  BY DEF Joined
<1> HIDE DEF U, s
<1>4. \A j \in H : j \in T /\ j \in F /\ j # k /\ j \in U /\ s[j] = sz[j]
  <2>1. \A j \in H : j \in F /\ j \in T /\ (j < k \/ j >= k + m) /\ j \in Int
    BY <1>1
  <2> QED BY <1>1, <1>2, <1>3, <2>1
<1>5. \A j \in U \ {k} : j \in T /\ s[j] = sz[j] /\ (j \in F <=> j \in H)
  BY <1>1, <1>2, <1>3
<1>6. Apart(U, s, H)
  BY <1>1, <1>4 DEF Apart
<1>7. Tagged(h.array, U \ {k}, s, H)
  <2>1. \A j \in U \ {k} : LET tag == IF j \in H THEN s[j] ELSE -s[j]
                           IN  h.array[j] = tag /\ h.array[j + s[j] - 1] = tag
    BY <1>5 DEF Tagged
  <2> QED BY <2>1 DEF Tagged
<1>8. k \in U \ Ends /\ k \notin H /\ k + s[k] \notin H /\ \A l \in H : l + s[l] # k
  BY <1>1, <1>2, <1>3, <1>4
<1>9. /\ MakeAvail(h, k, s[k]) \in Heaps
      /\ Behind(r, k) \in [Index -> Nat]
      /\ Whole(MakeAvail(h, k, s[k]), U, s, H \cup {k}, Behind(r, k))
      /\ Kept(h.array, MakeAvail(h, k, s[k]).array, U, s, H \cup {k})
  BY <1>2, <1>6, <1>7, <1>8, FreeWhole
<1>10. /\ g \in Heaps
       /\ Whole(g, U, s, H \cup {k}, Behind(r, k))
       /\ Kept(h.array, g.array, U, s, H \cup {k})
  BY <1>2, <1>9
<1> HIDE DEF g
<1>11. \A t \in T \ (F \cup {i}) : t \in U \ (H \cup {k}) /\ s[t] = sz[t]
  <2> SUFFICES ASSUME NEW t \in T \ (F \cup {i}) PROVE t \in U \ (H \cup {k}) /\ s[t] = sz[t]
    OBVIOUS
  <2>1. t < k \/ t >= k + m
    BY <1>1
  <2>2. t # k
    BY <1>1, <2>1
  <2> QED BY <1>1, <1>2, <1>3, <2>1, <2>2
<1>12. Kept(h.array, g.array, T, sz, F \cup {i})
  BY <1>10, <1>11 DEF Kept
<1>13. Held(U, s, H \cup {k}) = Held(T, sz, F) \ {[at |-> i, ints |-> sz[i]]}
  <2>1. U \ (H \cup {k} \cup Ends) = (T \ (F \cup Ends)) \ {i}
    <3>1. ASSUME NEW t \in U \ (H \cup {k} \cup Ends) PROVE t \in (T \ (F \cup Ends)) \ {i}
      <4>1. t \in T /\ t \notin F /\ t \notin Ends
        BY <1>5, <3>1
      <4>2. t < k \/ t >= k + m
        BY <1>1, <1>3, <3>1
      <4>3. t # i
        BY <1>1, <4>2
      <4> QED BY <4>1, <4>3
    <3>2. ASSUME NEW t \in (T \ (F \cup Ends)) \ {i} PROVE t \in U \ (H \cup {k} \cup Ends)
      BY <1>11, <3>2
    <3> QED BY <3>1, <3>2
  <2>2. \A t \in U \ (H \cup {k} \cup Ends) : s[t] = sz[t]
    BY <1>5
  <2> QED BY <2>1, <2>2 DEF Held
<1>14. U \in SUBSET Index /\ H \cup {k} \in SUBSET Index
  BY <1>1, <1>3
<1>15. InOrder(g, Held(T, sz, F) \ {[at |-> i, ints |-> sz[i]]})
  <2>1. Held(U, s, H \cup {k}) = Held(T, sz, F) \ {[at |-> i, ints |-> sz[i]]}
    BY <1>13
  <2> QED BY <1>2, <1>9, <1>10, <1>14, <2>1 DEF InOrder
<1> QED BY <1>10, <1>12, <1>15 DEF g

\* free: the block i is merged with the free blocks on its two sides.
LEMMA GiveBackWhole ==
  ASSUME NEW h \in Heaps, NEW T, NEW sz, NEW F, NEW r \in [Index -> Nat],
         Whole(h, T, sz, F, r), NEW i \in T \ (F \cup Ends)
  PROVE  /\ Freeable(h, i)
         /\ GiveBack(h, i) \in Heaps
         /\ Kept(h.array, GiveBack(h, i).array, T, sz, F \cup {i})
         /\ InOrder(GiveBack(h, i), Held(T, sz, F) \ {[at |-> i, ints |-> sz[i]]})
<1>0. Len \in Nat /\ Len >= 8
  BY LenAssumption
<1>1. /\ Tiling(T, sz) /\ Apart(T, sz, F) /\ Tagged(h.array, T, sz, F)
      /\ Linked(h.array, h.avail, F, r) /\ F \subseteq T \ Ends /\ T \subseteq Index
      /\ \A l \in F : l + sz[l] \notin F /\ i \in T \ Ends /\ i \notin F
  BY DEF Whole, Apart, Tiling
<1>2. \A t \in T : t \in Int /\ sz[t] \in Nat /\ sz[t] >= 2
  <2>1. \A t \in T : t \in Index /\ sz[t] \in Nat /\ sz[t] >= 2
    BY <1>1, TilingFacts, Zenon
  <2> QED BY <1>0, <2>1 DEF Index
<1>3. \A t \in T \ Ends : t \in 2..(Len - 6) /\ sz[t] \in 4..(Len - 4) /\ t + sz[t] \in T
  BY <1>1, TilingFacts, Zenon
<1>4. \A t, u \in T : t # u => t + sz[t] <= u \/ u + sz[u] <= t
  BY <1>1, TilingFacts, ZenonT(40)
<1>5. \A t, u \in T : t + sz[t] = u + sz[u] => t = u
  BY <1>1, TilingFacts
<1>6. i \in T /\ i # 0 /\ i \in Int /\ sz[i] \in Nat /\ sz[i] >= 4
  BY <1>2, <1>3
<1>7. PICK l \in T : l + sz[l] = i
  <2>1. \A t \in T : t # 0 => \E u \in T : u + sz[u] = t
    BY <1>1, TilingFacts
  <2> QED BY <1>6, <2>1
<1>8. PICK e \in T : e = i + sz[i]
  BY <1>3
<1>9. /\ LeftOf(h, i) = l /\ RightOf(h, i) = e
      /\ Size(h, i) = sz[i] /\ Size(h, l) = sz[l] /\ Size(h, e) = sz[e]
      /\ (IsAvail(h, l) <=> l \in F) /\ (IsAvail(h, e) <=> e \in F) /\ ~ IsAvail(h, i)
      /\ Sane(h, i) /\ Sane(h, l) /\ Sane(h, e)
  BY <1>1, <1>6, <1>7, <1>8, TagFacts
<1>10. Spaced(F)
  BY <1>1, FreeSpaced
<1>11. Freeable(h, i)
  <2>1. \A x \in F : Removable(h, x)
    BY <1>1, LinksAreSane
  <2>2. ASSUME l \in F, e \in F PROVE Removable(Remove(h, l), e)
    <3> DEFINE g == Remove(h, l)
               H == F \ {l}
    <3>1. g \in Heaps /\ Linked(g.array, g.avail, H, r) /\ OnlyLinks(h.array, g.array, H)
      BY <1>1, <1>10, <2>2, RemoveFacts
    <3>2. e \in H /\ H \subseteq F /\ H \subseteq T
      BY <1>1, <1>2, <1>6, <1>7, <1>8, <2>2
    <3> HIDE DEF g, H
    <3>3. Tagged(g.array, T, sz, F)
      BY <1>1, <3>1, <3>2, LinksInside
    <3>4. \A x \in H : Removable(g, x)
      BY <1>1, <3>1, <3>2, <3>3, LinksAreSane
    <3> QED BY <3>2, <3>4 DEF g
  <2> QED BY <1>9, <2>1, <2>2 DEF Freeable
<1>12. /\ l \in Int /\ e \in Int /\ sz[l] \in Nat /\ sz[l] >= 2 /\ sz[e] \in Nat /\ sz[e] >= 2
       /\ l < i /\ i < e /\ l # e
  BY <1>2, <1>6, <1>7, <1>8
<1>13. \A j \in T : j \in Int /\ (j = l \/ j < l \/ j >= i) /\ (j = i \/ j < i \/ j >= e)
                    /\ (j = e \/ j < e \/ j >= e + sz[e])
  <2> SUFFICES ASSUME NEW j \in T
               PROVE  j \in Int /\ (j = l \/ j < l \/ j >= i) /\ (j = i \/ j < i \/ j >= e)
                      /\ (j = e \/ j < e \/ j >= e + sz[e])
    OBVIOUS
  <2>1. /\ j = l \/ l + sz[l] <= j \/ j + sz[j] <= l
        /\ j = i \/ i + sz[i] <= j \/ j + sz[j] <= i
        /\ j = e \/ e + sz[e] <= j \/ j + sz[j] <= e
    BY <1>4, <1>6
  <2>2. j \in Int /\ sz[j] \in Nat /\ sz[j] >= 2
    BY <1>2
  <2> QED BY <1>6, <1>7, <1>8, <1>12, <2>1, <2>2
<1>14. \A x \in F : x \in T /\ x \in Int /\ x + sz[x] \notin F /\ (x + sz[x] = i => x = l)
                    /\ (x + sz[x] = l => l \notin F)
  BY <1>1, <1>2, <1>5, <1>7
<1>15. ASSUME l \notin F, e \notin F
       PROVE  /\ GiveBack(h, i) \in Heaps
              /\ Kept(h.array, GiveBack(h, i).array, T, sz, F \cup {i})
              /\ InOrder(GiveBack(h, i), Held(T, sz, F) \ {[at |-> i, ints |-> sz[i]]})
  <2>1. GiveBack(h, i) = MakeAvail(h, i, sz[i])
    <3>1. sz[i] + 0 = sz[i]
      BY <1>6
    <3> QED BY <1>9, <1>15, <3>1 DEF GiveBack
  <2>2. \A j \in T : i <= j /\ j < i + sz[i] => j \in F \cup {i}
    BY <1>6, <1>8, <1>13
  <2>3. \A j \in F : j \in F <=> j < i \/ j >= i + sz[i]
    BY <1>1, <1>6, <1>8, <1>13
  <2>4. i + sz[i] \in T /\ i + sz[i] \notin F /\ i <= i /\ i < i + sz[i] /\ sz[i] >= 4
        /\ \A x \in F : x + sz[x] # i
    BY <1>6, <1>8, <1>14, <1>15
  <2>5. PICK k \in T \ Ends : k = i
    OBVIOUS
  <2>6. /\ MakeAvail(h, k, sz[i]) \in Heaps
        /\ Kept(h.array, MakeAvail(h, k, sz[i]).array, T, sz, F \cup {i})
        /\ InOrder(MakeAvail(h, k, sz[i]), Held(T, sz, F) \ {[at |-> i, ints |-> sz[i]]})
    <3>1. Merges(T, sz, F, F, i, k, sz[i])
      BY <2>2, <2>3, <2>4, <2>5 DEF Merges
    <3> QED BY <1>1, <1>6, <3>1, MergeWhole
  <2> QED BY <2>1, <2>5, <2>6
<1>16. ASSUME l \in F, e \notin F
       PROVE  /\ GiveBack(h, i) \in Heaps
              /\ Kept(h.array, GiveBack(h, i).array, T, sz, F \cup {i})
              /\ InOrder(GiveBack(h, i), Held(T, sz, F) \ {[at |-> i, ints |-> sz[i]]})
  <2> DEFINE g == Remove(h, l)
             H == F \ {l}
  <2>0. PICK m \in Nat : m = sz[l] + sz[i]
    BY <1>6, <1>12
  <2>1. GiveBack(h, i) = MakeAvail(g, l, m)
    <3>1. sz[l] + sz[i] + 0 = m
      BY <1>6, <1>12, <2>0
    <3> QED BY <1>9, <1>16, <3>1 DEF GiveBack
  <2>2. g \in Heaps /\ Linked(g.array, g.avail, H, r) /\ OnlyLinks(h.array, g.array, H)
    BY <1>1, <1>10, <1>16, RemoveFacts
  <2>3. Tagged(g.array, T, sz, F) /\ Kept(h.array, g.array, T, sz, F)
    BY <1>1, <2>2, LinksInside
  <2>4. l + m = e
    BY <1>6, <1>7, <1>8, <1>12, <2>0
  <2>5. \A j \in T : l <= j /\ j < l + m => j \in F \cup {i}
    BY <1>6, <1>12, <1>13, <1>16, <2>4
  <2>6. \A j \in F : j \in H <=> j < l \/ j >= l + m
    BY <1>1, <1>12, <1>13, <1>14, <2>4
  <2>7. /\ l + m \in T /\ l + m \notin H /\ l <= i /\ i < l + m /\ m >= 4
        /\ \A x \in H : x + sz[x] # l
        /\ l \in T \ Ends /\ H \subseteq F
    BY <1>1, <1>6, <1>12, <1>14, <1>16, <2>0, <2>4
  <2> HIDE DEF g, H
  <2>8. /\ MakeAvail(g, l, m) \in Heaps
        /\ Kept(g.array, MakeAvail(g, l, m).array, T, sz, F \cup {i})
        /\ InOrder(MakeAvail(g, l, m), Held(T, sz, F) \ {[at |-> i, ints |-> sz[i]]})
    <3>1. Merges(T, sz, F, H, i, l, m)
      BY <2>5, <2>6, <2>7 DEF Merges
    <3> QED BY <1>1, <2>2, <2>3, <3>1, MergeWhole
  <2>9. Kept(h.array, MakeAvail(g, l, m).array, T, sz, F \cup {i})
    BY <2>3, <2>8 DEF Kept
  <2> QED BY <2>1, <2>8, <2>9
<1>17. ASSUME l \notin F, e \in F
       PROVE  /\ GiveBack(h, i) \in Heaps
              /\ Kept(h.array, GiveBack(h, i).array, T, sz, F \cup {i})
              /\ InOrder(GiveBack(h, i), Held(T, sz, F) \ {[at |-> i, ints |-> sz[i]]})
  <2> DEFINE g == Remove(h, e)
             H == F \ {e}
  <2>0. PICK m \in Nat : m = sz[i] + sz[e]
    BY <1>6, <1>12
  <2>1. GiveBack(h, i) = MakeAvail(g, i, m)
    BY <1>9, <1>17, <2>0 DEF GiveBack
  <2>2. g \in Heaps /\ Linked(g.array, g.avail, H, r) /\ OnlyLinks(h.array, g.array, H)
    BY <1>1, <1>10, <1>17, RemoveFacts
  <2>3. Tagged(g.array, T, sz, F) /\ Kept(h.array, g.array, T, sz, F)
    BY <1>1, <2>2, LinksInside
  <2>4. i + m = e + sz[e] /\ e + sz[e] \in T /\ e + sz[e] \notin F
    BY <1>1, <1>3, <1>6, <1>8, <1>12, <1>14, <1>17, <2>0
  <2>5. \A j \in T : i <= j /\ j < i + m => j \in F \cup {i}
    BY <1>6, <1>12, <1>13, <1>17, <2>4
  <2>6. \A j \in F : j \in H <=> j < i \/ j >= i + m
    BY <1>1, <1>6, <1>12, <1>13, <1>14, <2>4
  <2>7. /\ i + m \in T /\ i + m \notin H /\ i <= i /\ i < i + m /\ m >= 4
        /\ \A x \in H : x + sz[x] # i
        /\ H \subseteq F
    BY <1>1, <1>6, <1>12, <1>14, <1>17, <2>0, <2>4
  <2> HIDE DEF g, H
  <2>a. PICK k \in T \ Ends : k = i
    OBVIOUS
  <2>8. /\ MakeAvail(g, k, m) \in Heaps
        /\ Kept(g.array, MakeAvail(g, k, m).array, T, sz, F \cup {i})
        /\ InOrder(MakeAvail(g, k, m), Held(T, sz, F) \ {[at |-> i, ints |-> sz[i]]})
    <3>1. Merges(T, sz, F, H, i, k, m)
      BY <2>5, <2>6, <2>7, <2>a DEF Merges
    <3> QED BY <1>1, <2>2, <2>3, <3>1, MergeWhole
  <2>9. Kept(h.array, MakeAvail(g, k, m).array, T, sz, F \cup {i})
    BY <2>3, <2>8 DEF Kept
  <2> QED BY <2>1, <2>8, <2>9, <2>a
<1>18. ASSUME l \in F, e \in F
       PROVE  /\ GiveBack(h, i) \in Heaps
              /\ Kept(h.array, GiveBack(h, i).array, T, sz, F \cup {i})
              /\ InOrder(GiveBack(h, i), Held(T, sz, F) \ {[at |-> i, ints |-> sz[i]]})
  <2> DEFINE f == Remove(h, l)
             E == F \ {l}
             g == Remove(f, e)
             H == E \ {e}
  <2>0. PICK m \in Nat : m = sz[l] + sz[i] + sz[e]
    BY <1>6, <1>12
  <2>1. GiveBack(h, i) = MakeAvail(g, l, m)
    BY <1>9, <1>18, <2>0 DEF GiveBack
  <2>2. f \in Heaps /\ Linked(f.array, f.avail, E, r) /\ OnlyLinks(h.array, f.array, E)
    BY <1>1, <1>10, <1>18, RemoveFacts
  <2>3. Tagged(f.array, T, sz, F) /\ Kept(h.array, f.array, T, sz, F)
    BY <1>1, <2>2, LinksInside
  <2>4. g \in Heaps /\ Linked(g.array, g.avail, H, r) /\ OnlyLinks(f.array, g.array, H)
    <3>1. Spaced(E) /\ e \in E
      BY <1>10, <1>12, <1>18 DEF Spaced
    <3> HIDE DEF f, E
    <3> QED BY <2>2, <3>1, RemoveFacts
  <2>5. Tagged(g.array, T, sz, F) /\ Kept(f.array, g.array, T, sz, F)
    <3>1. H \subseteq F
      OBVIOUS
    <3> HIDE DEF f, g, E, H
    <3> QED BY <1>1, <2>3, <2>4, <3>1, LinksInside
  <2>6. l + m = e + sz[e] /\ e + sz[e] \in T /\ e + sz[e] \notin F
    BY <1>1, <1>3, <1>6, <1>7, <1>8, <1>12, <1>14, <1>18, <2>0
  <2>7. \A j \in T : l <= j /\ j < l + m => j \in F \cup {i}
    BY <1>6, <1>12, <1>13, <1>18, <2>6
  <2>8. \A j \in F : j \in H <=> j < l \/ j >= l + m
    BY <1>1, <1>6, <1>12, <1>13, <1>14, <2>6
  <2>9. /\ l + m \in T /\ l + m \notin H /\ l <= i /\ i < l + m /\ m >= 4
        /\ \A x \in H : x + sz[x] # l
        /\ l \in T \ Ends /\ H \subseteq F
    BY <1>1, <1>6, <1>12, <1>14, <1>18, <2>0, <2>6
  <2> HIDE DEF f, g, E, H
  <2>10. /\ MakeAvail(g, l, m) \in Heaps
         /\ Kept(g.array, MakeAvail(g, l, m).array, T, sz, F \cup {i})
         /\ InOrder(MakeAvail(g, l, m), Held(T, sz, F) \ {[at |-> i, ints |-> sz[i]]})
    <3>1. Merges(T, sz, F, H, i, l, m)
      BY <2>7, <2>8, <2>9 DEF Merges
    <3> QED BY <1>1, <2>4, <2>5, <3>1, MergeWhole
  <2>11. Kept(h.array, MakeAvail(g, l, m).array, T, sz, F \cup {i})
    BY <2>3, <2>5, <2>10 DEF Kept
  <2> QED BY <2>1, <2>10, <2>11
<1> QED BY <1>11, <1>15, <1>16, <1>17, <1>18

----------------------------------------------------------------------------
(* Walks over the list and over the blocks.                                *)

\* A walk with more steps than there are places comes back.
LEMMA ComesBack ==
  ASSUME NEW n \in Nat, NEW f \in [0..n -> 0..(n - 1)]
  PROVE  \E k, l \in 0..n : l < k /\ f[k] = f[l]
<1>1. IsFiniteSet(0..n) /\ Cardinality(0..n) = n + 1
  BY FS_Interval
<1>2. IsFiniteSet(0..(n - 1)) /\ Cardinality(0..(n - 1)) = n
  <2>1. IsFiniteSet(0..(n - 1)) /\ Cardinality(0..(n - 1)) = IF 0 > n - 1 THEN 0 ELSE n - 1 - 0 + 1
    BY FS_Interval
  <2> QED BY <2>1
<1>3. Cardinality(0..n) > Cardinality(0..(n - 1))
  BY <1>1, <1>2
<1>4. \E x, y \in 0..n : x # y /\ f[x] = f[y]
  BY <1>1, <1>2, <1>3, FS_PigeonHole
<1>5. PICK x \in 0..n, y \in 0..n : x # y /\ f[x] = f[y]
  BY <1>4
<1>6. x < y \/ y < x
  BY <1>5
<1> QED BY <1>5, <1>6

LEMMA MostNat == Most \in Nat /\ 4 * Most <= Len /\ Len < 4 * Most + 4
BY LenAssumption DEF Most

\* The list as the links give it.
LEMMA ListedFacts ==
  ASSUME NEW h \in Heaps, NEW F, F \subseteq Index, 0 \notin F, NEW r,
         Linked(h.array, h.avail, F, r)
  PROVE  /\ \A k \in 0..Most : Listed(h)[k] \in F \cup {0}
         /\ Listed(h)[0] = h.avail
         /\ \A k \in 1..Most : Listed(h)[k] = IF Listed(h)[k - 1] = 0 THEN 0
                                              ELSE h.array[Listed(h)[k - 1] + 1]
<1> DEFINE S == F \cup {0}
           f == [i \in S |-> IF i = 0 THEN 0 ELSE h.array[i + 1]]
<1>0. Most \in Nat
  BY MostNat
<1>1. f \in [S -> S] /\ h.avail \in S
  BY DEF Linked
<1>2. \A i \in S : f[i] = IF i = 0 THEN 0 ELSE h.array[i + 1]
  OBVIOUS
<1> HIDE DEF S, f
<1>3. PICK g \in [0..Most -> S] : g[0] = h.avail /\ \A k \in 1..Most : g[k] = f[g[k - 1]]
  <2>1. \E g \in [0..Most -> S] : Walk(g, f, h.avail, Most)
    BY <1>0, <1>1, Iterates
  <2> QED BY <2>1 DEF Walk
<1>4. g = [k \in 0..Most |-> IF k = 0 THEN h.avail
                             ELSE LET i == g[k - 1] IN IF i = 0 THEN 0 ELSE h.array[i + 1]]
  <2>1. ASSUME NEW k \in 0..Most
        PROVE  g[k] = IF k = 0 THEN h.avail
                      ELSE LET i == g[k - 1] IN IF i = 0 THEN 0 ELSE h.array[i + 1]
    <3>1. CASE k = 0
      BY <1>3, <3>1
    <3>2. CASE k # 0
      <4>1. k \in 1..Most /\ k - 1 \in 0..Most
        BY <1>0, <3>2
      <4>2. g[k] = f[g[k - 1]] /\ g[k - 1] \in S
        BY <1>3, <4>1
      <4> QED BY <1>2, <3>2, <4>2
    <3> QED BY <3>1, <3>2
  <2> QED BY <1>3, <2>1
<1>5. Listed(h) = [k \in 0..Most |-> IF k = 0 THEN h.avail
                     ELSE LET i == Listed(h)[k - 1] IN IF i = 0 THEN 0 ELSE h.array[i + 1]]
  BY <1>4, Zenon DEF Listed
<1>6. \A k \in 0..Most : Listed(h)[k] = IF k = 0 THEN h.avail
                     ELSE LET i == Listed(h)[k - 1] IN IF i = 0 THEN 0 ELSE h.array[i + 1]
  BY <1>5, Zenon
<1>7. PICK at : at = Listed(h)
  OBVIOUS
<1>8. /\ at[0] = h.avail
      /\ \A k \in 1..Most : at[k] = IF at[k - 1] = 0 THEN 0 ELSE h.array[at[k - 1] + 1]
  BY <1>0, <1>6, <1>7
<1>9. \A k \in 0..Most : at[k] \in S
  <2> DEFINE Good == {k \in Nat : k <= Most => at[k] \in S}
  <2>1. 0 \in Good
    BY <1>1, <1>8
  <2>2. ASSUME NEW k \in 0..(Most - 1), k \in Good PROVE k + 1 \in Good
    <3>1. k + 1 \in 1..Most /\ k + 1 - 1 = k /\ at[k] \in S
      BY <1>0, <2>2
    <3>2. at[k + 1] = f[at[k]]
      BY <1>2, <1>8, <3>1
    <3> QED BY <1>1, <3>1, <3>2
  <2>3. Good \in SUBSET Nat
    OBVIOUS
  <2> HIDE DEF Good
  <2>4. 0..Most \subseteq Good
    BY <1>0, <2>1, <2>2, <2>3, UpTo
  <2> QED BY <1>0, <2>4 DEF Good
<1> QED BY <1>7, <1>8, <1>9 DEF S

\* The list holds each free block once.
LEMMA ListedOnce ==
  ASSUME NEW h \in Heaps, NEW F, F \subseteq Index, 0 \notin F, NEW r \in [Index -> Nat],
         Linked(h.array, h.avail, F, r)
  PROVE  /\ \A k \in 0..Most : Listed(h)[k] # 0 =>
              /\ h.array[Listed(h)[k] + 2] = IF k = 0 THEN 0 ELSE Listed(h)[k - 1]
              /\ \A l \in 0..(k - 1) : Listed(h)[l] # Listed(h)[k]
<1>0. Most \in Nat
  BY MostNat
<1>1. PICK at : at = Listed(h)
  OBVIOUS
<1>2. /\ \A k \in 0..Most : at[k] \in F \cup {0}
      /\ at[0] = h.avail
      /\ \A k \in 1..Most : at[k] = IF at[k - 1] = 0 THEN 0 ELSE h.array[at[k - 1] + 1]
  BY <1>1, ListedFacts
<1>3. /\ \A i \in F : h.array[i + 2] = 0 <=> h.avail = i
      /\ \A i \in F : h.array[i + 1] # 0 =>
           h.array[h.array[i + 1] + 2] = i /\ r[i] < r[h.array[i + 1]]
  BY DEF Linked
<1>4. \A i \in F : r[i] \in Nat
  OBVIOUS
<1>5. ASSUME NEW k \in 1..Most, at[k] # 0
      PROVE  /\ at[k - 1] \in F /\ at[k] \in F
             /\ h.array[at[k] + 2] = at[k - 1] /\ r[at[k - 1]] < r[at[k]]
  <2>1. k - 1 \in 0..Most /\ k \in 0..Most
    BY <1>0
  <2>2. at[k - 1] \in F /\ at[k] = h.array[at[k - 1] + 1] /\ at[k] \in F
    BY <1>2, <1>5, <2>1
  <2> QED BY <1>3, <1>5, <2>2
<1>6. \A k \in 0..Most : at[k] # 0 => \A l \in 0..(k - 1) : at[l] # 0 /\ r[at[l]] < r[at[k]]
  <2> DEFINE Good == {k \in Nat : k <= Most => (at[k] # 0 =>
                                    \A l \in 0..(k - 1) : at[l] # 0 /\ r[at[l]] < r[at[k]])}
  <2>1. 0 \in Good
    OBVIOUS
  <2>2. ASSUME NEW k \in 0..(Most - 1), k \in Good PROVE k + 1 \in Good
    <3> SUFFICES ASSUME at[k + 1] # 0, NEW l \in 0..k
                 PROVE  at[l] # 0 /\ r[at[l]] < r[at[k + 1]]
      BY <1>0
    <3>1. k + 1 \in 1..Most /\ k + 1 - 1 = k
      BY <1>0
    <3>2. at[k] \in F /\ at[k + 1] \in F /\ r[at[k]] < r[at[k + 1]] /\ at[k] # 0
      BY <1>5, <3>1
    <3>3. CASE l = k
      BY <3>2, <3>3
    <3>4. CASE l # k
      <4>1. l \in 0..(k - 1) /\ l \in 0..Most /\ k <= Most
        BY <1>0, <3>4
      <4>2. at[l] # 0 /\ r[at[l]] < r[at[k]]
        BY <2>2, <3>2, <4>1
      <4>3. at[l] \in F
        BY <1>2, <4>1, <4>2
      <4>4. r[at[l]] \in Nat /\ r[at[k]] \in Nat /\ r[at[k + 1]] \in Nat
        BY <1>4, <3>2, <4>3
      <4> QED BY <3>2, <4>2, <4>4
    <3> QED BY <3>3, <3>4
  <2>3. Good \in SUBSET Nat
    OBVIOUS
  <2> HIDE DEF Good
  <2>4. 0..Most \subseteq Good
    BY <1>0, <2>1, <2>2, <2>3, UpTo
  <2> QED BY <1>0, <2>4 DEF Good
<1>7. ASSUME NEW k \in 0..Most, at[k] # 0
      PROVE  /\ h.array[at[k] + 2] = IF k = 0 THEN 0 ELSE at[k - 1]
             /\ \A l \in 0..(k - 1) : at[l] # at[k]
  <2>1. \A l \in 0..(k - 1) : at[l] # at[k]
    <3> SUFFICES ASSUME NEW l \in 0..(k - 1), at[l] = at[k] PROVE FALSE
      OBVIOUS
    <3>1. r[at[l]] < r[at[k]] /\ at[k] \in F
      BY <1>2, <1>6, <1>7
    <3> QED BY <1>4, <3>1
  <2>2. CASE k = 0
    BY <1>2, <1>3, <1>7, <2>1, <2>2
  <2>3. CASE k # 0
    BY <1>5, <1>7, <2>1, <2>3
  <2> QED BY <2>2, <2>3
<1> QED BY <1>1, <1>7

\* The list holds every free block.
LEMMA ListedAll ==
  ASSUME NEW h \in Heaps, NEW F, Spaced(F), NEW r \in [Index -> Nat],
         Linked(h.array, h.avail, F, r)
  PROVE  \A i \in F : \E k \in 0..Most : Listed(h)[k] = i
<1>0. Most \in Nat /\ 4 * Most <= Len /\ Len < 4 * Most + 4
  BY MostNat
<1>1. \A i \in F : i \in 2..(Len - 6)
  BY DEF Spaced
<1>2. F \subseteq Index /\ 0 \notin F
  BY <1>1, LenAssumption DEF Index
<1>3. PICK at : at = Listed(h)
  OBVIOUS
<1>4. /\ \A k \in 0..Most : at[k] \in F \cup {0}
      /\ at[0] = h.avail
      /\ \A k \in 1..Most : at[k] = IF at[k - 1] = 0 THEN 0 ELSE h.array[at[k - 1] + 1]
  BY <1>2, <1>3, ListedFacts
<1>5. \A k \in 0..Most : at[k] # 0 => \A l \in 0..(k - 1) : at[l] # at[k]
  BY <1>2, <1>3, ListedOnce
<1>6. \E k \in 0..Most : at[k] = 0
  <2> SUFFICES ASSUME \A k \in 0..Most : at[k] \in F PROVE FALSE
    BY <1>4
  <2> DEFINE f == [k \in 0..Most |-> at[k] \div 4]
  <2>1. \A i \in F : i \div 4 \in 0..(Most - 1)
    <3>1. ASSUME NEW i \in Int, 2 <= i, i <= Len - 6 PROVE i \div 4 \in 0..(Most - 1)
      BY <1>0, <3>1, LenAssumption
    <3>2. \A i \in F : i \in Int /\ 2 <= i /\ i <= Len - 6
      BY <1>1, LenAssumption
    <3> QED BY <3>1, <3>2
  <2>2. f \in [0..Most -> 0..(Most - 1)]
    BY <2>1
  <2>3. PICK k \in 0..Most, l \in 0..Most : l < k /\ f[k] = f[l]
    <3> HIDE DEF f
    <3> QED BY <1>0, <2>2, ComesBack
  <2>4. at[k] # at[l] /\ at[k] \in F /\ at[l] \in F /\ at[k] \div 4 = at[l] \div 4
    <3>1. l \in 0..(k - 1) /\ at[k] # 0
      BY <1>0, <1>2, <2>3
    <3> QED BY <1>5, <2>3, <3>1
  <2>5. \A i, j \in F : i = j \/ i + 4 <= j \/ j + 4 <= i
    BY DEF Spaced
  <2>6. ASSUME NEW i \in Int, NEW j \in Int, i + 4 <= j PROVE i \div 4 # j \div 4
    BY <2>6
  <2>7. at[k] \in Int /\ at[l] \in Int
    BY <1>1, <2>4
  <2> QED BY <2>4, <2>5, <2>6, <2>7
<1>7. \A k \in 1..Most : at[k - 1] = 0 => at[k] = 0
  BY <1>4
<1>8. at[Most] = 0
  <2>1. PICK e \in 0..Most : at[e] = 0
    BY <1>6
  <2> DEFINE Good == {k \in Nat : e <= k /\ k <= Most => at[k] = 0}
  <2>2. 0 \in Good
    BY <2>1
  <2>3. ASSUME NEW k \in 0..(Most - 1), k \in Good PROVE k + 1 \in Good
    <3> SUFFICES ASSUME e <= k + 1 PROVE at[k + 1] = 0
      BY <1>0
    <3>1. CASE e = k + 1
      BY <2>1, <3>1
    <3>2. CASE e # k + 1
      <4>1. e <= k /\ k <= Most /\ k + 1 \in 1..Most /\ k + 1 - 1 = k
        BY <1>0, <3>2
      <4>2. at[k] = 0
        BY <2>3, <4>1
      <4> QED BY <1>7, <4>1, <4>2
    <3> QED BY <3>1, <3>2
  <2>4. Good \in SUBSET Nat
    OBVIOUS
  <2> HIDE DEF Good
  <2>5. 0..Most \subseteq Good
    BY <1>0, <2>2, <2>3, <2>4, UpTo
  <2> QED BY <1>0, <2>5 DEF Good
<1> DEFINE Ranks == {r[i] : i \in {j \in F : \A k \in 0..Most : at[k] # j}}
<1>9. SUFFICES ASSUME Ranks # {} PROVE FALSE
  BY <1>3
<1>10. Ranks \in SUBSET Nat
  BY <1>2
<1>11. Min(Ranks) \in Ranks /\ \A x \in Ranks : Min(Ranks) <= x
  <2> HIDE DEF Ranks
  <2> QED BY <1>9, <1>10, MinNat
<1>12. PICK i \in F : (\A k \in 0..Most : at[k] # i) /\ r[i] = Min(Ranks)
  BY <1>11
<1>13. PICK p : p = h.array[i + 2]
  OBVIOUS
<1>14. p \in F \cup {0}
  BY <1>13 DEF Linked
<1>15. CASE p = 0
  <2>1. h.avail = i
    BY <1>13, <1>15 DEF Linked
  <2> QED BY <1>0, <1>4, <1>12, <2>1
<1>16. CASE p # 0
  <2>1. p \in F /\ h.array[p + 1] = i
    BY <1>13, <1>14, <1>16 DEF Linked
  <2>2. i # 0
    BY <1>2
  <2>3. r[p] < r[i]
    BY <2>1, <2>2 DEF Linked
  <2>4. r[p] \in Nat /\ r[i] \in Nat
    BY <1>2, <2>1
  <2>5. r[p] \notin Ranks
    <3>1. \A x \in Ranks : r[i] <= x
      BY <1>11, <1>12
    <3> HIDE DEF Ranks
    <3> QED BY <2>3, <2>4, <3>1
  <2>6. PICK k \in 0..Most : at[k] = p
    BY <2>1, <2>5
  <2>7. k # Most
    BY <1>8, <1>16, <2>6
  <2>8. k + 1 \in 1..Most /\ k + 1 - 1 = k /\ k + 1 \in 0..Most
    BY <1>0, <2>7
  <2>9. at[k + 1] = i
    BY <1>4, <1>16, <2>1, <2>6, <2>8
  <2> QED BY <1>12, <2>8, <2>9
<1> QED BY <1>15, <1>16

\* What malloc finds, and what it looks at on the way.
LEMMA FoundFacts ==
  ASSUME NEW h \in Heaps, NEW T, NEW sz, NEW F, NEW r \in [Index -> Nat],
         Whole(h, T, sz, F, r), NEW n \in Nat
  PROVE  /\ Found(h, n) \in F \cup {0}
         /\ Found(h, n) # 0 => sz[Found(h, n)] >= n
         /\ Found(h, n) = 0 => \A i \in F : sz[i] < n
         /\ Visited(h, n) \subseteq F
<1>0. Most \in Nat
  BY MostNat
<1>1. /\ Tiling(T, sz) /\ Tagged(h.array, T, sz, F) /\ F \subseteq T \ Ends
      /\ Linked(h.array, h.avail, F, r)
  BY DEF Whole, Apart
<1>2. Spaced(F)
  BY <1>1, FreeSpaced
<1>3. \A i \in F : i # 0 /\ i \in Index /\ Size(h, i) = sz[i] /\ sz[i] \in Nat
  <2>1. \A i \in F : i \in Index /\ sz[i] \in Nat
    BY <1>1, TilingFacts, Zenon
  <2>2. \A i \in F : Size(h, i) = sz[i]
    BY <1>1, TagFacts
  <2> QED BY <1>1, <2>1, <2>2 DEF Ends
<1>4. PICK at : at = Listed(h)
  OBVIOUS
<1>5. \A k \in 0..Most : at[k] \in F \cup {0}
  <2>1. F \subseteq Index /\ 0 \notin F
    BY <1>3
  <2> QED BY <1>1, <1>4, <2>1, ListedFacts
<1>6. \A i \in F : \E k \in 0..Most : at[k] = i
  BY <1>1, <1>2, <1>4, ListedAll
<1> DEFINE K == {k \in 0..Most : at[k] # 0 /\ Size(h, at[k]) >= n}
<1>7. PICK m : m = Steps(h, n)
  OBVIOUS
<1>8. m \in {Most + 1} \cup K /\ \A k \in {Most + 1} \cup K : m <= k
  <2>1. Steps(h, n) = Min({Most + 1} \cup K)
    BY <1>4 DEF Steps
  <2>2. {Most + 1} \cup K \in SUBSET Nat /\ {Most + 1} \cup K # {}
    BY <1>0
  <2> HIDE DEF K
  <2>3. /\ Min({Most + 1} \cup K) \in {Most + 1} \cup K
        /\ \A k \in {Most + 1} \cup K : Min({Most + 1} \cup K) <= k
    BY <2>2, MinNat
  <2> QED BY <1>7, <2>1, <2>3
<1>9. Found(h, n) = IF m > Most THEN 0 ELSE at[m]
  BY <1>4, <1>7 DEF Found
<1>10. m \in Nat /\ (m > Most <=> m = Most + 1) /\ (m # Most + 1 => m \in K)
  BY <1>0, <1>8
<1>11. Found(h, n) \in F \cup {0} /\ (Found(h, n) # 0 => sz[Found(h, n)] >= n)
  BY <1>3, <1>5, <1>9, <1>10
<1>12. ASSUME Found(h, n) = 0, NEW i \in F PROVE sz[i] < n
  <2>1. m = Most + 1
    BY <1>9, <1>10, <1>12
  <2>2. PICK k \in 0..Most : at[k] = i
    BY <1>6
  <2>3. k \notin K
    BY <1>0, <1>8, <2>1
  <2>4. Size(h, i) = sz[i] /\ sz[i] \in Nat /\ i # 0
    BY <1>3
  <2>5. ~ (sz[i] >= n)
    BY <2>2, <2>3, <2>4
  <2> QED BY <2>4, <2>5
<1>13. Visited(h, n) \subseteq F
  <2>1. Min({Most, m}) \in 0..Most
    <3>1. {Most, m} \in SUBSET Nat /\ {Most, m} # {}
      BY <1>0, <1>10
    <3>2. Min({Most, m}) \in {Most, m} /\ \A k \in {Most, m} : Min({Most, m}) <= k
      BY <3>1, MinNat
    <3> QED BY <1>0, <1>10, <3>2
  <2>2. Visited(h, n) = {at[k] : k \in 0..Min({Most, m})} \ {0}
    BY <1>4, <1>7 DEF Visited
  <2>3. \A k \in 0..Min({Most, m}) : k \in 0..Most
    BY <1>0, <2>1
  <2> QED BY <1>5, <2>2, <2>3
<1> QED BY <1>11, <1>12, <1>13

----------------------------------------------------------------------------
(* The operations on a heap in order.                                      *)

\* What the blocks hold is the same in a and b.
Same(a, b, blocks) == \A c \in blocks : \A x \in c.at..(c.at + c.ints - 1) : b[x] = a[x]

LEMMA HeldFacts ==
  ASSUME NEW T, NEW sz, Tiling(T, sz), NEW F, F \subseteq T \ Ends
  PROVE  /\ \A b \in Held(T, sz, F) : /\ b.at \in T \ (F \cup Ends) /\ b.ints = sz[b.at]
                                      /\ b = [at |-> b.at, ints |-> sz[b.at]]
                                      /\ b.at \in 2..(Len - 6) /\ b.ints \in 4..(Len - 4)
                                      /\ b.at + b.ints <= Len - 2
         /\ \A b, c \in Held(T, sz, F) :
              b = c \/ b.at + b.ints <= c.at \/ c.at + c.ints <= b.at
<1>1. ASSUME NEW b \in Held(T, sz, F)
      PROVE  /\ b.at \in T \ (F \cup Ends) /\ b.ints = sz[b.at]
             /\ b = [at |-> b.at, ints |-> sz[b.at]]
             /\ b.at \in 2..(Len - 6) /\ b.ints \in 4..(Len - 4)
             /\ b.at + b.ints <= Len - 2
  <2>1. PICK i \in T \ (F \cup Ends) : b = [at |-> i, ints |-> sz[i]]
    BY DEF Held
  <2>2. i \in 2..(Len - 6) /\ sz[i] \in 4..(Len - 4) /\ i + sz[i] <= Len - 2
    BY TilingFacts, Zenon
  <2> QED BY <2>1, <2>2
<1>2. ASSUME NEW b \in Held(T, sz, F), NEW c \in Held(T, sz, F), b # c
      PROVE  b.at + b.ints <= c.at \/ c.at + c.ints <= b.at
  <2>1. b.at # c.at
    BY <1>1, <1>2
  <2>2. \A i, j \in T : i # j => i + sz[i] <= j \/ j + sz[j] <= i
    BY TilingFacts, Zenon
  <2> QED BY <1>1, <2>1, <2>2
<1> QED BY <1>1, <1>2

LEMMA OrderFacts ==
  ASSUME NEW h, NEW blocks, InOrder(h, blocks)
  PROVE  /\ h.avail \in {0} \cup 2..(Len - 6)
         /\ blocks \subseteq [at : 2..(Len - 6), ints : 4..(Len - 4)]
         /\ \A b \in blocks : b.at + b.ints <= Len - 2
         /\ \A b, c \in blocks : b = c \/ b.at + b.ints <= c.at \/ c.at + c.ints <= b.at
<1>1. PICK T \in SUBSET Index, F \in SUBSET Index, sz \in [Index -> Nat], r \in [Index -> Nat] :
        Whole(h, T, sz, F, r) /\ blocks = Held(T, sz, F)
  BY DEF InOrder
<1>2. Tiling(T, sz) /\ F \subseteq T \ Ends /\ h.avail \in F \cup {0}
  BY <1>1 DEF Whole, Apart, Linked
<1>3. Spaced(F)
  BY <1>2, FreeSpaced
<1>4. h.avail \in {0} \cup 2..(Len - 6)
  BY <1>2, <1>3 DEF Spaced
<1>5. \A b \in blocks : /\ b = [at |-> b.at, ints |-> sz[b.at]] /\ b.ints = sz[b.at]
                        /\ b.at \in 2..(Len - 6) /\ b.ints \in 4..(Len - 4)
                        /\ b.at + b.ints <= Len - 2
  BY <1>1, <1>2, HeldFacts
<1>6. \A b, c \in blocks : b = c \/ b.at + b.ints <= c.at \/ c.at + c.ints <= b.at
  BY <1>1, <1>2, HeldFacts
<1>7. blocks \subseteq [at : 2..(Len - 6), ints : 4..(Len - 4)]
  BY <1>5
<1> QED BY <1>4, <1>5, <1>6, <1>7

\* malloc on a heap in order.
LEMMA TakeInOrder ==
  ASSUME NEW h \in Heaps, NEW blocks, InOrder(h, blocks), NEW n \in Nat, n >= 4,
         NEW i, i = Found(h, n), i # 0
  PROVE  /\ Take(h, i, n) \in Heaps
         /\ InOrder(Take(h, i, n), blocks \cup {BlockAt(Take(h, i, n), i)})
         /\ Same(h.array, Take(h, i, n).array, blocks)
         /\ i \in 2..(Len - 6) /\ \A b \in blocks : b.at # i
         /\ Size(Take(h, i, n), i) \in Nat /\ Size(Take(h, i, n), i) >= n
<1> DEFINE g == Take(h, i, n)
<1>1. PICK T \in SUBSET Index, F \in SUBSET Index, sz \in [Index -> Nat], r \in [Index -> Nat] :
        Whole(h, T, sz, F, r) /\ blocks = Held(T, sz, F)
  BY DEF InOrder
<1>2. Tiling(T, sz) /\ F \subseteq T \ Ends
  BY <1>1 DEF Whole, Apart
<1>3. i \in F /\ sz[i] >= n
  BY <1>1, FoundFacts
<1>4. /\ g \in Heaps /\ Kept(h.array, g.array, T, sz, F)
      /\ \E U, G \in SUBSET Index, s, q \in [Index -> Nat] :
           /\ Whole(g, U, s, G, q)
           /\ i \in U \ (G \cup Ends) /\ s[i] >= n
           /\ T \ F \subseteq U \ G /\ \A t \in T \ F : s[t] = sz[t]
           /\ Held(U, s, G) = Held(T, sz, F) \cup {[at |-> i, ints |-> s[i]]}
  BY <1>1, <1>3, TakeWhole, SMTT(40)
<1> HIDE DEF g
<1>5. PICK U \in SUBSET Index, G \in SUBSET Index, s \in [Index -> Nat], q \in [Index -> Nat] :
           /\ Whole(g, U, s, G, q)
           /\ i \in U \ (G \cup Ends) /\ s[i] >= n
           /\ Held(U, s, G) = Held(T, sz, F) \cup {[at |-> i, ints |-> s[i]]}
  BY <1>4
<1>6. Size(g, i) = s[i] /\ s[i] \in Nat
  <2>1. Tiling(U, s) /\ Tagged(g.array, U, s, G) /\ i \in U
    BY <1>5 DEF Whole
  <2>2. s[i] \in Nat
    BY <1>5
  <2>3. \A t \in U : Size(g, t) = s[t]
    <3>1. PICK e \in Heaps : e = g
      BY <1>4
    <3>2. Tiling(U, s) /\ Tagged(e.array, U, s, G)
      BY <2>1, <3>1, Zenon
    <3>3. \A t \in U : Size(e, t) = s[t]
      BY <3>2, TagFacts
    <3> QED BY <3>1, <3>3
  <2> QED BY <2>1, <2>2, <2>3
<1>7. InOrder(g, blocks \cup {BlockAt(g, i)})
  <2>1. BlockAt(g, i) = [at |-> i, ints |-> s[i]]
    BY <1>6 DEF BlockAt
  <2>2. Held(U, s, G) = blocks \cup {BlockAt(g, i)}
    BY <1>1, <1>5, <2>1
  <2> QED BY <1>5, <2>2 DEF InOrder
<1>8. \A b \in blocks : b.at \in T \ F /\ b.ints = sz[b.at]
  BY <1>1, <1>2, HeldFacts
<1>9. Same(h.array, g.array, blocks)
  BY <1>4, <1>8 DEF Same, Kept
<1>10. Spaced(F)
  BY <1>2, FreeSpaced
<1>11. i \in 2..(Len - 6)
  BY <1>3, <1>10 DEF Spaced
<1> QED BY <1>3, <1>4, <1>5, <1>6, <1>7, <1>8, <1>9, <1>11 DEF g

\* free on a heap in order.
LEMMA GiveBackInOrder ==
  ASSUME NEW h \in Heaps, NEW blocks, InOrder(h, blocks), NEW b \in blocks
  PROVE  /\ Freeable(h, b.at)
         /\ GiveBack(h, b.at) \in Heaps
         /\ InOrder(GiveBack(h, b.at), blocks \ {b})
         /\ Same(h.array, GiveBack(h, b.at).array, blocks \ {b})
<1>1. PICK T \in SUBSET Index, F \in SUBSET Index, sz \in [Index -> Nat], r \in [Index -> Nat] :
        Whole(h, T, sz, F, r) /\ blocks = Held(T, sz, F)
  BY DEF InOrder
<1>2. Tiling(T, sz) /\ F \subseteq T \ Ends
  BY <1>1 DEF Whole, Apart
<1>3. \A c \in blocks : c.at \in T \ (F \cup Ends) /\ c.ints = sz[c.at]
                        /\ c = [at |-> c.at, ints |-> sz[c.at]]
  BY <1>1, <1>2, HeldFacts
<1>4. PICK i \in T \ (F \cup Ends) : i = b.at
  BY <1>3
<1>5. /\ Freeable(h, i) /\ GiveBack(h, i) \in Heaps
      /\ Kept(h.array, GiveBack(h, i).array, T, sz, F \cup {i})
      /\ InOrder(GiveBack(h, i), Held(T, sz, F) \ {[at |-> i, ints |-> sz[i]]})
  BY <1>1, GiveBackWhole
<1>6. b = [at |-> i, ints |-> sz[i]]
  BY <1>3, <1>4
<1>7. \A c \in blocks \ {b} : c.at \in T \ (F \cup {i}) /\ c.ints = sz[c.at]
  BY <1>3, <1>4
<1>8. Same(h.array, GiveBack(h, i).array, blocks \ {b})
  BY <1>5, <1>7 DEF Same, Kept
<1>9. InOrder(GiveBack(h, i), blocks \ {b})
  BY <1>1, <1>5, <1>6
<1> QED BY <1>4, <1>5, <1>8, <1>9

\* A caller writes between the tags of its block.
LEMMA FillInOrder ==
  ASSUME NEW h \in Heaps, NEW g \in Heaps, NEW blocks, InOrder(h, blocks), NEW b \in blocks,
         g.avail = h.avail,
         \A x \in Index : x \notin (b.at + 1)..(b.at + b.ints - 2) => g.array[x] = h.array[x]
  PROVE  InOrder(g, blocks) /\ Same(h.array, g.array, blocks \ {b})
<1>0. Len \in Nat /\ Len >= 8
  BY LenAssumption
<1>1. PICK T \in SUBSET Index, F \in SUBSET Index, sz \in [Index -> Nat], r \in [Index -> Nat] :
        Whole(h, T, sz, F, r) /\ blocks = Held(T, sz, F)
  BY DEF InOrder
<1>2. Tiling(T, sz) /\ Apart(T, sz, F) /\ F \subseteq T \ Ends
      /\ Tagged(h.array, T, sz, F) /\ Linked(h.array, h.avail, F, r)
  BY <1>1 DEF Whole, Apart
<1>3. \A c \in blocks : c.at \in T \ (F \cup Ends) /\ c.ints = sz[c.at]
                        /\ c = [at |-> c.at, ints |-> sz[c.at]]
  BY <1>1, <1>2, HeldFacts
<1>4. PICK k \in T \ (F \cup Ends) : k = b.at /\ b.ints = sz[k]
  BY <1>3
<1>5. \A t \in T : t \in Index /\ t \in Int /\ sz[t] \in Nat /\ sz[t] >= 2 /\ t + sz[t] <= Len
  <2>1. \A t \in T : t \in Index /\ sz[t] \in Nat /\ sz[t] >= 2 /\ t + sz[t] <= Len
    BY <1>2, TilingFacts, Zenon
  <2> QED BY <1>0, <2>1 DEF Index
<1>6. \A x \in Index : x \notin (k + 1)..(k + sz[k] - 2) => g.array[x] = h.array[x]
  BY <1>4
<1>7. ASSUME NEW t \in T, t # k, NEW x \in t..(t + sz[t] - 1) PROVE g.array[x] = h.array[x]
  <2>1. x < k \/ x >= k + sz[k]
    BY <1>2, <1>7, OneBlock
  <2>2. x \in Index /\ x \in Int
    <3>1. t \in Int /\ t >= 0 /\ sz[t] \in Int /\ t + sz[t] <= Len
      BY <1>0, <1>5 DEF Index
    <3>2. x \in Int /\ x >= t /\ x <= t + sz[t] - 1
      BY <3>1
    <3> QED BY <1>0, <3>1, <3>2 DEF Index
  <2> QED BY <1>5, <1>6, <2>1, <2>2
<1>8. ASSUME NEW t \in T
      PROVE  g.array[t] = h.array[t] /\ g.array[t + sz[t] - 1] = h.array[t + sz[t] - 1]
  <2>1. CASE t # k
    <3>1. t \in t..(t + sz[t] - 1) /\ t + sz[t] - 1 \in t..(t + sz[t] - 1)
      BY <1>5
    <3> QED BY <1>7, <2>1, <3>1
  <2>2. CASE t = k
    <3>1. k \notin (k + 1)..(k + sz[k] - 2) /\ k + sz[k] - 1 \notin (k + 1)..(k + sz[k] - 2)
      BY <1>5
    <3>2. k \in Index /\ k + sz[k] - 1 \in Index
      BY <1>0, <1>5 DEF Index
    <3> QED BY <1>6, <2>2, <3>1, <3>2
  <2> QED BY <2>1, <2>2
<1>9. Tagged(g.array, T, sz, F)
  BY <1>2, <1>8 DEF Tagged
<1>10. Linked(g.array, g.avail, F, r)
  <2>1. \A t \in F : t \in T /\ t # k /\ t + 1 \in t..(t + sz[t] - 1) /\ t + 2 \in t..(t + sz[t] - 1)
    <3>1. \A t \in F : t \in 2..(Len - 6) /\ sz[t] \in 4..(Len - 4)
      BY <1>2, TilingFacts, Zenon
    <3> QED BY <1>2, <3>1
  <2>2. \A t \in F : g.array[t + 1] = h.array[t + 1] /\ g.array[t + 2] = h.array[t + 2]
    BY <1>7, <2>1
  <2> QED BY <1>2, <2>2, LinkedKept
<1>11. InOrder(g, blocks)
  BY <1>1, <1>2, <1>9, <1>10 DEF InOrder, Whole
<1>12. \A c \in blocks \ {b} : c.at \in T /\ c.at # k /\ c.ints = sz[c.at]
  BY <1>3, <1>4
<1>13. Same(h.array, g.array, blocks \ {b})
  BY <1>7, <1>12 DEF Same
<1> QED BY <1>11, <1>13

\* realloc copies within the old block and its neighbour's first tag.
LEMMA CopyInOrder ==
  ASSUME NEW h \in Heaps, NEW blocks, InOrder(h, blocks), NEW b \in blocks, NEW c \in blocks,
         NEW n \in Nat, n >= 4, c.ints >= n
  PROVE  /\ Copy(h, b, c.at, n) \in Heaps
         /\ InOrder(Copy(h, b, c.at, n), blocks)
         /\ Same(h.array, Copy(h, b, c.at, n).array, blocks \ {c})
<1> DEFINE g == Copy(h, b, c.at, n)
<1>0. Len \in Nat /\ Len >= 8
  BY LenAssumption
<1>1. /\ b.at \in 2..(Len - 6) /\ b.ints \in 4..(Len - 4) /\ b.at + b.ints <= Len - 2
      /\ c.at \in 2..(Len - 6) /\ c.ints \in 4..(Len - 4)
  BY OrderFacts
<1>2. PICK m \in Nat : m = Min({b.ints, n - 2}) /\ m <= b.ints /\ m <= n - 2
  <2>1. {b.ints, n - 2} \in SUBSET Nat /\ {b.ints, n - 2} # {}
    BY <1>0, <1>1
  <2>2. Min({b.ints, n - 2}) \in {b.ints, n - 2} /\ \A x \in {b.ints, n - 2} : Min({b.ints, n - 2}) <= x
    BY <2>1, MinNat
  <2> QED BY <2>1, <2>2
<1>3. h.array \in [Index -> Int] /\ h.avail \in Int /\ h = [array |-> h.array, avail |-> h.avail]
  BY DEF Heaps
<1>4. g = [array |-> [j \in Index |-> IF j \in (c.at + 1)..(c.at + m) THEN h.array[j - c.at + b.at]
                                      ELSE h.array[j]],
           avail |-> h.avail]
  <2>1. PICK a : a = [j \in Index |-> IF j \in (c.at + 1)..(c.at + m) THEN h.array[j - c.at + b.at]
                                      ELSE h.array[j]]
    OBVIOUS
  <2>2. g = [h EXCEPT !.array = a]
    BY <1>2, <2>1, Zenon DEF Copy, Index
  <2>3. [h EXCEPT !.array = a] = [array |-> a, avail |-> h.avail]
    BY <1>3
  <2> QED BY <2>1, <2>2, <2>3
<1>5. \A j \in (c.at + 1)..(c.at + m) : j - c.at + b.at \in Index
  BY <1>0, <1>1, <1>2 DEF Index
<1>6. g \in Heaps /\ g.avail = h.avail
  BY <1>3, <1>4, <1>5 DEF Heaps
<1>7. \A x \in Index : x \notin (c.at + 1)..(c.at + m) => g.array[x] = h.array[x]
  BY <1>4
<1>8. \A x : x \in (c.at + 1)..(c.at + m) => x \in (c.at + 1)..(c.at + c.ints - 2)
  BY <1>0, <1>1, <1>2
<1> HIDE DEF g
<1>9. \A x \in Index : x \notin (c.at + 1)..(c.at + c.ints - 2) => g.array[x] = h.array[x]
  BY <1>7, <1>8
<1> QED BY <1>6, <1>9, FillInOrder DEF g

\* Heap::init leaves one free block between the ends.
LEMMA InitInOrder ==
  ASSUME Init
  PROVE  Here \in Heaps /\ InOrder(Here, {})
<1> DEFINE zero == [array |-> [i \in 0..(Len - 1) |-> 0], avail |-> 0]
           h1 == MakeTaken(zero, 0, 2)
           h2 == MakeAvail(h1, 2, Len - 4)
           h3 == MakeTaken(h2, Len - 2, 2)
<1>0. Len \in Nat /\ Len >= 8
  BY LenAssumption
<1>1. zero \in Heaps /\ zero.avail = 0
  BY DEF Heaps, Index
<1>2. /\ 0 \in Index /\ 1 \in Index /\ 2 \in Index /\ Len - 2 \in Index /\ Len - 1 \in Index
      /\ Len - 4 \in Nat /\ Len - 4 >= 4 /\ 2 + (Len - 4) <= Len
      /\ 2 + (Len - 4) - 1 = Len - 3 /\ 2 + 1 = 3 /\ 2 + 2 = 4
      /\ 0 + 2 - 1 = 1 /\ Len - 2 + 2 - 1 = Len - 1
  BY <1>0 DEF Index
<1> HIDE DEF zero
<1>3. h1 \in Heaps /\ h1.avail = 0 /\ h1.array[0] = -2 /\ h1.array[1] = -2
  BY <1>1, <1>2, MakeTakenFacts
<1> HIDE DEF h1
<1>4. /\ h2 \in Heaps /\ h2.avail = 2
      /\ h2.array[2] = Len - 4 /\ h2.array[Len - 3] = Len - 4
      /\ h2.array[3] = 0 /\ h2.array[4] = 0
      /\ \A x \in Index : x # 2 /\ x # Len - 3 /\ x # 3 /\ x # 4 => h2.array[x] = h1.array[x]
  BY <1>2, <1>3, MakeAvailFacts
<1> HIDE DEF h2
<1>5. /\ h3 \in Heaps /\ h3.avail = 2
      /\ h3.array[Len - 2] = -2 /\ h3.array[Len - 1] = -2
      /\ \A x \in Index : x # Len - 2 /\ x # Len - 1 => h3.array[x] = h2.array[x]
  BY <1>2, <1>4, MakeTakenFacts
<1> HIDE DEF h3
<1>6. /\ 3 \in Index /\ 4 \in Index /\ Len - 3 \in Index
      /\ 0 # Len - 2 /\ 0 # Len - 1 /\ 1 # Len - 2 /\ 1 # Len - 1 /\ 2 # Len - 2 /\ 2 # Len - 1
      /\ 3 # Len - 2 /\ 3 # Len - 1 /\ 4 # Len - 2 /\ 4 # Len - 1
      /\ Len - 3 # Len - 2 /\ Len - 3 # Len - 1
      /\ 0 # Len - 3 /\ 1 # Len - 3
  BY <1>0 DEF Index
<1>7. /\ h3.array[0] = -2 /\ h3.array[1] = -2
      /\ h3.array[2] = Len - 4 /\ h3.array[Len - 3] = Len - 4
      /\ h3.array[3] = 0 /\ h3.array[4] = 0
  <2>1. h3.array[0] = h2.array[0] /\ h3.array[1] = h2.array[1] /\ h3.array[2] = h2.array[2]
    BY <1>2, <1>5, <1>6
  <2>2. /\ h3.array[3] = h2.array[3] /\ h3.array[4] = h2.array[4]
        /\ h3.array[Len - 3] = h2.array[Len - 3]
    BY <1>5, <1>6
  <2>3. h2.array[0] = -2 /\ h2.array[1] = -2
    BY <1>2, <1>3, <1>4, <1>6
  <2> QED BY <1>4, <2>1, <2>2, <2>3
<1>8. Here = h3
  <2>1. array = h3.array /\ avail = h3.avail
    BY DEF Init, zero, h1, h2, h3
  <2>2. h3 = [array |-> h3.array, avail |-> h3.avail]
    BY <1>5 DEF Heaps
  <2> QED BY <2>1, <2>2 DEF Here
<1> DEFINE T == Ends \cup {2}
           sz == [i \in Index |-> IF i = 2 THEN Len - 4 ELSE 2]
           r == [i \in Index |-> 0]
<1>9. /\ sz \in [Index -> Nat] /\ r \in [Index -> Nat]
      /\ sz[0] = 2 /\ sz[2] = Len - 4 /\ sz[Len - 2] = 2
  BY <1>2, <1>6
<1>10. T = {0, 2, Len - 2} /\ T \subseteq Index
  BY <1>2 DEF Ends
<1> HIDE DEF T, sz, r
<1>11. Tiling(T, sz)
  <2>1. \A i \in T : i + sz[i] \in T \cup {Len}
    BY <1>0, <1>9, <1>10
  <2>2. \A i, j \in T : i < j => i + sz[i] <= j
    BY <1>0, <1>9, <1>10
  <2>3. \A j \in T \ {0} : \E i \in T : i + sz[i] = j
    <3>1. 0 + sz[0] = 2 /\ 2 + sz[2] = Len - 2
      BY <1>0, <1>9
    <3> QED BY <1>10, <3>1
  <2>4. \A i \in T \ Ends : sz[i] >= 4
    BY <1>2, <1>9, <1>10 DEF Ends
  <2> QED BY <1>9, <1>10, <2>1, <2>2, <2>3, <2>4 DEF Tiling, Ends
<1>12. Apart(T, sz, {2})
  BY <1>0, <1>9, <1>10 DEF Apart, Ends
<1>13. Tagged(h3.array, T, sz, {2})
  <2>1. /\ 0 + sz[0] - 1 = 1 /\ 2 + sz[2] - 1 = Len - 3 /\ Len - 2 + sz[Len - 2] - 1 = Len - 1
    BY <1>0, <1>9
  <2>2. 0 \notin {2} /\ Len - 2 \notin {2}
    BY <1>0
  <2> QED BY <1>5, <1>7, <1>9, <1>10, <2>1, <2>2 DEF Tagged
<1>14. Linked(h3.array, h3.avail, {2}, r)
  BY <1>2, <1>5, <1>7 DEF Linked
<1>15. Held(T, sz, {2}) = {}
  BY <1>10 DEF Held, Ends
<1>16. T \in SUBSET Index /\ {2} \in SUBSET Index
  BY <1>2, <1>10
<1>17. Whole(h3, T, sz, {2}, r)
  BY <1>11, <1>12, <1>13, <1>14 DEF Whole
<1>18. InOrder(h3, {})
  BY <1>9, <1>15, <1>16, <1>17 DEF InOrder
<1> QED BY <1>5, <1>8, <1>18

----------------------------------------------------------------------------
(* The steps.                                                              *)

LEMMA HereFacts ==
  ASSUME IInv
  PROVE  /\ Here \in Heaps /\ Here.array = array /\ Here.avail = avail
         /\ InOrder(Here, live)
         /\ live \subseteq [at : 2..(Len - 6), ints : 4..(Len - 4)]
BY DEF IInv, TypeOK, WholeNow, Here, Heaps, Index

\* The heap becomes h, which is in order for what callers have now, and these
\* blocks hold what they held.
Moves(h, blocks) ==
  h \in Heaps /\ Becomes(h) /\ InOrder(h, live') /\ Same(array, h.array, blocks)

LEMMA MovesFacts ==
  ASSUME NEW h, NEW blocks, Moves(h, blocks)
  PROVE  /\ (array \in [0..(Len - 1) -> Int])'
         /\ (avail \in {0} \cup 2..(Len - 6))'
         /\ (live \subseteq [at : 2..(Len - 6), ints : 4..(Len - 4)])'
         /\ WholeNow'
         /\ Same(array, array', blocks)
<1>1. h \in Heaps /\ array' = h.array /\ avail' = h.avail /\ InOrder(h, live')
  BY DEF Moves, Becomes
<1>2. h = [array |-> h.array, avail |-> h.avail] /\ h.array \in [Index -> Int]
  BY <1>1 DEF Heaps
<1>3. Here' = h
  BY <1>1, <1>2 DEF Here
<1>4. WholeNow'
  BY <1>1, <1>3 DEF WholeNow
<1>5. /\ h.avail \in {0} \cup 2..(Len - 6)
      /\ live' \subseteq [at : 2..(Len - 6), ints : 4..(Len - 4)]
  BY <1>1, OrderFacts
<1>6. Same(array, array', blocks)
  BY <1>1 DEF Moves
<1> QED BY <1>1, <1>2, <1>4, <1>5, <1>6 DEF Index

\* A new block of at least n ints at i, that keeps apart from the others.
Fresh(i, m, n) ==
  /\ i \in 2..(Len - 6) /\ m \in Nat /\ m >= n
  /\ \A b \in live : b.at # i
  /\ \E h : InOrder(h, live \cup {[at |-> i, ints |-> m]})

\* Of the blocks that callers had these are left, and one is new.
Gains(blocks, i, m) == live' = blocks \cup {[at |-> i, ints |-> m]}

LEMMA MallocStep ==
  ASSUME IInv, NEW n \in Sizes, Malloc(n)
  PROVE  \/ /\ Found(Here, n) = 0 /\ result' = 0 /\ machine' \in {"kernel", "user", "full"}
            /\ UNCHANGED <<array, avail, live>>
         \/ \E h, i, m : /\ Moves(h, live) /\ Fresh(i, m, n)
                         /\ result' = i /\ UNCHANGED machine
                         /\ Gains(live, i, m)
<1>0. n \in Nat /\ n >= 4
  BY SizesAssumption, LenAssumption
<1>1. Here \in Heaps /\ Here.array = array /\ InOrder(Here, live)
  BY HereFacts
<1>2. PICK T \in SUBSET Index, F \in SUBSET Index, sz \in [Index -> Nat], r \in [Index -> Nat] :
        Whole(Here, T, sz, F, r)
  BY <1>1 DEF InOrder
<1>3. \A j \in Visited(Here, n) : Sane(Here, j) /\ IsAvail(Here, j)
  <2>1. Visited(Here, n) \subseteq F
    BY <1>0, <1>1, <1>2, FoundFacts
  <2>2. Tiling(T, sz) /\ Tagged(Here.array, T, sz, F) /\ F \subseteq T
    BY <1>2 DEF Whole, Apart
  <2>3. \A j \in T : (IsAvail(Here, j) <=> j \in F) /\ Sane(Here, j)
    <3>1. PICK e \in Heaps : e = Here
      BY <1>1
    <3>2. Tiling(T, sz) /\ Tagged(e.array, T, sz, F)
      BY <2>2, <3>1, Zenon
    <3>3. \A j \in T : (IsAvail(e, j) <=> j \in F) /\ Sane(e, j)
      BY <3>2, TagFacts
    <3> QED BY <3>1, <3>3
  <2> QED BY <2>1, <2>2, <2>3
<1>r. Found(Here, n) # 0 => Removable(Here, Found(Here, n))
  <2>1. Found(Here, n) \in F \cup {0}
    BY <1>0, <1>1, <1>2, FoundFacts
  <2>2. /\ Tiling(T, sz) /\ Tagged(Here.array, T, sz, F) /\ F \subseteq T
        /\ Linked(Here.array, Here.avail, F, r)
    BY <1>2 DEF Whole, Apart
  <2>3. \A j \in F : Removable(Here, j)
    BY <1>1, <2>2, LinksAreSane
  <2> QED BY <2>1, <2>3
<1>4. CASE Found(Here, n) = 0
  BY <1>3, <1>4 DEF Malloc, Up
<1>5. CASE Found(Here, n) # 0
  <2>1. PICK i : i = Found(Here, n)
    OBVIOUS
  <2>2. PICK h : h = Take(Here, i, n)
    OBVIOUS
  <2>3. /\ Becomes(h) /\ result' = i /\ UNCHANGED machine
        /\ live' = live \cup {BlockAt(h, i)}
    BY <1>3, <1>r, <1>5, <2>1, <2>2 DEF Malloc
  <2>4. /\ h \in Heaps /\ InOrder(h, live \cup {BlockAt(h, i)})
        /\ Same(array, h.array, live)
        /\ i \in 2..(Len - 6) /\ \A b \in live : b.at # i
        /\ Size(h, i) \in Nat /\ Size(h, i) >= n
    <3>1. /\ Take(Here, i, n) \in Heaps
          /\ InOrder(Take(Here, i, n), live \cup {BlockAt(Take(Here, i, n), i)})
          /\ Same(Here.array, Take(Here, i, n).array, live)
          /\ i \in 2..(Len - 6) /\ \A b \in live : b.at # i
          /\ Size(Take(Here, i, n), i) \in Nat /\ Size(Take(Here, i, n), i) >= n
      BY <1>0, <1>1, <1>5, <2>1, TakeInOrder
    <3> QED BY <1>1, <2>2, <3>1
  <2>5. PICK m : m = Size(h, i)
    OBVIOUS
  <2>6. BlockAt(h, i) = [at |-> i, ints |-> m]
    BY <2>5 DEF BlockAt
  <2>7. Fresh(i, m, n)
    BY <2>4, <2>5, <2>6 DEF Fresh
  <2>8. Moves(h, live)
    BY <2>3, <2>4 DEF Moves
  <2>9. Gains(live, i, m)
    BY <2>3, <2>6 DEF Gains
  <2> QED BY <2>3, <2>7, <2>8, <2>9
<1> QED BY <1>4, <1>5

LEMMA FreeStep ==
  ASSUME IInv, NEW b \in live, FreeBlock(b)
  PROVE  /\ \E h : Moves(h, live \ {b})
         /\ live' = live \ {b} /\ result' = 0 /\ UNCHANGED machine
<1>1. Here \in Heaps /\ Here.array = array /\ InOrder(Here, live)
  BY HereFacts
<1>2. PICK h : h = GiveBack(Here, b.at)
  OBVIOUS
<1>3. /\ Freeable(Here, b.at) /\ h \in Heaps /\ InOrder(h, live \ {b})
      /\ Same(array, h.array, live \ {b})
  BY <1>1, <1>2, GiveBackInOrder
<1>4. Becomes(h) /\ live' = live \ {b} /\ result' = 0 /\ UNCHANGED machine
  BY <1>2, <1>3 DEF FreeBlock
<1>5. Moves(h, live \ {b})
  BY <1>3, <1>4 DEF Moves
<1> QED BY <1>4, <1>5

LEMMA ReallocStep ==
  ASSUME IInv, NEW b \in live, NEW n \in Sizes, Realloc(b, n)
  PROVE  /\ \E h : Moves(h, live \ {b})
         /\ UNCHANGED machine
         /\ \/ Found(Here, n) = 0 /\ result' = 0 /\ live' = live \ {b}
            \/ \E i, m : Fresh(i, m, n) /\ result' = i /\ Gains(live \ {b}, i, m)
<1>0. n \in Nat /\ n >= 4
  BY SizesAssumption, LenAssumption
<1>1. Here \in Heaps /\ Here.array = array /\ InOrder(Here, live)
  BY HereFacts
<1>2. PICK i : i = Found(Here, n)
  OBVIOUS
<1>3. CASE i = 0
  <2>1. PICK h : h = GiveBack(Here, b.at)
    OBVIOUS
  <2>2. Becomes(h) /\ live' = live \ {b} /\ result' = 0 /\ UNCHANGED machine
    BY <1>2, <1>3, <2>1 DEF Realloc
  <2>3. h \in Heaps /\ InOrder(h, live \ {b}) /\ Same(array, h.array, live \ {b})
    BY <1>1, <2>1, GiveBackInOrder
  <2>4. Moves(h, live \ {b})
    BY <2>2, <2>3 DEF Moves
  <2> QED BY <1>2, <1>3, <2>2, <2>4
<1>4. CASE i # 0
  <2>1. PICK h1 : h1 = Take(Here, i, n)
    OBVIOUS
  <2>2. PICK c : c = BlockAt(h1, i)
    OBVIOUS
  <2>3. PICK all : all = live \cup {c}
    OBVIOUS
  <2>4. /\ h1 \in Heaps /\ InOrder(h1, all)
        /\ Same(array, h1.array, live)
        /\ i \in 2..(Len - 6) /\ \A x \in live : x.at # i
        /\ Size(h1, i) \in Nat /\ Size(h1, i) >= n
    <3>1. /\ Take(Here, i, n) \in Heaps
          /\ InOrder(Take(Here, i, n), live \cup {BlockAt(Take(Here, i, n), i)})
          /\ Same(Here.array, Take(Here, i, n).array, live)
          /\ i \in 2..(Len - 6) /\ \A x \in live : x.at # i
          /\ Size(Take(Here, i, n), i) \in Nat /\ Size(Take(Here, i, n), i) >= n
      BY <1>0, <1>1, <1>2, <1>4, TakeInOrder
    <3> QED BY <1>1, <2>1, <2>2, <2>3, <3>1
  <2>5. PICK m : m = Size(h1, i)
    OBVIOUS
  <2>6. c = [at |-> i, ints |-> m] /\ c.at = i /\ c.ints = m
    BY <2>2, <2>5 DEF BlockAt
  <2>7. Fresh(i, m, n)
    BY <2>3, <2>4, <2>5, <2>6 DEF Fresh
  <2>8. c \notin live /\ c # b
    BY <2>4, <2>6
  <2>9. PICK h2 : h2 = Copy(h1, b, i, n)
    OBVIOUS
  <2>10. h2 \in Heaps /\ InOrder(h2, all) /\ Same(h1.array, h2.array, all \ {c})
    <3>1. c.ints >= n /\ b \in all /\ c \in all
      BY <2>3, <2>4, <2>5, <2>6
    <3>2. /\ Copy(h1, b, c.at, n) \in Heaps
          /\ InOrder(Copy(h1, b, c.at, n), all)
          /\ Same(h1.array, Copy(h1, b, c.at, n).array, all \ {c})
      BY <1>0, <2>4, <3>1, CopyInOrder
    <3> QED BY <2>6, <2>9, <3>2
  <2>11. PICK h : h = GiveBack(h2, b.at)
    OBVIOUS
  <2>12. h \in Heaps /\ InOrder(h, all \ {b}) /\ Same(h2.array, h.array, all \ {b})
    <3>1. b \in all
      BY <2>3
    <3> QED BY <2>10, <2>11, <3>1, GiveBackInOrder
  <2>13. /\ Becomes(h) /\ result' = i /\ UNCHANGED machine
         /\ live' = (live \ {b}) \cup {c}
    BY <1>2, <1>4, <2>1, <2>2, <2>9, <2>11 DEF Realloc
  <2>14. all \ {b} = live'
    BY <2>3, <2>8, <2>13
  <2>15. Same(array, h.array, live \ {b})
    <3> SUFFICES ASSUME NEW d \in live \ {b}, NEW x \in d.at..(d.at + d.ints - 1)
                 PROVE  h.array[x] = array[x]
      BY DEF Same
    <3>1. d \in live /\ d \in all \ {c} /\ d \in all \ {b}
      BY <2>3, <2>8
    <3> QED BY <2>4, <2>10, <2>12, <3>1 DEF Same
  <2>16. Moves(h, live \ {b})
    BY <2>12, <2>13, <2>14, <2>15 DEF Moves
  <2>17. Gains(live \ {b}, i, m)
    BY <2>6, <2>13 DEF Gains
  <2> QED BY <2>7, <2>13, <2>16, <2>17
<1> QED BY <1>3, <1>4

LEMMA WriteStep ==
  ASSUME IInv, NEW b \in live, Write(b)
  PROVE  /\ \E h : Moves(h, live \ {b})
         /\ UNCHANGED <<avail, live, result, machine>>
         /\ Payload(b)' = {Word}
<1>0. Len \in Nat /\ Len >= 8
  BY LenAssumption
<1>1. Here \in Heaps /\ Here.array = array /\ Here.avail = avail /\ InOrder(Here, live)
  BY HereFacts
<1>2. array \in [Index -> Int]
  BY <1>1 DEF Heaps
<1>3. b.at \in 2..(Len - 6) /\ b.ints \in 4..(Len - 4) /\ b.at + b.ints <= Len - 2
  BY <1>1, OrderFacts
<1>4. array' = [i \in Index |-> IF i \in (b.at + 1)..(b.at + b.ints - 2) THEN Word ELSE array[i]]
  BY DEF Write, Index
<1>5. PICK h : h = [array |-> array', avail |-> avail]
  OBVIOUS
<1>6. h \in Heaps /\ h.array = array' /\ h.avail = avail
  <2>1. array' \in [Index -> Int]
    BY <1>2, <1>4, WordAssumption
  <2>2. avail \in Int
    BY <1>1 DEF Heaps
  <2> QED BY <1>5, <2>1, <2>2 DEF Heaps
<1>7. UNCHANGED <<avail, live, result, machine>>
  BY DEF Write
<1>8. \A x \in Index : x \notin (b.at + 1)..(b.at + b.ints - 2) => h.array[x] = Here.array[x]
  BY <1>1, <1>4, <1>6
<1>9. InOrder(h, live) /\ Same(array, h.array, live \ {b})
  BY <1>1, <1>6, <1>8, FillInOrder
<1>10. Moves(h, live \ {b})
  BY <1>6, <1>7, <1>9 DEF Moves, Becomes
<1>11. Payload(b)' = {Word}
  <2>1. \A i \in (b.at + 1)..(b.at + b.ints - 2) : i \in Index
    BY <1>0, <1>3 DEF Index
  <2>2. \A i \in (b.at + 1)..(b.at + b.ints - 2) : array'[i] = Word
    BY <1>4, <2>1
  <2>3. b.at + 1 \in (b.at + 1)..(b.at + b.ints - 2)
    BY <1>0, <1>3
  <2>4. Payload(b)' = {array'[i] : i \in (b.at + 1)..(b.at + b.ints - 2)}
    BY DEF Payload
  <2> QED BY <2>2, <2>3, <2>4
<1> QED BY <1>7, <1>10, <1>11

----------------------------------------------------------------------------
(* The theorems.                                                           *)

LEMMA IInvInit == Init => IInv
<1> SUFFICES ASSUME Init PROVE IInv
  OBVIOUS
<1>1. Here \in Heaps /\ InOrder(Here, {}) /\ live = {} /\ result = 0 /\ machine \in {"kernel", "user"}
  BY InitInOrder DEF Init
<1>2. Here.avail \in {0} \cup 2..(Len - 6)
  BY <1>1, OrderFacts
<1>3. array \in [0..(Len - 1) -> Int] /\ avail = Here.avail
  BY <1>1 DEF Here, Heaps, Index
<1>4. 0 \in 0..(Len - 6)
  BY LenAssumption
<1> QED BY <1>1, <1>2, <1>3, <1>4 DEF IInv, TypeOK, NeverBad, WholeNow

LEMMA IInvNext == IInv /\ [Next]_vars => IInv'
<1> SUFFICES ASSUME IInv, [Next]_vars PROVE IInv'
  OBVIOUS
<1>0. /\ result \in 0..(Len - 6)
      /\ machine \in {"kernel", "user", "full", "bad"} /\ machine # "bad"
      /\ TypeOK /\ WholeNow
  BY DEF IInv, TypeOK, NeverBad
<1>m. ASSUME NEW h, NEW blocks, Moves(h, blocks), result' \in 0..(Len - 6), UNCHANGED machine
      PROVE  IInv'
  <2>1. /\ (array \in [0..(Len - 1) -> Int])'
        /\ (avail \in {0} \cup 2..(Len - 6))'
        /\ (live \subseteq [at : 2..(Len - 6), ints : 4..(Len - 4)])'
        /\ WholeNow'
    BY <1>m, MovesFacts
  <2> QED BY <1>0, <1>m, <2>1 DEF IInv, TypeOK, NeverBad
<1>z. 0 \in 0..(Len - 6) /\ \A i \in 2..(Len - 6) : i \in 0..(Len - 6)
  BY LenAssumption
<1>1. ASSUME NEW n \in Sizes, Malloc(n) PROVE IInv'
  <2>1. CASE /\ result' = 0 /\ machine' \in {"kernel", "user", "full"}
             /\ UNCHANGED <<array, avail, live>>
    BY <1>0, <1>z, <2>1 DEF IInv, TypeOK, NeverBad, WholeNow, Here
  <2>2. CASE \E h, i, m : /\ Moves(h, live) /\ Fresh(i, m, n)
                          /\ result' = i /\ UNCHANGED machine
    BY <1>m, <1>z, <2>2 DEF Fresh
  <2> QED BY <1>1, <2>1, <2>2, MallocStep
<1>2. ASSUME NEW b \in live, FreeBlock(b) PROVE IInv'
  BY <1>2, <1>m, <1>z, FreeStep
<1>3. ASSUME NEW b \in live, Write(b) PROVE IInv'
  <2>1. \E h : Moves(h, live \ {b})
    BY <1>3, WriteStep
  <2>2. UNCHANGED <<result, machine>>
    BY <1>3 DEF Write
  <2> QED BY <1>0, <1>m, <2>1, <2>2
<1>4. ASSUME NEW b \in live, NEW n \in Sizes, Realloc(b, n) PROVE IInv'
  <2>1. PICK h : Moves(h, live \ {b})
    BY <1>4, ReallocStep
  <2>2. UNCHANGED machine
    BY <1>4, ReallocStep
  <2>3. result' \in 0..(Len - 6)
    <3>1. result' = 0 \/ \E i, m : Fresh(i, m, n) /\ result' = i
      BY <1>4, ReallocStep
    <3> QED BY <1>z, <3>1 DEF Fresh
  <2> QED BY <1>m, <2>1, <2>2, <2>3
<1>5. CASE UNCHANGED vars
  BY <1>5, <1>0 DEF vars, IInv, TypeOK, NeverBad, WholeNow, Here
<1> QED BY <1>1, <1>2, <1>3, <1>4, <1>5 DEF Next

\* After any calls the heap is in order: blocks fill it from end to end, tags
\* and links say so, and none of heap.cc's panics but "heap is full" was met.
THEOREM Inductive == Spec => []IInv
<1>1. Init => IInv
  BY IInvInit
<1>2. IInv /\ [Next]_vars => IInv'
  BY IInvNext
<1> QED BY <1>1, <1>2, PTL DEF Spec

\* No call of malloc, free or realloc finds a block whose tags disagree, or a
\* block in the list that is not free (heap.cc:87-201).
THEOREM NeverPanics == Spec => []NeverBad
<1>1. IInv => NeverBad
  BY DEF IInv
<1> QED BY <1>1, Inductive, PTL

LEMMA PayloadNext ==
  ASSUME IInv, [Next]_vars, NEW b \in live \cap live', Payload(b) = {Word}
  PROVE  Payload(b)' = {Word}
<1>m. ASSUME NEW h, NEW blocks, Moves(h, blocks), b \in blocks PROVE Payload(b)' = {Word}
  <2>1. Same(array, array', blocks)
    BY <1>m, MovesFacts
  <2>2. b.at \in 2..(Len - 6) /\ b.ints \in 4..(Len - 4)
    BY HereFacts
  <2>3. \A i \in (b.at + 1)..(b.at + b.ints - 2) : i \in b.at..(b.at + b.ints - 1)
    BY <2>2
  <2>4. \A i \in (b.at + 1)..(b.at + b.ints - 2) : array'[i] = array[i]
    BY <1>m, <2>1, <2>3 DEF Same
  <2>5. /\ Payload(b)' = {array'[i] : i \in (b.at + 1)..(b.at + b.ints - 2)}
        /\ Payload(b) = {array[i] : i \in (b.at + 1)..(b.at + b.ints - 2)}
    BY DEF Payload
  <2> QED BY <2>4, <2>5
<1>u. CASE UNCHANGED array
  BY <1>u DEF Payload
<1>1. ASSUME NEW n \in Sizes, Malloc(n) PROVE Payload(b)' = {Word}
  <2>1. UNCHANGED array \/ \E h : Moves(h, live)
    BY <1>1, MallocStep
  <2> QED BY <1>m, <1>u, <2>1
<1>2. ASSUME NEW c \in live, FreeBlock(c) PROVE Payload(b)' = {Word}
  <2>1. (\E h : Moves(h, live \ {c})) /\ live' = live \ {c}
    BY <1>2, FreeStep
  <2>2. b \in live \ {c}
    BY <2>1
  <2> QED BY <1>m, <2>1, <2>2
<1>3. ASSUME NEW c \in live, Write(c) PROVE Payload(b)' = {Word}
  <2>1. (\E h : Moves(h, live \ {c})) /\ Payload(c)' = {Word}
    BY <1>3, WriteStep
  <2>2. CASE b = c
    BY <2>1, <2>2 DEF Payload
  <2>3. CASE b # c
    <3>1. b \in live \ {c}
      BY <2>3
    <3> QED BY <1>m, <2>1, <3>1
  <2> QED BY <2>2, <2>3
<1>4. ASSUME NEW c \in live, NEW n \in Sizes, Realloc(c, n) PROVE Payload(b)' = {Word}
  <2>1. PICK h : Moves(h, live \ {c})
    BY <1>4, ReallocStep
  <2>2. b \in live \ {c}
    <3>1. \/ live' = live \ {c}
          \/ \E i, m : Fresh(i, m, n) /\ Gains(live \ {c}, i, m)
      BY <1>4, ReallocStep
    <3>2. ASSUME NEW i, NEW m, Fresh(i, m, n), Gains(live \ {c}, i, m) PROVE b \in live \ {c}
      BY <3>2 DEF Fresh, Gains
    <3> QED BY <3>1, <3>2
  <2> QED BY <1>m, <2>1, <2>2
<1>5. CASE UNCHANGED vars
  BY <1>5, <1>u DEF vars
<1> QED BY <1>1, <1>2, <1>3, <1>4, <1>5 DEF Next

\* What a caller has written into its block stays there while it has the block,
\* whatever is allocated, given back and moved around it (heap.cc:119-201).
THEOREM BlocksKeepContents == Spec => PayloadKept
<1>1. IInv /\ [Next]_vars =>
        [\A b \in live \cap live' : Payload(b) = {Word} => Payload(b)' = {Word}]_vars
  BY PayloadNext
<1> QED BY <1>1, Inductive, PTL DEF Spec, PayloadKept

----------------------------------------------------------------------------
(* Tags, list and callers agree.                                           *)

\* The walk from block to block meets every block, and nothing else.
LEMMA TilesAll ==
  ASSUME NEW T, NEW sz, Tiling(T, sz), \A i \in T : Size(Here, i) = sz[i]
  PROVE  Tiles = T
<1> DEFINE S == T \cup {Len}
           f == [i \in S |-> IF i = Len THEN Len ELSE i + sz[i]]
<1>0. Len \in Nat /\ Len >= 8 /\ Most \in Nat /\ 4 * Most <= Len /\ Len < 4 * Most + 4
  BY LenAssumption, MostNat
<1>1. \A t \in T : t \in Index /\ t \in Nat /\ t < Len /\ sz[t] \in Nat /\ sz[t] >= 2 /\ t + sz[t] \in S
  <2>1. \A t \in T : t \in Index /\ sz[t] \in Nat /\ sz[t] >= 2
    BY TilingFacts, Zenon
  <2>2. \A t \in T : t + sz[t] \in S
    BY DEF Tiling
  <2> QED BY <1>0, <2>1, <2>2 DEF Index
<1>2. /\ f \in [S -> S] /\ 0 \in S /\ 0 \in T
      /\ \A i \in S : f[i] = IF i = Len THEN Len ELSE i + sz[i]
  BY <1>1 DEF Tiling, Ends
<1>3. \A i \in S : f[i] = IF i >= Len THEN Len ELSE i + Max({1, Size(Here, i)})
  <2> SUFFICES ASSUME NEW i \in S
               PROVE  f[i] = IF i >= Len THEN Len ELSE i + Max({1, Size(Here, i)})
    OBVIOUS
  <2>1. CASE i = Len
    BY <1>0, <1>2, <2>1
  <2>2. CASE i \in T
    <3>1. PICK m \in Nat : m = sz[i] /\ m >= 2 /\ Size(Here, i) = m
      BY <1>1, <2>2
    <3>2. m \in {1, m} /\ \A y \in {1, m} : m >= y
      BY <3>1
    <3>3. \A x \in {1, m} : (\A y \in {1, m} : x >= y) => x = m
      BY <3>1
    <3>4. Max({1, m}) = m
      BY <3>2, <3>3 DEF Max
    <3>5. ~ (i >= Len) /\ i # Len
      BY <1>0, <1>1, <2>2
    <3> QED BY <1>2, <3>1, <3>4, <3>5
  <2> QED BY <2>1, <2>2
<1>4. \A i \in S : i \in Nat /\ i <= Len /\ (i # Len => i \in T)
  BY <1>0, <1>1
<1>s. T \subseteq S /\ Len \in S /\ Len \notin T
  BY <1>0, <1>1
<1> HIDE DEF S, f
<1>5. PICK g \in [0..(Most + 2) -> S] : g[0] = 0 /\ \A k \in 1..(Most + 2) : g[k] = f[g[k - 1]]
  <2>1. \E g \in [0..(Most + 2) -> S] : Walk(g, f, 0, Most + 2)
    <3>1. PICK n \in Nat : n = Most + 2
      BY <1>0
    <3>2. \E g \in [0..n -> S] : Walk(g, f, 0, n)
      BY <1>2, Iterates
    <3> QED BY <3>1, <3>2
  <2> QED BY <2>1 DEF Walk
<1>6. g = [k \in 0..(Most + 2) |-> IF k = 0 THEN 0
                ELSE LET i == g[k - 1] IN IF i >= Len THEN Len ELSE i + Max({1, Size(Here, i)})]
  <2>1. ASSUME NEW k \in 0..(Most + 2)
        PROVE  g[k] = IF k = 0 THEN 0
                ELSE LET i == g[k - 1] IN IF i >= Len THEN Len ELSE i + Max({1, Size(Here, i)})
    <3>1. CASE k = 0
      BY <1>5, <3>1
    <3>2. CASE k # 0
      <4>1. k \in 1..(Most + 2) /\ k - 1 \in 0..(Most + 2)
        BY <1>0, <3>2
      <4>2. g[k] = f[g[k - 1]] /\ g[k - 1] \in S
        BY <1>5, <4>1
      <4> QED BY <1>3, <3>2, <4>2
    <3> QED BY <3>1, <3>2
  <2> QED BY <1>5, <2>1
<1> DEFINE Step(a) == [k \in 0..(Most + 2) |-> IF k = 0 THEN 0
                ELSE LET i == a[k - 1] IN IF i >= Len THEN Len ELSE i + Max({1, Size(Here, i)})]
<1>7. PICK at : at = Step(at) /\ Tiles = {at[k] : k \in 0..(Most + 2)} \ {Len}
  <2>1. PICK at : at = CHOOSE a : a = Step(a)
    OBVIOUS
  <2>2. at = Step(at)
    BY <1>6, <2>1, Zenon
  <2>3. Tiles = {at[k] : k \in 0..(Most + 2)} \ {Len}
    BY <2>1, Zenon DEF Tiles
  <2> QED BY <2>2, <2>3
<1>8. at[0] = 0 /\ \A k \in 1..(Most + 2) : at[k - 1] \in S => at[k] = f[at[k - 1]]
  <2>1. \A k \in 0..(Most + 2) : at[k] = IF k = 0 THEN 0
          ELSE LET i == at[k - 1] IN IF i >= Len THEN Len ELSE i + Max({1, Size(Here, i)})
    BY <1>7, Zenon
  <2>2. at[0] = 0
    <3>1. 0 \in 0..(Most + 2)
      BY <1>0
    <3> QED BY <2>1, <3>1, Zenon
  <2>3. ASSUME NEW k \in 1..(Most + 2), at[k - 1] \in S PROVE at[k] = f[at[k - 1]]
    <3>1. k \in 0..(Most + 2) /\ k # 0
      BY <1>0
    <3>2. at[k] = IF at[k - 1] >= Len THEN Len ELSE at[k - 1] + Max({1, Size(Here, at[k - 1])})
      BY <2>1, <3>1, Zenon
    <3> QED BY <1>3, <2>3, <3>2
  <2> QED BY <2>2, <2>3
<1>9. \A k \in 0..(Most + 2) : at[k] \in S
  <2> DEFINE Good == {k \in Nat : k <= Most + 2 => at[k] \in S}
  <2>1. 0 \in Good
    BY <1>2, <1>8
  <2>2. ASSUME NEW k \in 0..(Most + 1), k \in Good PROVE k + 1 \in Good
    <3>1. k + 1 \in 1..(Most + 2) /\ k + 1 - 1 = k /\ at[k] \in S
      BY <1>0, <2>2
    <3>2. at[k + 1] = f[at[k]]
      BY <1>8, <3>1
    <3> QED BY <1>2, <3>1, <3>2
  <2>3. Good \in SUBSET Nat
    OBVIOUS
  <2> HIDE DEF Good
  <2>4. 0..(Most + 2) \subseteq Good
    <3>1. PICK n \in Nat : n = Most + 2 /\ n - 1 = Most + 1
      BY <1>0
    <3>2. \A k \in 0..(n - 1) : k \in Good => k + 1 \in Good
      BY <2>2, <3>1
    <3> QED BY <2>1, <2>3, <3>1, <3>2, UpTo
  <2> QED BY <1>0, <2>4 DEF Good
<1>10. \A k \in 1..(Most + 2) : at[k] = IF at[k - 1] = Len THEN Len ELSE at[k - 1] + sz[at[k - 1]]
  <2> SUFFICES ASSUME NEW k \in 1..(Most + 2)
               PROVE  at[k] = IF at[k - 1] = Len THEN Len ELSE at[k - 1] + sz[at[k - 1]]
    OBVIOUS
  <2>1. k - 1 \in 0..(Most + 2)
    BY <1>0
  <2>2. at[k - 1] \in S
    BY <1>9, <2>1
  <2> QED BY <1>2, <1>8, <2>2
\* The walk goes up until it is at the end.
<1>11. \A k \in 0..(Most + 2) : at[k] # Len => \A l \in 0..(k - 1) : at[l] < at[k]
  <2> DEFINE Good == {k \in Nat : k <= Most + 2 => (at[k] # Len => \A l \in 0..(k - 1) : at[l] < at[k])}
  <2>1. 0 \in Good
    OBVIOUS
  <2>2. ASSUME NEW k \in 0..(Most + 1), k \in Good PROVE k + 1 \in Good
    <3> SUFFICES ASSUME at[k + 1] # Len, NEW l \in 0..k PROVE at[l] < at[k + 1]
      BY <1>0
    <3>1. k + 1 \in 1..(Most + 2) /\ k + 1 - 1 = k /\ k \in 0..(Most + 2) /\ l \in 0..(Most + 2)
      BY <1>0
    <3>2. at[k] # Len /\ at[k + 1] = at[k] + sz[at[k]]
      BY <1>10, <3>1
    <3>3. at[k] \in T /\ at[k] \in Nat /\ sz[at[k]] \in Nat /\ sz[at[k]] >= 2 /\ at[l] \in Nat
      BY <1>1, <1>4, <1>9, <3>1, <3>2
    <3>4. CASE l = k
      BY <3>2, <3>3, <3>4
    <3>5. CASE l # k
      <4>1. l \in 0..(k - 1) /\ k <= Most + 2
        BY <1>0, <3>5
      <4>2. at[l] < at[k]
        BY <2>2, <3>2, <4>1
      <4> QED BY <3>2, <3>3, <4>2
    <3> QED BY <3>4, <3>5
  <2>3. Good \in SUBSET Nat
    OBVIOUS
  <2> HIDE DEF Good
  <2>4. 0..(Most + 2) \subseteq Good
    <3>1. PICK n \in Nat : n = Most + 2 /\ n - 1 = Most + 1
      BY <1>0
    <3>2. \A k \in 0..(n - 1) : k \in Good => k + 1 \in Good
      BY <2>2, <3>1
    <3> QED BY <2>1, <2>3, <3>1, <3>2, UpTo
  <2> QED BY <1>0, <2>4 DEF Good
<1>12. at[Most + 1] = Len
  <2> SUFFICES ASSUME at[Most + 1] # Len PROVE FALSE
    OBVIOUS
  <2>1. \A k \in 0..(Most + 1) : at[k] \in T
    <3> SUFFICES ASSUME NEW k \in 0..(Most + 1) PROVE at[k] \in T
      OBVIOUS
    <3>1. k \in 0..(Most + 2) /\ Most + 1 \in 0..(Most + 2) /\ (k = Most + 1 \/ k \in 0..(Most + 1 - 1))
      BY <1>0
    <3>2. at[k] # Len
      BY <1>4, <1>9, <1>11, <3>1
    <3> QED BY <1>4, <1>9, <3>1, <3>2
  \* Starts are 4 ints apart but for the first two, which are 2.
  <2>2. \A i \in T : (i + 2) \div 4 \in 0..Most
    <3>1. \A i \in T : i <= Len - 2
      <4>1. \A i \in T \ Ends : i \in 2..(Len - 6)
        BY TilingFacts, Zenon
      <4> QED BY <1>0, <4>1 DEF Ends
    <3>2. ASSUME NEW i \in Nat, i <= Len - 2 PROVE (i + 2) \div 4 \in 0..Most
      BY <1>0, <3>2
    <3> QED BY <1>1, <3>1, <3>2
  <2>3. \A i, j \in T : i < j => (i + 2) \div 4 # (j + 2) \div 4
    <3> SUFFICES ASSUME NEW i \in T, NEW j \in T, i < j PROVE (i + 2) \div 4 # (j + 2) \div 4
      OBVIOUS
    <3>1. i \in Nat /\ j \in Nat /\ i + sz[i] <= j
      BY <1>1 DEF Tiling
    <3>2. CASE i = 0
      <4>1. j >= 2
        BY <3>1, <3>2 DEF Tiling
      <4> QED BY <3>1, <3>2, <4>1
    <3>3. CASE i = Len - 2
      <4>1. j < Len /\ sz[i] >= 2
        BY <1>1
      <4> QED BY <1>0, <1>1, <3>1, <3>3, <4>1
    <3>4. CASE i \notin Ends
      <4>1. sz[i] >= 4
        BY <3>4 DEF Tiling
      <4>2. i + 4 <= j
        BY <1>1, <3>1, <4>1
      <4> QED BY <3>1, <4>2
    <3> QED BY <3>2, <3>3, <3>4 DEF Ends
  <2>4. PICK n \in Nat : n = Most + 1 /\ n - 1 = Most
    BY <1>0
  <2> DEFINE c == [k \in 0..n |-> (at[k] + 2) \div 4]
  <2>5. c \in [0..n -> 0..(n - 1)]
    BY <2>1, <2>2, <2>4
  <2>6. PICK k \in 0..n, l \in 0..n : l < k /\ c[k] = c[l]
    <3> HIDE DEF c
    <3> QED BY <2>5, ComesBack
  <2>7. (at[k] + 2) \div 4 = (at[l] + 2) \div 4
    BY <2>6
  <2>8. at[l] < at[k]
    <3>1. k \in 0..(Most + 2) /\ l \in 0..(k - 1) /\ at[k] # Len
      BY <1>0, <1>s, <2>1, <2>4, <2>6
    <3> QED BY <1>11, <3>1
  <2>9. at[k] \in T /\ at[l] \in T
    BY <2>1, <2>4
  <2> QED BY <2>3, <2>7, <2>8, <2>9
<1> DEFINE Missed == {t \in T : \A k \in 0..(Most + 2) : at[k] # t}
<1>13. Missed = {}
  <2> SUFFICES ASSUME Missed # {} PROVE FALSE
    OBVIOUS
  <2>1. Missed \in SUBSET Nat
    BY <1>1
  <2>2. PICK t \in Missed : \A x \in Missed : t <= x
    <3> HIDE DEF Missed
    <3>1. Min(Missed) \in Missed /\ \A x \in Missed : Min(Missed) <= x
      BY <2>1, MinNat
    <3> QED BY <3>1
  <2>3. t \in T /\ t # 0 /\ t \in Nat /\ t # Len
    BY <1>0, <1>1, <1>8
  <2>4. PICK l \in T : l + sz[l] = t
    <3>1. \A i \in T : i # 0 => \E j \in T : j + sz[j] = i
      BY TilingFacts
    <3> QED BY <2>3, <3>1
  <2>5. l \in Nat /\ l < t /\ l # Len
    BY <1>1, <2>3, <2>4
  <2>6. l \notin Missed
    BY <2>2, <2>3, <2>5
  <2>7. PICK k \in 0..(Most + 2) : at[k] = l
    BY <2>6
  <2>8. k # Most + 2
    <3>1. ASSUME k = Most + 2 PROVE at[k] = Len
      <4>1. k \in 1..(Most + 2) /\ k - 1 = Most + 1
        BY <1>0, <3>1
      <4> QED BY <1>10, <1>12, <4>1
    <3> QED BY <2>5, <2>7, <3>1
  <2>9. k + 1 \in 1..(Most + 2) /\ k + 1 - 1 = k /\ k + 1 \in 0..(Most + 2)
    BY <1>0, <2>8
  <2>10. at[k + 1] = t
    BY <1>10, <2>4, <2>5, <2>7, <2>9
  <2> QED BY <2>9, <2>10
<1>14. Tiles \subseteq T
  BY <1>4, <1>7, <1>9
<1>15. T \subseteq Tiles
  BY <1>7, <1>13, <1>s
<1> QED BY <1>14, <1>15

LEMMA OrderIsWhole ==
  ASSUME IInv
  PROVE  TagsAgree /\ ListIsFree
<1>0. Len \in Nat /\ Len >= 8
  BY LenAssumption
<1>1. PICK h \in Heaps : h = Here
  BY HereFacts
<1>2. PICK T \in SUBSET Index, F \in SUBSET Index, sz \in [Index -> Nat], r \in [Index -> Nat] :
        Whole(Here, T, sz, F, r) /\ live = Held(T, sz, F)
  BY DEF IInv, WholeNow, InOrder
<1>3. /\ Tiling(T, sz) /\ Apart(T, sz, F) /\ F \subseteq T \ Ends
      /\ Tagged(h.array, T, sz, F) /\ Linked(h.array, h.avail, F, r)
      /\ Ends \subseteq T /\ sz[0] = 2 /\ sz[Len - 2] = 2
  BY <1>1, <1>2 DEF Whole, Apart, Tiling
<1>4. \A i \in T : /\ Size(h, i) = sz[i] /\ (IsAvail(h, i) <=> i \in F) /\ Sane(h, i)
                   /\ RightOf(h, i) = i + sz[i]
  BY <1>3, TagFacts
<1>5. \A i \in T : /\ Size(Here, i) = sz[i] /\ (IsAvail(Here, i) <=> i \in F) /\ Sane(Here, i)
                   /\ RightOf(Here, i) = i + sz[i]
  BY <1>1, <1>4
<1>6. Tiles = T
  BY <1>3, <1>5, TilesAll
<1>7. \A i \in T : i \in Index /\ i < Len
  BY <1>0, <1>2 DEF Index
<1>8. {t \in Tiles : IsAvail(Here, t)} = F /\ {t \in Tiles : ~IsAvail(Here, t)} = T \ F
  BY <1>3, <1>5, <1>6
<1>9. TagsAgree
  <2>1. \A i \in Tiles : i < Len /\ Sane(Here, i)
    BY <1>5, <1>6, <1>7
  <2>2. {BlockAt(Here, i) : i \in T \ F}
          = live \cup {[at |-> 0, ints |-> 2], [at |-> Len - 2, ints |-> 2]}
    <3>1. \A i \in T : BlockAt(Here, i) = [at |-> i, ints |-> sz[i]]
      BY <1>5 DEF BlockAt
    <3>2. T \ F = (T \ (F \cup Ends)) \cup {0, Len - 2}
      BY <1>3 DEF Ends
    <3>3. {BlockAt(Here, i) : i \in T \ F} = {[at |-> i, ints |-> sz[i]] : i \in T \ F}
      BY <3>1
    <3>4. {[at |-> i, ints |-> sz[i]] : i \in T \ F}
            = Held(T, sz, F) \cup {[at |-> 0, ints |-> 2], [at |-> Len - 2, ints |-> 2]}
      BY <1>3, <3>2 DEF Held
    <3> QED BY <1>2, <3>3, <3>4
  <2>3. \A i \in Tiles : IsAvail(Here, i) => ~IsAvail(Here, RightOf(Here, i))
    <3> SUFFICES ASSUME NEW i \in F PROVE ~IsAvail(Here, i + sz[i])
      BY <1>5, <1>6
    <3>1. i + sz[i] \in T
      <4>1. \A t \in T \ Ends : t + sz[t] \in T
        BY <1>3, TilingFacts, Zenon
      <4> QED BY <1>3, <4>1
    <3>2. i + sz[i] \notin F
      BY <1>3 DEF Apart
    <3> QED BY <1>5, <3>1, <3>2
  <2> QED BY <1>8, <2>1, <2>2, <2>3 DEF TagsAgree
<1>10. ListIsFree
  <2>0. Spaced(F)
    BY <1>3, FreeSpaced
  <2>1. F \subseteq Index /\ 0 \notin F
    BY <1>2, <1>3 DEF Ends
  <2>2. PICK at : at = Listed(Here)
    OBVIOUS
  <2>3. \A k \in 0..Most : at[k] \in F \cup {0}
    BY <1>1, <1>3, <2>1, <2>2, ListedFacts
  <2>4. \A i \in F : \E k \in 0..Most : at[k] = i
    BY <1>1, <1>3, <2>0, <2>2, ListedAll
  <2>5. \A k \in 0..Most : at[k] # 0 =>
          /\ array[at[k] + 2] = IF k = 0 THEN 0 ELSE at[k - 1]
          /\ \A l \in 0..(k - 1) : at[l] # at[k]
    <3>1. \A k \in 0..Most : Listed(h)[k] # 0 =>
            /\ h.array[Listed(h)[k] + 2] = IF k = 0 THEN 0 ELSE Listed(h)[k - 1]
            /\ \A l \in 0..(k - 1) : Listed(h)[l] # Listed(h)[k]
      BY <1>3, <2>1, ListedOnce
    <3>2. h.array = array /\ Listed(h) = at
      BY <1>1, <2>2, HereFacts
    <3> QED BY <3>1, <3>2
  <2>6. {at[k] : k \in 0..Most} \ {0} = F
    BY <2>1, <2>3, <2>4
  <2> QED BY <1>8, <2>2, <2>5, <2>6 DEF ListIsFree
<1> QED BY <1>9, <1>10

\* After any calls the walk over the blocks and the walk over the list agree
\* with each other and with what callers have: nothing is lost or offered twice
\* (heap.cc:87-201, user/heap.c).
THEOREM HeapStaysWhole == Spec => []HeapIsWhole
<1>1. IInv => HeapIsWhole
  BY OrderIsWhole DEF IInv, HeapIsWhole
<1> QED BY <1>1, Inductive, PTL

----------------------------------------------------------------------------
(* The Allocator.                                                          *)

\* A gap is inside one free block: what is next to a free block is taken.
LEMMA NoGap ==
  ASSUME NEW h \in Heaps, NEW blocks, InOrder(h, blocks), NEW n \in Nat, n >= 4,
         Found(h, n) = 0, NEW i \in Int, 2 <= i, i + n <= Len - 2
  PROVE  ~ \A b \in blocks : b.at + b.ints <= i \/ i + n <= b.at
<1> SUFFICES ASSUME \A b \in blocks : b.at + b.ints <= i \/ i + n <= b.at
             PROVE  FALSE
  OBVIOUS
<1>0. Len \in Nat /\ Len >= 8
  BY LenAssumption
<1>1. PICK T \in SUBSET Index, F \in SUBSET Index, sz \in [Index -> Nat], r \in [Index -> Nat] :
        Whole(h, T, sz, F, r) /\ blocks = Held(T, sz, F)
  BY DEF InOrder
<1>2. /\ Tiling(T, sz) /\ Apart(T, sz, F) /\ F \subseteq T \ Ends
      /\ Ends \subseteq T /\ sz[0] = 2 /\ sz[Len - 2] = 2
  BY <1>1 DEF Whole, Apart, Tiling
<1>3. \A t \in T : t \in Nat /\ sz[t] \in Nat /\ sz[t] >= 2
  <2>1. \A t \in T : t \in Index /\ sz[t] \in Nat /\ sz[t] >= 2
    BY <1>2, TilingFacts, Zenon
  <2> QED BY <1>0, <2>1 DEF Index
<1>4. \A t \in T \ (F \cup Ends) : t + sz[t] <= i \/ i + n <= t
  <2>1. \A t \in T \ (F \cup Ends) : [at |-> t, ints |-> sz[t]] \in blocks
    BY <1>1 DEF Held
  <2> QED BY <2>1
<1> DEFINE After == {t \in T : t > i}
<1>5. PICK e \in After : \A x \in After : e <= x
  <2>1. After \in SUBSET Nat /\ After # {}
    <3>1. Len - 2 \in After
      BY <1>0, <1>2 DEF Ends
    <3> QED BY <1>3, <3>1
  <2> HIDE DEF After
  <2>2. Min(After) \in After /\ \A x \in After : Min(After) <= x
    BY <2>1, MinNat
  <2> QED BY <2>2
<1>6. e \in T /\ e \in Nat /\ e > i /\ e # 0
  BY <1>3, <1>5
<1>7. PICK l \in T : l + sz[l] = e
  <2>1. \A t \in T : t # 0 => \E u \in T : u + sz[u] = t
    BY <1>2, TilingFacts
  <2> QED BY <1>6, <2>1
<1>8. l \in Nat /\ sz[l] \in Nat /\ sz[l] >= 2 /\ l <= i
  <2>1. l \in Nat /\ sz[l] \in Nat /\ sz[l] >= 2
    BY <1>3
  <2>2. l < e
    BY <1>6, <1>7, <2>1
  <2>3. l \notin After
    BY <1>5, <1>6, <2>1, <2>2
  <2> QED BY <2>1, <2>3
<1>9. l \notin Ends
  <2>1. l # 0
    BY <1>2, <1>6, <1>7
  <2>2. l # Len - 2
    BY <1>0, <1>8
  <2> QED BY <2>1, <2>2 DEF Ends
<1>10. l \in F
  <2> SUFFICES ASSUME l \notin F PROVE FALSE
    OBVIOUS
  <2>1. l + sz[l] <= i \/ i + n <= l
    BY <1>4, <1>9
  <2> QED BY <1>6, <1>7, <1>8, <2>1
<1>11. sz[l] < n
  BY <1>1, <1>10, FoundFacts
<1>12. e \notin F
  BY <1>2, <1>7, <1>10 DEF Apart
<1>13. e < i + n
  BY <1>6, <1>7, <1>8, <1>11
<1>14. e \notin Ends
  BY <1>0, <1>6, <1>13 DEF Ends
<1>15. e + sz[e] <= i \/ i + n <= e
  BY <1>4, <1>6, <1>12, <1>14
<1> QED BY <1>3, <1>6, <1>13, <1>15

LEMMA FoundNone ==
  ASSUME IInv, NEW n \in Sizes, Found(Here, n) = 0
  PROVE  \A i \in 2..(Len - 3) : ~Blocks!Free(live, i, n)
<1>0. n \in Nat /\ n >= 4 /\ Len \in Nat
  BY SizesAssumption, LenAssumption
<1>1. Here \in Heaps /\ InOrder(Here, live)
  BY HereFacts
<1> SUFFICES ASSUME NEW i \in 2..(Len - 3), Blocks!Free(live, i, n) PROVE FALSE
  OBVIOUS
<1>2. i \in Int /\ 2 <= i /\ i + n <= Len - 2
  BY <1>0 DEF Blocks!Free
<1>3. \A b \in live : b.at + b.ints <= i \/ i + n <= b.at
  BY DEF Blocks!Free
<1> QED BY <1>0, <1>1, <1>2, <1>3, NoGap

LEMMA FreshFits ==
  ASSUME NEW n \in Sizes, NEW i, NEW m, Fresh(i, m, n), result' = i
  PROVE  /\ [at |-> i, ints |-> m] \in Blocks!Block
         /\ Blocks!Taken([at |-> i, ints |-> m], n)
<1>0. Len \in Nat /\ Len >= 8
  BY LenAssumption
<1>1. PICK c : c = [at |-> i, ints |-> m]
  OBVIOUS
<1>2. PICK all : all = live \cup {c}
  OBVIOUS
<1>3. /\ i \in 2..(Len - 6) /\ m \in Nat /\ m >= n
      /\ \A b \in live : b.at # i
      /\ \E h : InOrder(h, all)
  BY <1>1, <1>2 DEF Fresh
<1>4. /\ all \subseteq [at : 2..(Len - 6), ints : 4..(Len - 4)]
      /\ \A b \in all : b.at + b.ints <= Len - 2
      /\ \A b, d \in all : b = d \/ b.at + b.ints <= d.at \/ d.at + d.ints <= b.at
  BY <1>3, OrderFacts
<1>5. c.at = i /\ c.ints = m /\ c \in all /\ \A b \in live : b \in all /\ b # c
  BY <1>1, <1>2, <1>3
<1>6. m \in 4..(Len - 4) /\ i + m <= Len - 2
  BY <1>4, <1>5
<1>7. \A b \in live : b.at + b.ints <= i \/ i + m <= b.at
  BY <1>4, <1>5
<1>8. Blocks!Free(live, i, m)
  BY <1>0, <1>3, <1>6, <1>7 DEF Blocks!Free
<1>9. c \in Blocks!Block
  BY <1>0, <1>1, <1>3, <1>6 DEF Blocks!Block
<1>10. Blocks!Taken(c, n)
  BY <1>3, <1>5, <1>8 DEF Blocks!Taken
<1> QED BY <1>1, <1>9, <1>10

LEMMA AllocatorInit == Init => Blocks!Init
BY DEF Init, Blocks!Init

LEMMA AllocatorNext ==
  ASSUME IInv, [Next]_vars
  PROVE  [Blocks!Next]_(Blocks!vars)
<1>1. ASSUME NEW n \in Sizes, Malloc(n) PROVE Blocks!Next
  <2>1. CASE Found(Here, n) = 0 /\ result' = 0 /\ UNCHANGED live
    <3>1. Blocks!Refuse(n)
      BY <2>1, FoundNone DEF Blocks!Refuse
    <3> QED BY <3>1 DEF Blocks!Next
  <2>2. ASSUME NEW i, NEW m, Fresh(i, m, n), result' = i, Gains(live, i, m) PROVE Blocks!Next
    <3>1. Blocks!Allocate(n)
      BY <2>2, FreshFits DEF Blocks!Allocate, Gains
    <3> QED BY <3>1 DEF Blocks!Next
  <2>3. \/ Found(Here, n) = 0 /\ result' = 0 /\ UNCHANGED live
        \/ \E i, m : Fresh(i, m, n) /\ result' = i /\ Gains(live, i, m)
    BY <1>1, MallocStep
  <2> QED BY <2>1, <2>2, <2>3
<1>2. ASSUME NEW b \in live, FreeBlock(b) PROVE Blocks!Next
  <2>1. Blocks!Release(b)
    BY <1>2, FreeStep DEF Blocks!Release
  <2> QED BY <2>1 DEF Blocks!Next
<1>3. ASSUME NEW b \in live, Write(b) PROVE UNCHANGED <<live, result>>
  BY <1>3 DEF Write
<1>4. ASSUME NEW b \in live, NEW n \in Sizes, Realloc(b, n) PROVE Blocks!Next
  <2>1. CASE Found(Here, n) = 0 /\ result' = 0 /\ live' = live \ {b}
    <3>1. Blocks!Replace(b, n)
      BY <2>1, FoundNone DEF Blocks!Replace
    <3> QED BY <3>1 DEF Blocks!Next
  <2>2. ASSUME NEW i, NEW m, Fresh(i, m, n), result' = i, Gains(live \ {b}, i, m) PROVE Blocks!Next
    <3>1. PICK c : c = [at |-> i, ints |-> m]
      OBVIOUS
    <3>2. c \in Blocks!Block /\ Blocks!Taken(c, n)
      BY <2>2, <3>1, FreshFits
    <3>3. c # b
      BY <2>2, <3>1 DEF Fresh
    <3>4. live' = (live \cup {c}) \ {b}
      BY <2>2, <3>1, <3>3 DEF Gains
    <3>5. Blocks!Replace(b, n)
      BY <3>2, <3>4 DEF Blocks!Replace
    <3> QED BY <3>5 DEF Blocks!Next
  <2>3. \/ Found(Here, n) = 0 /\ result' = 0 /\ live' = live \ {b}
        \/ \E i, m : Fresh(i, m, n) /\ result' = i /\ Gains(live \ {b}, i, m)
    BY <1>4, ReallocStep
  <2> QED BY <2>1, <2>2, <2>3
<1>5. CASE UNCHANGED vars
  BY <1>5 DEF vars, Blocks!vars
<1> QED BY <1>1, <1>2, <1>3, <1>4, <1>5 DEF Next, Blocks!vars

\* malloc, free and realloc keep the Allocator's promises: blocks in use never
\* overlap, and a request is refused only when no gap is large enough, so that
\* merging and splitting lose nothing (heap.cc:119-201).
THEOREM HeapAllocates == Spec => ImplementsAllocator
<1>1. Init => Blocks!Init
  BY AllocatorInit
<1>2. IInv /\ [Next]_vars => [Blocks!Next]_(Blocks!vars)
  BY AllocatorNext
<1> QED BY <1>1, <1>2, Inductive, PTL DEF Spec, ImplementsAllocator, Blocks!Spec
=============================================================================
