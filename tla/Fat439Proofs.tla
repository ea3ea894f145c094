---------------------------- MODULE Fat439Proofs ----------------------------
(***************************************************************************)
(* For any number of processes, files and blocks: as long as one process   *)
(* writes at a time, nobody writes 0 bytes and there is always a block to  *)
(* spare, no block is lost or in two places, and a file that nobody is     *)
(* writing has the blocks of the last write, in order.                     *)
(*                                                                         *)
(* The invariant does not follow the links in the FAT: it says that the    *)
(* blocks can be laid out in lists, one for each file and one of the       *)
(* available blocks, of which each block is in one place, and that the FAT *)
(* links each block to the next one of its list.  Each step of a write     *)
(* changes the layout by one operation on sequences.  That Chain, which    *)
(* does follow the links, gives back a list of the layout is proved once.  *)
(***************************************************************************)
EXTENDS Fat439, QueueLemmas, FiniteSetTheorems, WellFoundedInduction

----------------------------------------------------------------------------
(* The conditions.                                                         *)

\* Nobody writes 0 bytes, and with n blocks for each file one block is left.
Roomy(n) ==
  /\ \A l \in Lengths : l \in 1..n
  /\ InitSize <= n
  /\ Files * n + 3 < NBlocks

Processes == IsFiniteSet(Proc) /\ Mkfs \notin Proc

\* At most one process is inside OpenFile::write.
OneWriter == \A p, q \in Proc : pc[p] # "idle" /\ pc[q] # "idle" => p = q

----------------------------------------------------------------------------
(* The invariant.                                                          *)

Available == 0
List == File \cup {Available}
Usable == DataBlock \ {RootStart}
Layouts == [List -> Seq(Usable)]

\* Every block is in one place; a file begins where its directory entry says.
Apart(m) ==
  \A k, l \in List : \A i \in 1..Len(m[k]), j \in 1..Len(m[l]) :
    m[k][i] = m[l][j] => k = l /\ i = j
Covering(m) == \A b \in Usable : \E k \in List : \E i \in 1..Len(m[k]) : m[k][i] = b
Begun(m) == \A f \in File : m[f] # << >> /\ m[f][1] = Start(f)
Bounded(m, n) == \A f \in File : Len(m[f]) <= n
Laid(m, n) == m \in Layouts /\ Apart(m) /\ Covering(m) /\ Begun(m) /\ Bounded(m, n)

\* A block that a process has taken but not linked is the last one of its file.
Taking(k) == \E p \in Proc : pc[p] = "link" /\ handle[p] = k
Joined(m, k) == IF Taking(k) THEN Len(m[k]) - 1 ELSE Len(m[k])

Follows(s, n) == \A i \in 1..n : fat[s[i]] = IF i < n THEN s[i + 1] ELSE 0
Linked(m) ==
  /\ avail = m[Available][1]
  /\ \A k \in List : Follows(m[k], Joined(m, k))

\* How far a write is, in the list s of its file and the list r of available
\* blocks; d blocks of n are written.
Position(p, s, r, d, n) ==
  \/ pc[p] = "data" /\ d < n /\ d < Len(s) /\ block[p] = s[d + 1]
  \/ pc[p] = "find" /\ d < n /\ d = Len(s) /\ old[p] = s[d]
  \/ pc[p] = "pop" /\ d < n /\ d = Len(s) /\ old[p] = s[d] /\ val[p] = r[1]
  \/ pc[p] = "link" /\ d < n /\ d + 1 = Len(s) /\ d # 0
                    /\ old[p] = s[d] /\ block[p] = s[d + 1]
  \/ pc[p] = "walk" /\ d = n /\ d < Len(s) /\ old[p] = s[d] /\ block[p] = s[d + 1]
  \/ pc[p] = "append" /\ d = n /\ d < Len(s) /\ old[p] = s[d] /\ block[p] = s[d + 1]
                      /\ val[p] = r[Len(r)]
  \/ pc[p] = "return" /\ d = n /\ d = Len(s)

\* The first n blocks of s hold the blocks of a write of length l to f by p.
Holds(s, n, p, f, l) == \A i \in 1..n : disk[s[i]] = Data(p, f, l, i)

Control(m) ==
  \A p \in Proc : pc[p] # "idle" =>
    /\ handle[p] \in File /\ size[p] \in Lengths
    /\ saved[handle[p]] = [by |-> p, size |-> size[p]]
    /\ Position(p, m[handle[p]], m[Available], done[p], size[p])
    /\ Holds(m[handle[p]], done[p], p, handle[p], size[p])

\* mkfs takes blocks from the top, in descending order.
Descending(b, n) == [i \in 1..n |-> b - i + 1]
InitLayout == [k \in List |->
  IF k = Available THEN Descending(FirstAvail, FirstAvail - 1)
                   ELSE Descending(Start(k), InitSize)]

\* What was not written since the machine started is where mkfs put it.
Stored(m) ==
  \A f \in File :
    /\ saved[f].by = Mkfs => m[f] = InitLayout[f]
    /\ ~Written(f) /\ saved[f] # Forgotten =>
         /\ Len(m[f]) = saved[f].size
         /\ Holds(m[f], Len(m[f]), saved[f].by, f, saved[f].size)

Whole(m, n) == Laid(m, n) /\ Linked(m) /\ Control(m) /\ Stored(m)

\* Without it the references of an open file could exceed their type.
Counted == \A f \in File :
  openFiles[f].refs = Cardinality({p \in Proc : handle[p] = f})

IInv(n) == TypeOK /\ Counted /\ \E m \in Layouts : Whole(m, n)

----------------------------------------------------------------------------
(* Arithmetic of the image.                                                *)

LEMMA Constants ==
  /\ Files \in Nat /\ InitSize \in Nat /\ InitSize > 0 /\ NBlocks \in Nat
  /\ File = 1..Files /\ Available \notin File
  /\ Usable = 2..(NBlocks - 2) /\ Usable \subseteq Block /\ 0 \notin Usable /\ 0 \in Block
  /\ \A f \in File : Start(f) \in Int /\ Start(f) <= NBlocks - 2
  /\ FirstAvail \in Int /\ FirstAvail >= 2
  /\ FirstAvail = NBlocks - 2 - Files * InitSize
<1>1. Files \in Nat /\ InitSize \in Nat /\ InitSize > 0 /\ NBlocks \in Nat
      /\ NBlocks > 2 + Files * InitSize + 1
  BY SizeAssumption
<1>2. Files * InitSize \in Nat
  BY <1>1
<1>3. (Files - 1) * InitSize = Files * InitSize - InitSize
  BY <1>1
<1>4. FirstAvail = NBlocks - 2 - Files * InitSize
  BY <1>1, <1>2, <1>3 DEF FirstAvail, LastUsed, Start
<1>5. \A f \in File : Start(f) \in Int /\ Start(f) <= NBlocks - 2
  <2>1. ASSUME NEW f \in File PROVE (f - 1) * InitSize \in Nat
    BY <1>1 DEF File
  <2> QED BY <1>1, <2>1 DEF Start
<1>6. Usable = 2..(NBlocks - 2)
  BY <1>1 DEF Usable, DataBlock, RootStart
<1> QED BY <1>1, <1>2, <1>4, <1>5, <1>6 DEF File, Available, Block

\* Files lie below each other on the image.
LEMMA Spaced ==
  ASSUME NEW f \in File
  PROVE  /\ Start(f) = FirstAvail + (Files - f + 1) * InitSize
         /\ Start(f) - InitSize >= FirstAvail
         /\ \A g \in File : f < g => Start(g) <= Start(f) - InitSize
<1>1. /\ Files \in Nat /\ InitSize \in Nat /\ f \in 1..Files /\ NBlocks \in Nat
      /\ FirstAvail = NBlocks - 2 - Files * InitSize
  BY Constants
<1>2. Start(f) = NBlocks - 2 - (f - 1) * InitSize
  BY DEF Start
<1>3. ASSUME NEW a \in Nat, NEW b \in Nat, a < b
      PROVE  a * InitSize + InitSize <= b * InitSize
  <2>1. (a + 1) * InitSize <= b * InitSize
    BY <1>1, <1>3
  <2> QED BY <1>1, <2>1
<1>4. (f - 1) * InitSize + InitSize <= Files * InitSize
  BY <1>1, <1>3
<1>5. (f - 1) * InitSize + (Files - f + 1) * InitSize = Files * InitSize
  BY <1>1
<1>6. ASSUME NEW g \in File, f < g PROVE Start(g) <= Start(f) - InitSize
  <2>1. g - 1 \in Nat /\ f - 1 \in Nat /\ f - 1 < g - 1
    BY <1>1, <1>6, Constants
  <2>2. (f - 1) * InitSize + InitSize <= (g - 1) * InitSize
    BY <2>1, <1>3
  <2>3. (f - 1) * InitSize \in Nat /\ (g - 1) * InitSize \in Nat
    BY <1>1, <2>1
  <2> QED BY <1>1, <1>2, <2>2, <2>3 DEF Start
<1>7. (f - 1) * InitSize \in Nat /\ (Files - f + 1) * InitSize \in Nat /\ Files * InitSize \in Nat
  BY <1>1
<1> QED BY <1>1, <1>2, <1>4, <1>5, <1>6, <1>7

\* Every block from 2 on that is not the root's is an available one or a file's.
LEMMA Between ==
  ASSUME NEW b \in Usable, b > FirstAvail
  PROVE  \E f \in File : b \in (Start(f) - InitSize + 1)..Start(f)
<1>1. /\ Files \in Nat /\ InitSize \in Nat /\ NBlocks \in Nat /\ b \in 2..(NBlocks - 2)
      /\ FirstAvail = NBlocks - 2 - Files * InitSize /\ File = 1..Files
  BY Constants
<1> DEFINE S == {f \in Nat : b > NBlocks - 2 - f * InitSize}
<1>2. Files \in S
  BY <1>1
<1>3. PICK f \in S : \A g \in S : f <= g
  <2>1. PICK x \in S : \A y \in S : ~ (<<y, x>> \in OpToRel(<, Nat))
    BY <1>2, WFMin, NatLessThanWellFounded, Zenon
  <2>2. \A y \in S : ~ (y < x)
    BY <2>1, Zenon DEF OpToRel
  <2> QED BY <2>2
<1>4. f \in Nat /\ f <= Files /\ b > NBlocks - 2 - f * InitSize
  BY <1>2, <1>3
<1>5. f # 0
  BY <1>1, <1>4
<1>6. b <= NBlocks - 2 - (f - 1) * InitSize
  <2>1. f - 1 \notin S /\ f - 1 \in Nat
    BY <1>3, <1>4, <1>5
  <2> QED BY <1>1, <2>1
<1>7. f \in File /\ (f - 1) * InitSize = f * InitSize - InitSize /\ f * InitSize \in Nat
  BY <1>1, <1>4, <1>5
<1>8. Start(f) = NBlocks - 2 - f * InitSize + InitSize
  BY <1>1, <1>7 DEF Start
<1>9. PICK x \in Nat : x = f * InitSize
  BY <1>7
<1>10. b \in (Start(f) - InitSize + 1)..Start(f)
  <2>1. b > NBlocks - 2 - x /\ b <= NBlocks - 2 - x + InitSize /\ Start(f) = NBlocks - 2 - x + InitSize
    BY <1>1, <1>4, <1>6, <1>7, <1>8, <1>9
  <2> QED BY <1>1, <2>1
<1> QED BY <1>7, <1>10

LEMMA DescendingFacts ==
  ASSUME NEW b \in Int, NEW n \in Nat, n <= b - 1, b <= NBlocks - 2
  PROVE  /\ Descending(b, n) \in Seq(Usable) /\ Len(Descending(b, n)) = n
         /\ \A i \in 1..n : Descending(b, n)[i] = b - i + 1
<1>1. \A i \in 1..n : b - i + 1 \in Usable
  BY Constants
<1>2. Descending(b, n) \in [1..n -> Usable]
  BY <1>1 DEF Descending
<1>3. Descending(b, n) \in Seq(Usable)
  BY <1>2, SeqDef
<1>4. Len(Descending(b, n)) = n
  BY <1>2, <1>3, LenProperties DEF Descending
<1> QED BY <1>3, <1>4 DEF Descending

LEMMA InitLists ==
  /\ InitLayout \in Layouts
  /\ Len(InitLayout[Available]) = FirstAvail - 1
  /\ \A i \in 1..(FirstAvail - 1) : InitLayout[Available][i] = FirstAvail - i + 1
  /\ \A f \in File : /\ Len(InitLayout[f]) = InitSize
                     /\ \A i \in 1..InitSize : InitLayout[f][i] = Start(f) - i + 1
<1>0. Files * InitSize \in Nat /\ FirstAvail \in Int /\ FirstAvail >= 2 /\ FirstAvail <= NBlocks - 2
  BY Constants
<1>1. InitLayout[Available] = Descending(FirstAvail, FirstAvail - 1)
  BY DEF InitLayout, List
<1>2. \A f \in File : InitLayout[f] = Descending(Start(f), InitSize)
  BY Constants DEF InitLayout, List
<1>3. /\ Descending(FirstAvail, FirstAvail - 1) \in Seq(Usable)
      /\ Len(Descending(FirstAvail, FirstAvail - 1)) = FirstAvail - 1
      /\ \A i \in 1..(FirstAvail - 1) : Descending(FirstAvail, FirstAvail - 1)[i] = FirstAvail - i + 1
  <2>1. FirstAvail - 1 \in Nat /\ FirstAvail - 1 <= FirstAvail - 1
    BY <1>0
  <2> QED BY <1>0, <2>1, DescendingFacts
<1>4. ASSUME NEW f \in File
      PROVE  /\ Descending(Start(f), InitSize) \in Seq(Usable)
             /\ Len(Descending(Start(f), InitSize)) = InitSize
             /\ \A i \in 1..InitSize : Descending(Start(f), InitSize)[i] = Start(f) - i + 1
  <2>1. Start(f) \in Int /\ InitSize \in Nat /\ InitSize <= Start(f) - 1 /\ Start(f) <= NBlocks - 2
    BY Constants, Spaced
  <2> QED BY <2>1, DescendingFacts
<1>5. InitLayout \in Layouts
  BY <1>1, <1>2, <1>3, <1>4 DEF InitLayout, Layouts, List
<1> QED BY <1>1, <1>2, <1>3, <1>4, <1>5

\* mkfs puts every block in one place.
LEMMA InitLaid ==
  ASSUME NEW n \in Nat, Roomy(n)
  PROVE  Laid(InitLayout, n)
<1> DEFINE m == InitLayout
<1>1. /\ m \in Layouts /\ Len(m[Available]) = FirstAvail - 1
      /\ \A i \in 1..(FirstAvail - 1) : m[Available][i] = FirstAvail - i + 1
      /\ \A f \in File : /\ Len(m[f]) = InitSize
                         /\ \A i \in 1..InitSize : m[f][i] = Start(f) - i + 1
  BY InitLists
<1>2. /\ FirstAvail \in Int /\ FirstAvail >= 2 /\ InitSize \in Nat /\ InitSize > 0
      /\ File \subseteq Int /\ Usable = 2..(NBlocks - 2) /\ NBlocks \in Nat
      /\ \A f \in File : Start(f) \in Int
  BY Constants
<1> HIDE DEF m
<1>3. Apart(m)
  <2>0. \A k \in List : \A i \in 1..Len(m[k]) : m[k][i] \in Int
    <3>1. ASSUME NEW k \in List PROVE \A i \in 1..Len(m[k]) : m[k][i] \in Usable
      <4>1. m[k] \in Seq(Usable)
        BY <1>1 DEF Layouts
      <4> QED BY <4>1, LenProperties
    <3> QED BY <1>2, <3>1
  <2>1. ASSUME NEW f \in File, NEW i \in 1..InitSize
        PROVE  m[f][i] > FirstAvail /\ m[f][i] <= Start(f) /\ m[f][i] > Start(f) - InitSize
    BY <1>1, <1>2, Spaced
  <2>2. \A i \in 1..(FirstAvail - 1) : m[Available][i] <= FirstAvail
    BY <1>1, <1>2
  <2>6. ASSUME NEW f \in File, NEW g \in File, NEW i \in 1..InitSize, NEW j \in 1..InitSize, f < g
        PROVE  m[f][i] # m[g][j]
    <3>1. m[f][i] = Start(f) - i + 1 /\ m[g][j] = Start(g) - j + 1 /\ Start(g) <= Start(f) - InitSize
      BY <1>1, <2>6, Spaced
    <3>2. Start(f) \in Int /\ Start(g) \in Int
      BY <1>2
    <3> QED BY <1>2, <3>1, <3>2
  <2>3. ASSUME NEW f \in File, NEW g \in File, NEW i \in 1..InitSize, NEW j \in 1..InitSize,
               m[f][i] = m[g][j]
        PROVE  f = g
    <3>1. ~(f < g)
      BY <2>3, <2>6
    <3>2. ~(g < f)
      BY <2>3, <2>6
    <3> QED BY <1>2, <3>1, <3>2
  <2>4. ASSUME NEW k \in List, NEW l \in List, NEW i \in 1..Len(m[k]), NEW j \in 1..Len(m[l]),
               m[k][i] = m[l][j]
        PROVE  k = l
    <3>1. CASE k = Available /\ l \in File
      <4>1. i \in 1..(FirstAvail - 1) /\ j \in 1..InitSize
        BY <1>1, <3>1
      <4>2. m[k][i] <= FirstAvail /\ m[l][j] > FirstAvail
        BY <2>1, <2>2, <3>1, <4>1
      <4>3. m[k][i] \in Int
        BY <2>0
      <4> QED BY <1>2, <2>4, <4>2, <4>3
    <3>2. CASE l = Available /\ k \in File
      <4>1. j \in 1..(FirstAvail - 1) /\ i \in 1..InitSize
        BY <1>1, <3>2
      <4>2. m[l][j] <= FirstAvail /\ m[k][i] > FirstAvail
        BY <2>1, <2>2, <3>2, <4>1
      <4>3. m[l][j] \in Int
        BY <2>0
      <4> QED BY <1>2, <2>4, <4>2, <4>3
    <3>3. CASE k \in File /\ l \in File
      BY <1>1, <2>3, <2>4, <3>3
    <3> QED BY <3>1, <3>2, <3>3 DEF List
  <2>5. ASSUME NEW k \in List, NEW i \in 1..Len(m[k]), NEW j \in 1..Len(m[k]),
               m[k][i] = m[k][j]
        PROVE  i = j
    <3>1. CASE k = Available
      <4>1. i \in 1..(FirstAvail - 1) /\ j \in 1..(FirstAvail - 1)
        BY <1>1, <3>1
      <4>2. FirstAvail - i + 1 = FirstAvail - j + 1
        BY <1>1, <2>5, <3>1, <4>1
      <4> QED BY <1>2, <4>1, <4>2
    <3>2. CASE k \in File
      <4>1. i \in 1..InitSize /\ j \in 1..InitSize
        BY <1>1, <3>2
      <4>2. Start(k) - i + 1 = Start(k) - j + 1
        BY <1>1, <2>5, <3>2, <4>1
      <4>3. Start(k) \in Int
        BY <1>2, <3>2
      <4> QED BY <1>2, <4>1, <4>2, <4>3
    <3> QED BY <3>1, <3>2 DEF List
  <2> QED BY <2>4, <2>5 DEF Apart
<1>4. Covering(m)
  <2>1. ASSUME NEW b \in Usable, b <= FirstAvail
        PROVE  FirstAvail - b + 1 \in 1..Len(m[Available]) /\ m[Available][FirstAvail - b + 1] = b
    BY <1>1, <1>2, <2>1
  <2>2. ASSUME NEW b \in Usable, b > FirstAvail
        PROVE  \E f \in File : Start(f) - b + 1 \in 1..Len(m[f]) /\ m[f][Start(f) - b + 1] = b
    <3>1. PICK f \in File : b \in (Start(f) - InitSize + 1)..Start(f)
      BY <2>2, Between
    <3>2. Start(f) \in Int /\ b \in Int
      BY <1>2
    <3>3. \A x \in Int : b \in (x - InitSize + 1)..x =>
                           x - b + 1 \in 1..InitSize /\ x - (x - b + 1) + 1 = b
      BY <1>2, <3>2
    <3>4. Start(f) - b + 1 \in 1..InitSize /\ Start(f) - (Start(f) - b + 1) + 1 = b
      BY <3>1, <3>2, <3>3
    <3>5. Len(m[f]) = InitSize /\ \A i \in 1..InitSize : m[f][i] = Start(f) - i + 1
      BY <1>1
    <3>6. Start(f) - b + 1 \in 1..Len(m[f]) /\ m[f][Start(f) - b + 1] = b
      BY <3>4, <3>5
    <3> QED BY <3>6
  <2>3. ASSUME NEW b \in Usable PROVE \E k \in List : \E i \in 1..Len(m[k]) : m[k][i] = b
    <3>1. CASE b <= FirstAvail
      BY <2>1, <3>1 DEF List
    <3>2. CASE b > FirstAvail
      <4>1. PICK f \in File : Start(f) - b + 1 \in 1..Len(m[f]) /\ m[f][Start(f) - b + 1] = b
        BY <2>2, <3>2
      <4> QED BY <4>1 DEF List
    <3> QED BY <1>2, <3>1, <3>2
  <2> QED BY <2>3 DEF Covering
<1>5. Begun(m) /\ Bounded(m, n)
  <2>1. InitSize <= n
    BY DEF Roomy
  <2>2. ASSUME NEW f \in File PROVE m[f] # << >> /\ m[f][1] = Start(f)
    BY <1>1, <1>2
  <2> QED BY <1>1, <2>1, <2>2 DEF Begun, Bounded
<1> QED BY <1>1, <1>3, <1>4, <1>5 DEF Laid, m

----------------------------------------------------------------------------
(* Lists and chains.                                                       *)

LEMMA ListFacts ==
  ASSUME NEW m \in Layouts
  PROVE  \A k \in List : /\ m[k] \in Seq(Usable) /\ Len(m[k]) \in Nat
                         /\ \A i \in 1..Len(m[k]) : m[k][i] \in Usable
                         /\ m[k] # << >> => Len(m[k]) >= 1
<1>1. ASSUME NEW k \in List PROVE m[k] \in Seq(Usable)
  BY DEF Layouts
<1>2. ASSUME NEW k \in List PROVE Len(m[k]) \in Nat /\ \A i \in 1..Len(m[k]) : m[k][i] \in Usable
  BY <1>1, LenProperties
<1>3. ASSUME NEW k \in List, m[k] # << >> PROVE Len(m[k]) >= 1
  BY <1>1, <1>2, <1>3, EmptySeq
<1> QED BY <1>1, <1>2, <1>3

LEMMA Interval ==
  ASSUME NEW a \in Int, NEW b \in Int, a <= b + 1
  PROVE  IsFiniteSet(a..b) /\ Cardinality(a..b) = b - a + 1
<1>1. IsFiniteSet(a..b) /\ Cardinality(a..b) = IF a > b THEN 0 ELSE b - a + 1
  BY FS_Interval
<1> QED BY <1>1

\* A list without repetitions is not longer than the disk.
LEMMA ListBound ==
  ASSUME NEW s \in Seq(Usable), \A i, j \in 1..Len(s) : s[i] = s[j] => i = j
  PROVE  Len(s) <= NBlocks
<1>1. NBlocks \in Nat /\ Usable \subseteq 0..(NBlocks - 1)
  BY Constants DEF Block
<1>2. s \in [1..Len(s) -> 0..(NBlocks - 1)] /\ Len(s) \in Nat
  <2>1. s \in [1..Len(s) -> Usable] /\ Len(s) \in Nat
    BY LenProperties
  <2> QED BY <1>1, <2>1
<1>3. s \in Injection(1..Len(s), 0..(NBlocks - 1))
  BY <1>2 DEF Injection, IsInjective
<1>4. IsFiniteSet(0..(NBlocks - 1)) /\ Cardinality(0..(NBlocks - 1)) = NBlocks
  BY <1>1, Interval
<1>5. Cardinality(1..Len(s)) <= Cardinality(0..(NBlocks - 1))
  BY <1>3, <1>4, FS_Injection
<1>6. Cardinality(1..Len(s)) = Len(s)
  BY <1>2, Interval
<1>7. Cardinality(0..(NBlocks - 1)) \in Nat
  BY <1>4, FS_CardinalityType
<1> QED BY <1>1, <1>2, <1>4, <1>5, <1>6, <1>7

\* The recursive function in Chain.
ChainAt(b) ==
  LET at[k \in 1..NBlocks] ==
        IF k = 1 THEN b ELSE LET c == at[k - 1] IN IF c = 0 THEN 0 ELSE fat[c]
  IN at

LEMMA ChainIsAt ==
  ASSUME NEW b
  PROVE  Chain(b) = [k \in 1..Cardinality({j \in 1..NBlocks : ChainAt(b)[j] # 0}) |-> ChainAt(b)[k]]
BY DEF Chain, ChainAt

\* Chain gives back the list that the FAT links.
LEMMA ChainIs ==
  ASSUME NEW s \in Seq(Usable), \A i, j \in 1..Len(s) : s[i] = s[j] => i = j,
         NEW n \in 1..Len(s), Follows(s, n)
  PROVE  Chain(s[1]) = [i \in 1..n |-> s[i]]
<1>1. /\ Len(s) \in Nat /\ Len(s) <= NBlocks /\ NBlocks \in Nat
      /\ \A i \in 1..Len(s) : s[i] \in Usable /\ s[i] # 0
  BY ListBound, LenProperties, Constants
<1>2. n \in Nat /\ n <= NBlocks /\ 1 \in 1..n
  BY <1>1
<1>3. \A i \in 1..n : s[i] # 0 /\ fat[s[i]] = IF i < n THEN s[i + 1] ELSE 0
  BY <1>1 DEF Follows
<1> DEFINE b == s[1]
           g == [k \in 1..NBlocks |-> IF k <= n THEN s[k] ELSE 0]
           at == ChainAt(b)
<1>4. g = [k \in 1..NBlocks |->
             IF k = 1 THEN b ELSE IF g[k - 1] = 0 THEN 0 ELSE fat[g[k - 1]]]
  <2>1. ASSUME NEW k \in 1..NBlocks, k # 1
        PROVE  g[k] = IF g[k - 1] = 0 THEN 0 ELSE fat[g[k - 1]]
    <3>1. CASE k <= n
      BY <1>1, <1>2, <1>3, <2>1, <3>1
    <3>2. CASE k = n + 1
      BY <1>1, <1>2, <1>3, <2>1, <3>2
    <3>3. CASE k > n + 1
      BY <1>1, <1>2, <2>1, <3>3
    <3> QED BY <1>2, <2>1, <3>1, <3>2, <3>3
  <2>2. 1 \in 1..NBlocks => g[1] = b
    BY <1>2
  <2> QED BY <2>1, <2>2
<1>5. at = [k \in 1..NBlocks |->
              IF k = 1 THEN b ELSE IF at[k - 1] = 0 THEN 0 ELSE fat[at[k - 1]]]
  <2> HIDE DEF g, b
  <2> QED BY <1>4 DEF ChainAt
<1>6. at = g
  <2> DEFINE Bad == {k \in 1..NBlocks : at[k] # g[k]}
  <2>1. SUFFICES ASSUME Bad # {} PROVE FALSE
    BY <1>5
  <2>2. PICK k \in Bad : \A l \in Bad : ~(l < k)
    <3>1. Bad \subseteq Nat
      OBVIOUS
    <3>2. PICK x \in Bad : \A y \in Bad : ~ (<<y, x>> \in OpToRel(<, Nat))
      BY <2>1, <3>1, WFMin, NatLessThanWellFounded, Zenon
    <3>3. \A y \in Bad : ~ (y < x)
      BY <3>1, <3>2, Zenon DEF OpToRel
    <3> QED BY <3>3
  <2>3. k \in 1..NBlocks /\ at[k] # g[k]
    BY <2>2
  <2> HIDE DEF g, at, b
  <2>4. k # 1
    BY <1>4, <1>5, <2>3
  <2>5. k - 1 \in 1..NBlocks /\ at[k - 1] = g[k - 1]
    BY <1>1, <2>2, <2>3, <2>4
  <2> QED BY <1>4, <1>5, <2>3, <2>4, <2>5
<1>7. {k \in 1..NBlocks : at[k] # 0} = 1..n
  BY <1>1, <1>2, <1>3, <1>6
<1>8. Cardinality(1..n) = n
  BY <1>2, Interval
<1>9. \A k \in 1..n : at[k] = s[k]
  <2>1. \A k \in 1..n : k \in 1..NBlocks /\ k <= n
    BY <1>1, <1>2
  <2> QED BY <1>6, <2>1
<1>10. Chain(b) = [k \in 1..Cardinality({j \in 1..NBlocks : at[j] # 0}) |-> at[k]]
  BY ChainIsAt
<1> HIDE DEF at, g
<1>11. Chain(b) = [k \in 1..n |-> at[k]]
  BY <1>7, <1>8, <1>10
<1> QED BY <1>9, <1>11

----------------------------------------------------------------------------
(* Layouts.                                                                *)

\* While the files are no longer than n there is an available block: else
\* every block would have a place among Files * n.
LEMMA Room ==
  ASSUME NEW n \in Nat, Roomy(n), NEW m, Laid(m, n)
  PROVE  m[Available] # << >> /\ Len(m[Available]) >= 1
<1>1. /\ Files \in Nat /\ NBlocks \in Nat /\ File = 1..Files
      /\ Usable = 2..(NBlocks - 2) /\ Files * n + 3 < NBlocks
  BY Constants DEF Roomy
<1>2. m \in Layouts /\ Available \in List
  BY DEF Laid, List
<1> SUFFICES ASSUME m[Available] = << >> PROVE FALSE
  BY <1>2, ListFacts
<1>3. Len(m[Available]) = 0
  OBVIOUS
<1> DEFINE T == File \X (1..n)
<1>4. ASSUME NEW b \in Usable
      PROVE  \E x \in T : x[2] \in 1..Len(m[x[1]]) /\ m[x[1]][x[2]] = b
  <2>1. PICK k \in List, i \in Nat : i \in 1..Len(m[k]) /\ m[k][i] = b
    BY DEF Laid, Covering
  <2>2. k \in File
    BY <1>3, <2>1 DEF List
  <2>3. Len(m[k]) \in Nat /\ Len(m[k]) <= n
    BY <1>2, <2>2, ListFacts DEF Laid, Bounded
  <2>4. i \in 1..n
    BY <2>1, <2>3
  <2>5. <<k, i>> \in T
    BY <2>2, <2>4
  <2> QED BY <2>1, <2>5
<1> DEFINE F == [b \in Usable |->
                   CHOOSE x \in T : x[2] \in 1..Len(m[x[1]]) /\ m[x[1]][x[2]] = b]
<1>5. \A b \in Usable : F[b] \in T /\ m[F[b][1]][F[b][2]] = b
  BY <1>4
<1>6. F \in Injection(Usable, T)
  <2> HIDE DEF T
  <2>1. F \in [Usable -> T]
    BY <1>5
  <2> HIDE DEF F
  <2> QED BY <1>5, <2>1 DEF Injection, IsInjective
<1>7. IsFiniteSet(T) /\ Cardinality(T) = Files * n
  <2>1. IsFiniteSet(1..Files) /\ Cardinality(1..Files) = Files
    BY <1>1, Interval
  <2>2. IsFiniteSet(1..n) /\ Cardinality(1..n) = n
    <3>1. n \in Int /\ 1 <= n + 1
      OBVIOUS
    <3> QED BY <3>1, Interval
  <2>3. /\ IsFiniteSet((1..Files) \X (1..n))
        /\ Cardinality((1..Files) \X (1..n)) = Files * n
    <3> DEFINE A == 1..Files
               B == 1..n
    <3>1. /\ IsFiniteSet(A) /\ Cardinality(A) = Files
          /\ IsFiniteSet(B) /\ Cardinality(B) = n
      BY <2>1, <2>2
    <3> HIDE DEF A, B
    <3>2. IsFiniteSet(A \X B) /\ Cardinality(A \X B) = Cardinality(A) * Cardinality(B)
      BY <3>1, FS_Product
    <3>3. IsFiniteSet(A \X B) /\ Cardinality(A \X B) = Files * n
      BY <3>1, <3>2
    <3> QED BY <3>3 DEF A, B
  <2> QED BY <1>1, <2>3, Zenon
<1>8. Cardinality(Usable) <= Files * n
  BY <1>6, <1>7, FS_Injection
<1>9. Cardinality(Usable) = NBlocks - 3
  <2>1. NBlocks >= 4 /\ 2 \in Int /\ NBlocks - 2 \in Int
    <3>1. Files * n \in Nat
      BY <1>1
    <3> QED BY <1>1, <3>1
  <2> QED BY <1>1, <2>1, Interval
<1>10. Files * n \in Nat
  BY <1>1
<1> QED BY <1>1, <1>8, <1>9, <1>10

\* The first available block becomes the last one of f.
Take(m, f) == [m EXCEPT ![Available] = Tail(@), ![f] = Append(@, Head(m[Available]))]

LEMMA TakeFacts ==
  ASSUME NEW m \in Layouts, NEW f \in File, m[Available] # << >>
  PROVE  /\ Take(m, f) \in Layouts
         /\ Len(Take(m, f)[Available]) = Len(m[Available]) - 1
         /\ \A i \in 1..(Len(m[Available]) - 1) : Take(m, f)[Available][i] = m[Available][i + 1]
         /\ Len(Take(m, f)[f]) = Len(m[f]) + 1
         /\ \A i \in 1..Len(m[f]) : Take(m, f)[f][i] = m[f][i]
         /\ Take(m, f)[f][Len(m[f]) + 1] = m[Available][1]
         /\ \A k \in List : k # Available /\ k # f => Take(m, f)[k] = m[k]
<1>1. f \in List /\ Available \in List /\ f # Available
  BY Constants DEF List
<1>2. /\ m[Available] \in Seq(Usable) /\ m[f] \in Seq(Usable) /\ Len(m[Available]) \in Nat
      /\ m[Available][1] \in Usable
  <2>1. m[Available] \in Seq(Usable) /\ m[f] \in Seq(Usable) /\ Len(m[Available]) \in Nat
        /\ Len(m[Available]) >= 1
    BY <1>1, ListFacts
  <2> QED BY <1>1, <2>1, ListFacts
<1>3. /\ Tail(m[Available]) \in Seq(Usable) /\ Head(m[Available]) = m[Available][1]
      /\ Len(Tail(m[Available])) = Len(m[Available]) - 1
      /\ \A i \in 1..(Len(m[Available]) - 1) : Tail(m[Available])[i] = m[Available][i + 1]
  BY <1>2, HeadTailProperties
<1>4. /\ Append(m[f], m[Available][1]) \in Seq(Usable)
      /\ Len(Append(m[f], m[Available][1])) = Len(m[f]) + 1
      /\ \A i \in 1..Len(m[f]) : Append(m[f], m[Available][1])[i] = m[f][i]
      /\ Append(m[f], m[Available][1])[Len(m[f]) + 1] = m[Available][1]
  BY <1>2, AppendProperties
<1>5. m \in [List -> Seq(Usable)]
  BY DEF Layouts
<1>6. /\ Take(m, f)[Available] = Tail(m[Available])
      /\ Take(m, f)[f] = Append(m[f], m[Available][1])
      /\ \A k \in List : k # Available /\ k # f => Take(m, f)[k] = m[k]
      /\ Take(m, f) \in [List -> Seq(Usable)]
  BY <1>1, <1>3, <1>4, <1>5 DEF Take
<1> QED BY <1>3, <1>4, <1>6 DEF Layouts

\* Taking a block keeps every block in one place.
LEMMA TakeLaid ==
  ASSUME NEW n \in Nat, NEW m, Laid(m, n), NEW f \in File,
         m[Available] # << >>, Len(m[f]) < n
  PROVE  Laid(Take(m, f), n)
<1>1. m \in Layouts /\ f \in List /\ Available \in List /\ f # Available
  BY Constants DEF List, Laid
<1> DEFINE t == Take(m, f)
<1>2. /\ t \in Layouts
      /\ Len(t[Available]) = Len(m[Available]) - 1
      /\ \A i \in 1..(Len(m[Available]) - 1) : t[Available][i] = m[Available][i + 1]
      /\ Len(t[f]) = Len(m[f]) + 1
      /\ \A i \in 1..Len(m[f]) : t[f][i] = m[f][i]
      /\ t[f][Len(m[f]) + 1] = m[Available][1]
      /\ \A k \in List : k # Available /\ k # f => t[k] = m[k]
  BY <1>1, TakeFacts
<1>3. /\ \A k \in List : Len(m[k]) \in Nat
      /\ Len(m[Available]) >= 1
  BY <1>1, ListFacts
<1> HIDE DEF t
<1> DEFINE From(k, i, l, j) ==
      \/ k = Available /\ l = Available /\ j = i + 1
      \/ k = f /\ i <= Len(m[f]) /\ l = f /\ j = i
      \/ k = f /\ i = Len(m[f]) + 1 /\ l = Available /\ j = 1
      \/ k # Available /\ k # f /\ l = k /\ j = i
<1>4. ASSUME NEW k \in List, NEW i \in 1..Len(t[k])
      PROVE  \E l \in List : \E j \in 1..Len(m[l]) : t[k][i] = m[l][j] /\ From(k, i, l, j)
  <2>1. CASE k = Available
    <3>1. i + 1 \in 1..Len(m[Available]) /\ t[k][i] = m[Available][i + 1]
      BY <1>2, <1>3, <1>4, <2>1
    <3> QED BY <1>1, <2>1, <3>1
  <2>2. CASE k = f /\ i <= Len(m[f])
    <3>1. i \in 1..Len(m[f]) /\ t[k][i] = m[f][i]
      BY <1>1, <1>2, <1>3, <1>4, <2>2
    <3> QED BY <1>1, <2>2, <3>1
  <2>3. CASE k = f /\ i > Len(m[f])
    <3>1. i = Len(m[f]) + 1 /\ 1 \in 1..Len(m[Available])
      BY <1>1, <1>2, <1>3, <1>4, <2>3
    <3> QED BY <1>1, <1>2, <2>3, <3>1
  <2>4. CASE k # Available /\ k # f
    BY <1>2, <1>4, <2>4
  <2> QED BY <1>1, <1>3, <2>1, <2>2, <2>3, <2>4
<1>5. ASSUME NEW l \in List, NEW j \in 1..Len(m[l])
      PROVE  \E k \in List : \E i \in 1..Len(t[k]) : t[k][i] = m[l][j]
  <2>1. CASE l = Available /\ j = 1
    <3>1. Len(m[f]) + 1 \in 1..Len(t[f]) /\ t[f][Len(m[f]) + 1] = m[l][j]
      BY <1>1, <1>2, <1>3, <2>1
    <3> QED BY <1>1, <3>1
  <2>2. CASE l = Available /\ j # 1
    <3>1. j - 1 \in 1..Len(t[Available]) /\ j - 1 \in 1..(Len(m[Available]) - 1) /\ j - 1 + 1 = j
      BY <1>2, <1>3, <1>5, <2>2
    <3>2. t[Available][j - 1] = m[l][j]
      BY <1>2, <2>2, <3>1
    <3> QED BY <1>1, <3>1, <3>2
  <2>3. CASE l = f
    <3>1. j \in 1..Len(t[f]) /\ t[f][j] = m[l][j]
      BY <1>1, <1>2, <1>3, <2>3
    <3> QED BY <1>1, <3>1
  <2>4. CASE l # Available /\ l # f
    BY <1>2, <2>4
  <2> QED BY <2>1, <2>2, <2>3, <2>4
<1>6. Apart(t)
  <2> HIDE DEF From
  <2>3. \A k \in List : \A i \in 1..Len(t[k]) : \E x \in List : \E y \in 1..Len(m[x]) :
          t[k][i] = m[x][y] /\ From(k, i, x, y)
    BY <1>4
  <2>2. \A x, y, u, v : x \in List /\ y \in 1..Len(m[x]) /\ u \in List /\ v \in 1..Len(m[u])
                       /\ m[x][y] = m[u][v] => x = u /\ y = v
    BY DEF Laid, Apart
  <2>1. ASSUME NEW k \in List, NEW l \in List, NEW i \in 1..Len(t[k]), NEW j \in 1..Len(t[l]),
               t[k][i] = t[l][j]
        PROVE  k = l /\ i = j
    <3>1. PICK x \in List, y \in Nat : y \in 1..Len(m[x]) /\ t[k][i] = m[x][y] /\ From(k, i, x, y)
      <4>1. PICK x \in List : \E y \in 1..Len(m[x]) : t[k][i] = m[x][y] /\ From(k, i, x, y)
        BY <2>3
      <4> QED BY <4>1
    <3>2. PICK u \in List, v \in Nat : v \in 1..Len(m[u]) /\ t[l][j] = m[u][v] /\ From(l, j, u, v)
      BY <1>4
    <3>3. u = x /\ v = y
      BY <2>1, <2>2, <3>1, <3>2
    <3>4. i \in Int /\ j \in Int /\ Len(m[f]) \in Int
      BY <1>1, <1>3
    <3>5. From(k, i, x, y) /\ From(l, j, x, y)
      BY <3>1, <3>2, <3>3
    <3> QED BY <1>1, <3>4, <3>5 DEF From
  <2> QED BY <2>1 DEF Apart
<1>7. Covering(t)
  <2>1. ASSUME NEW b \in Usable PROVE \E k \in List : \E i \in 1..Len(t[k]) : t[k][i] = b
    <3>1. PICK l \in List, j \in Nat : j \in 1..Len(m[l]) /\ m[l][j] = b
      BY DEF Laid, Covering
    <3> QED BY <1>5, <3>1
  <2> QED BY <2>1 DEF Covering
<1>8. Begun(t) /\ Bounded(t, n)
  <2>1. ASSUME NEW g \in File PROVE t[g] # << >> /\ t[g][1] = Start(g) /\ Len(t[g]) <= n
    <3>1. m[g] # << >> /\ m[g][1] = Start(g) /\ Len(m[g]) <= n /\ g \in List /\ g # Available
      BY Constants DEF Laid, Begun, Bounded, List
    <3>2. Len(m[g]) >= 1
      BY <1>1, <3>1, ListFacts
    <3>3. CASE g = f
      <4>1. 1 \in 1..Len(m[f]) /\ Len(t[f]) >= 2
        BY <1>2, <1>3, <3>1, <3>2, <3>3
      <4>2. t[f] # << >>
        BY <4>1
      <4> QED BY <1>2, <1>3, <3>1, <3>3, <4>1, <4>2
    <3>4. CASE g # f
      BY <1>2, <3>1, <3>4
    <3> QED BY <3>3, <3>4
  <2> QED BY <2>1 DEF Begun, Bounded
<1> QED BY <1>2, <1>6, <1>7, <1>8 DEF Laid, t

\* The blocks of f behind the first d become the last available ones.
GiveBack(m, f, d) ==
  [m EXCEPT ![Available] = @ \o SubSeq(m[f], d + 1, Len(m[f])), ![f] = SubSeq(@, 1, d)]

\* Position i of a list of b is position j behind a list of a, without the first d.
Shifts(a, b, d, i, j) ==
  /\ j \in 1..(a + b - d) /\ ~(j <= a) /\ j - a = i - d
  /\ i - d \in 1..(b - d) /\ d + (i - d) = i

LEMMA Shift ==
  ASSUME NEW a \in Nat, NEW b \in Nat, NEW d \in Nat, d < b, NEW i \in (d + 1)..b
  PROVE  Shifts(a, b, d, i, a + i - d)
BY DEF Shifts

LEMMA InFront ==
  ASSUME NEW a \in Nat, NEW b \in Nat, NEW d \in Nat, d < b, NEW i \in 1..a
  PROVE  i \in 1..(a + b - d) /\ i <= a
OBVIOUS

LEMMA GiveBackFacts ==
  ASSUME NEW m \in Layouts, NEW f \in File, NEW d \in Nat, d >= 1, d < Len(m[f])
  PROVE  /\ GiveBack(m, f, d) \in Layouts
         /\ Len(GiveBack(m, f, d)[Available]) = Len(m[Available]) + Len(m[f]) - d
         /\ \A i \in 1..Len(m[Available]) : GiveBack(m, f, d)[Available][i] = m[Available][i]
         /\ \A i \in (d + 1)..Len(m[f]) :
              GiveBack(m, f, d)[Available][Len(m[Available]) + i - d] = m[f][i]
         /\ Len(GiveBack(m, f, d)[f]) = d
         /\ \A i \in 1..d : GiveBack(m, f, d)[f][i] = m[f][i]
         /\ \A k \in List : k # Available /\ k # f => GiveBack(m, f, d)[k] = m[k]
<1>1. f \in List /\ Available \in List /\ f # Available
  BY Constants DEF List
<1>2. /\ m[Available] \in Seq(Usable) /\ m[f] \in Seq(Usable)
      /\ Len(m[Available]) \in Nat /\ Len(m[f]) \in Nat
      /\ \A i \in 1..Len(m[f]) : m[f][i] \in Usable
  BY <1>1, ListFacts
<1> DEFINE head == SubSeq(m[f], 1, d)
           tail == SubSeq(m[f], d + 1, Len(m[f]))
<1>3. /\ head \in Seq(Usable) /\ Len(head) = d
      /\ \A i \in 1..d : head[i] = m[f][i]
  <2>1. 1 \in Int /\ d \in Int /\ \A i \in 1..d : m[f][i] \in Usable
    BY <1>2
  <2>2. /\ head \in Seq(Usable) /\ Len(head) = IF 1 <= d THEN d - 1 + 1 ELSE 0
        /\ \A i \in 1..(d - 1 + 1) : head[i] = m[f][1 + i - 1]
    BY <2>1, SubSeqProperties
  <2> HIDE DEF head
  <2>3. \A i \in 1..d : i \in 1..(d - 1 + 1) /\ 1 + i - 1 = i
    OBVIOUS
  <2> QED BY <2>2, <2>3
<1>4. /\ tail \in Seq(Usable) /\ Len(tail) = Len(m[f]) - d
      /\ \A i \in 1..(Len(m[f]) - d) : tail[i] = m[f][d + i]
  <2>1. d + 1 \in Int /\ Len(m[f]) \in Int /\ \A i \in (d + 1)..Len(m[f]) : m[f][i] \in Usable
    BY <1>2
  <2>2. /\ tail \in Seq(Usable)
        /\ Len(tail) = IF d + 1 <= Len(m[f]) THEN Len(m[f]) - (d + 1) + 1 ELSE 0
        /\ \A i \in 1..(Len(m[f]) - (d + 1) + 1) : tail[i] = m[f][d + 1 + i - 1]
    BY <2>1, SubSeqProperties
  <2> HIDE DEF tail
  <2>3. /\ Len(m[f]) - (d + 1) + 1 = Len(m[f]) - d
        /\ \A i \in 1..(Len(m[f]) - d) : d + 1 + i - 1 = d + i
    BY <1>2
  <2> QED BY <1>2, <2>2, <2>3
<1> HIDE DEF head, tail
<1>5. /\ m[Available] \o tail \in Seq(Usable)
      /\ Len(m[Available] \o tail) = Len(m[Available]) + Len(m[f]) - d
      /\ \A i \in 1..(Len(m[Available]) + Len(m[f]) - d) : (m[Available] \o tail)[i] =
           IF i <= Len(m[Available]) THEN m[Available][i] ELSE tail[i - Len(m[Available])]
  <2>1. /\ m[Available] \o tail \in Seq(Usable)
        /\ Len(m[Available] \o tail) = Len(m[Available]) + Len(tail)
        /\ \A i \in 1..(Len(m[Available]) + Len(tail)) : (m[Available] \o tail)[i] =
             IF i <= Len(m[Available]) THEN m[Available][i] ELSE tail[i - Len(m[Available])]
    BY <1>2, <1>4, ConcatProperties
  <2>2. Len(m[Available]) + Len(tail) = Len(m[Available]) + Len(m[f]) - d
    BY <1>2, <1>4
  <2> QED BY <2>1, <2>2
<1>6. m \in [List -> Seq(Usable)]
  BY DEF Layouts
<1>7. /\ GiveBack(m, f, d)[Available] = m[Available] \o tail
      /\ GiveBack(m, f, d)[f] = head
      /\ \A k \in List : k # Available /\ k # f => GiveBack(m, f, d)[k] = m[k]
      /\ GiveBack(m, f, d) \in [List -> Seq(Usable)]
  BY <1>1, <1>3, <1>5, <1>6 DEF GiveBack, head, tail
<1>8. ASSUME NEW i \in 1..Len(m[Available])
      PROVE  (m[Available] \o tail)[i] = m[Available][i]
  <2>1. i \in 1..(Len(m[Available]) + Len(m[f]) - d) /\ i <= Len(m[Available])
    BY <1>2, InFront
  <2> QED BY <1>5, <2>1
<1>9. ASSUME NEW i \in (d + 1)..Len(m[f])
      PROVE  (m[Available] \o tail)[Len(m[Available]) + i - d] = m[f][i]
  <2> DEFINE j == Len(m[Available]) + i - d
  <2>1. Shifts(Len(m[Available]), Len(m[f]), d, i, j)
    BY <1>2, Shift
  <2> HIDE DEF j
  <2>2. (m[Available] \o tail)[j] = tail[i - d]
    BY <1>5, <2>1 DEF Shifts
  <2>3. tail[i - d] = m[f][i]
    BY <1>4, <2>1
  <2> QED BY <2>2, <2>3 DEF j
<1> QED BY <1>3, <1>5, <1>7, <1>8, <1>9 DEF Layouts

LEMMA GiveBackLaid ==
  ASSUME NEW n \in Nat, NEW m, Laid(m, n), NEW f \in File, NEW d \in Nat, d >= 1, d < Len(m[f])
  PROVE  Laid(GiveBack(m, f, d), n)
<1>1. m \in Layouts /\ f \in List /\ Available \in List /\ f # Available
  BY Constants DEF List, Laid
<1> DEFINE t == GiveBack(m, f, d)
           r == Len(m[Available])
<1>2. /\ t \in Layouts
      /\ Len(t[Available]) = r + Len(m[f]) - d
      /\ \A i \in 1..r : t[Available][i] = m[Available][i]
      /\ \A i \in (d + 1)..Len(m[f]) : t[Available][r + i - d] = m[f][i]
      /\ Len(t[f]) = d
      /\ \A i \in 1..d : t[f][i] = m[f][i]
      /\ \A k \in List : k # Available /\ k # f => t[k] = m[k]
  BY <1>1, GiveBackFacts
<1>3. r \in Nat /\ \A k \in List : Len(m[k]) \in Nat
  BY <1>1, ListFacts
<1> HIDE DEF t, r
<1> DEFINE From(k, i, l, j) ==
      \/ k = Available /\ i <= r /\ l = Available /\ j = i
      \/ k = Available /\ i > r /\ l = f /\ j = i - r + d
      \/ k = f /\ i <= d /\ l = f /\ j = i
      \/ k # Available /\ k # f /\ l = k /\ j = i
<1>4. ASSUME NEW k \in List, NEW i \in 1..Len(t[k])
      PROVE  \E l \in List : \E j \in 1..Len(m[l]) : t[k][i] = m[l][j] /\ From(k, i, l, j)
  <2>1. CASE k = Available /\ i <= r
    <3>1. i \in 1..r
      BY <1>3, <2>1
    <3>2. i \in 1..Len(m[Available]) /\ t[k][i] = m[Available][i]
      BY <1>2, <2>1, <3>1 DEF r
    <3> QED BY <1>1, <2>1, <3>2
  <2>2. CASE k = Available /\ i > r
    <3> DEFINE j == i - r + d
    <3>1. j \in (d + 1)..Len(m[f]) /\ j \in 1..Len(m[f]) /\ r + j - d = i
      BY <1>1, <1>2, <1>3, <1>4, <2>2
    <3>2. t[k][i] = m[f][j]
      BY <1>2, <2>2, <3>1
    <3> QED BY <1>1, <2>2, <3>1, <3>2
  <2>3. CASE k = f
    <3>1. i \in 1..d /\ i \in 1..Len(m[f])
      BY <1>1, <1>2, <1>3, <1>4, <2>3
    <3>2. t[k][i] = m[f][i]
      BY <1>2, <2>3, <3>1
    <3> QED BY <1>1, <2>3, <3>1, <3>2
  <2>4. CASE k # Available /\ k # f
    BY <1>2, <1>4, <2>4
  <2> QED BY <1>1, <1>2, <1>3, <2>1, <2>2, <2>3, <2>4
<1>5. ASSUME NEW l \in List, NEW j \in 1..Len(m[l])
      PROVE  \E k \in List : \E i \in 1..Len(t[k]) : t[k][i] = m[l][j]
  <2>1. CASE l = Available
    <3>1. j \in 1..r /\ j \in 1..Len(t[Available])
      BY <1>1, <1>2, <1>3, <2>1 DEF r
    <3>2. t[Available][j] = m[l][j]
      BY <1>2, <2>1, <3>1
    <3> QED BY <1>1, <3>1, <3>2
  <2>2. CASE l = f /\ j > d
    <3>1. j \in (d + 1)..Len(m[f]) /\ r + j - d \in 1..Len(t[Available])
      BY <1>1, <1>2, <1>3, <1>5, <2>2
    <3>2. t[Available][r + j - d] = m[l][j]
      BY <1>2, <2>2, <3>1
    <3> QED BY <1>1, <3>1, <3>2
  <2>3. CASE l = f /\ j <= d
    <3>1. j \in 1..d /\ j \in 1..Len(t[f])
      BY <1>1, <1>2, <1>3, <2>3
    <3>2. t[f][j] = m[l][j]
      BY <1>2, <2>3, <3>1
    <3> QED BY <1>1, <3>1, <3>2
  <2>4. CASE l # Available /\ l # f
    BY <1>2, <2>4
  <2> QED BY <1>1, <1>3, <2>1, <2>2, <2>3, <2>4
<1>6. Apart(t)
  <2> HIDE DEF From
  <2>1. \A k \in List : \A i \in 1..Len(t[k]) : \E x \in List : \E y \in 1..Len(m[x]) :
          t[k][i] = m[x][y] /\ From(k, i, x, y)
    BY <1>4
  <2>2. \A x, y, u, v : x \in List /\ y \in 1..Len(m[x]) /\ u \in List /\ v \in 1..Len(m[u])
                       /\ m[x][y] = m[u][v] => x = u /\ y = v
    BY DEF Laid, Apart
  <2>3. ASSUME NEW k \in List, NEW l \in List, NEW i \in 1..Len(t[k]), NEW j \in 1..Len(t[l]),
               t[k][i] = t[l][j]
        PROVE  k = l /\ i = j
    <3>1. PICK x \in List : \E y \in 1..Len(m[x]) : t[k][i] = m[x][y] /\ From(k, i, x, y)
      BY <2>1
    <3>2. PICK y \in 1..Len(m[x]) : t[k][i] = m[x][y] /\ From(k, i, x, y)
      BY <3>1
    <3>3. PICK u \in List : \E v \in 1..Len(m[u]) : t[l][j] = m[u][v] /\ From(l, j, u, v)
      BY <2>1
    <3>4. PICK v \in 1..Len(m[u]) : t[l][j] = m[u][v] /\ From(l, j, u, v)
      BY <3>3
    <3>5. u = x /\ v = y
      BY <2>2, <2>3, <3>2, <3>4
    <3>6. From(k, i, x, y) /\ From(l, j, x, y)
      BY <3>2, <3>4, <3>5
    <3>7. i \in Int /\ j \in Int
      OBVIOUS
    <3> QED BY <1>1, <1>3, <3>6, <3>7 DEF From
  <2> QED BY <2>3 DEF Apart
<1>7. Covering(t)
  <2>1. ASSUME NEW b \in Usable PROVE \E k \in List : \E i \in 1..Len(t[k]) : t[k][i] = b
    <3>1. PICK l \in List, j \in Nat : j \in 1..Len(m[l]) /\ m[l][j] = b
      BY DEF Laid, Covering
    <3> QED BY <1>5, <3>1
  <2> QED BY <2>1 DEF Covering
<1>8. Begun(t) /\ Bounded(t, n)
  <2>1. ASSUME NEW g \in File PROVE t[g] # << >> /\ t[g][1] = Start(g) /\ Len(t[g]) <= n
    <3>1. m[g] # << >> /\ m[g][1] = Start(g) /\ Len(m[g]) <= n /\ g \in List /\ g # Available
      BY Constants DEF Laid, Begun, Bounded, List
    <3>2. CASE g = f
      <4>1. 1 \in 1..d /\ Len(t[f]) # 0 /\ d <= n
        BY <1>1, <1>2, <1>3, <3>1, <3>2
      <4> QED BY <1>2, <3>1, <3>2, <4>1
    <3>3. CASE g # f
      BY <1>2, <3>1, <3>3
    <3> QED BY <3>2, <3>3
  <2> QED BY <2>1 DEF Begun, Bounded
<1> QED BY <1>2, <1>6, <1>7, <1>8 DEF Laid, t

----------------------------------------------------------------------------
(* The image of mkfs has this layout.                                      *)

LEMMA InitFatFacts ==
  /\ InitFat \in [Block -> Block] /\ FirstAvail \in Block
  /\ FirstAvail = InitLayout[Available][1]
  /\ \A i \in 1..(FirstAvail - 1) : InitFat[FirstAvail - i + 1] =
       IF i < FirstAvail - 1 THEN FirstAvail - (i + 1) + 1 ELSE 0
  /\ \A f \in File : \A i \in 1..InitSize : InitFat[Start(f) - i + 1] =
       IF i < InitSize THEN Start(f) - (i + 1) + 1 ELSE 0
<1>1. /\ Files \in Nat /\ InitSize \in Nat /\ InitSize > 0 /\ NBlocks \in Nat
      /\ File \subseteq Int /\ Files * InitSize \in Nat
      /\ FirstAvail \in Int /\ FirstAvail >= 2 /\ FirstAvail <= NBlocks - 2
      /\ Block = 0..(NBlocks - 1)
      /\ \A f \in File : Start(f) \in Int /\ Start(f) <= NBlocks - 2
  BY Constants DEF Block
<1>2. LastUsed = FirstAvail + 1
  BY <1>1 DEF FirstAvail, LastUsed, Start
<1>3. InitFat \in [Block -> Block]
  <2>1. ASSUME NEW b \in Block, ~(b < 3) PROVE b - 1 \in Block
    BY <1>1, <2>1
  <2>2. 0 \in Block
    BY <1>1
  <2> QED BY <2>1, <2>2 DEF InitFat
<1>4. \A b \in Block : InitFat[b] =
        IF b < 3 THEN 0
        ELSE IF b < FirstAvail + 1 THEN b - 1
        ELSE IF \E f \in File : b \in (Start(f) - InitSize + 2)..Start(f) THEN b - 1
        ELSE 0
  BY <1>2 DEF InitFat
<1>5. FirstAvail \in Block /\ FirstAvail = InitLayout[Available][1]
  <2>1. 1 \in 1..(FirstAvail - 1) /\ FirstAvail - 1 + 1 = FirstAvail
    BY <1>1
  <2> QED BY <1>1, <2>1, InitLists
<1>6. ASSUME NEW i \in 1..(FirstAvail - 1)
      PROVE  InitFat[FirstAvail - i + 1] = IF i < FirstAvail - 1 THEN FirstAvail - (i + 1) + 1 ELSE 0
  <2> DEFINE b == FirstAvail - i + 1
  <2>1. /\ b \in Block /\ b < FirstAvail + 1 /\ (b < 3 <=> ~(i < FirstAvail - 1))
        /\ b - 1 = FirstAvail - (i + 1) + 1
    BY <1>1
  <2> HIDE DEF b
  <2>2. InitFat[b] = IF i < FirstAvail - 1 THEN FirstAvail - (i + 1) + 1 ELSE 0
    BY <1>4, <2>1
  <2> QED BY <2>2 DEF b
<1>7. ASSUME NEW f \in File, NEW i \in 1..InitSize
      PROVE  InitFat[Start(f) - i + 1] = IF i < InitSize THEN Start(f) - (i + 1) + 1 ELSE 0
  <2>0. /\ Start(f) \in Int /\ Start(f) - InitSize >= FirstAvail /\ Start(f) <= NBlocks - 2
        /\ InitSize \in Nat /\ FirstAvail \in Int /\ FirstAvail >= 2 /\ NBlocks \in Nat
        /\ Block = 0..(NBlocks - 1)
    BY <1>1, Spaced
  <2> DEFINE b == Start(f) - i + 1
  <2>1. /\ b \in Block /\ ~(b < 3) /\ ~(b < FirstAvail + 1)
        /\ b - 1 = Start(f) - (i + 1) + 1
        /\ b \in (Start(f) - InitSize + 2)..Start(f) <=> i < InitSize
        /\ b \in (Start(f) - InitSize + 1)..Start(f)
    BY <2>0
  <2> HIDE DEF b
  <2>2. ASSUME NEW g \in File, g # f PROVE b \notin (Start(g) - InitSize + 2)..Start(g)
    <3>1. Start(g) \in Int /\ f \in Int /\ g \in Int /\ b \in Int
      BY <1>1, <2>1
    <3>2. Start(g) <= Start(f) - InitSize \/ Start(f) <= Start(g) - InitSize
      BY <2>2, <3>1, Spaced
    <3>3. b <= Start(f) /\ b > Start(f) - InitSize
      BY <2>0, <2>1
    <3> HIDE DEF b
    <3>4. CASE Start(g) <= Start(f) - InitSize
      BY <2>0, <3>1, <3>3, <3>4
    <3>5. CASE Start(f) <= Start(g) - InitSize
      BY <2>0, <3>1, <3>3, <3>5
    <3> QED BY <3>2, <3>4, <3>5
  <2>3. (\E g \in File : b \in (Start(g) - InitSize + 2)..Start(g)) <=> i < InitSize
    BY <2>1, <2>2
  <2>4. InitFat[b] = IF i < InitSize THEN Start(f) - (i + 1) + 1 ELSE 0
    BY <1>4, <2>1, <2>3
  <2> QED BY <2>4 DEF b
<1> QED BY <1>3, <1>5, <1>6, <1>7

LEMMA InitDiskFacts ==
  /\ InitDisk \in [Block -> Contents]
  /\ \A f \in File : \A i \in 1..InitSize :
       InitDisk[Start(f) - i + 1] = Data(Mkfs, f, InitSize, i)
<1>1. /\ Files \in Nat /\ InitSize \in Nat /\ InitSize > 0 /\ NBlocks \in Nat /\ File = 1..Files
      /\ FirstAvail \in Int /\ FirstAvail >= 2 /\ FirstAvail <= NBlocks - 2
      /\ Block = 0..(NBlocks - 1)
      /\ \A f \in File : Start(f) \in Int /\ Start(f) <= NBlocks - 2
  <2>1. Files * InitSize \in Nat
    BY Constants
  <2> QED BY <2>1, Constants DEF Block
<1>2. LastUsed = FirstAvail + 1
  BY <1>1 DEF FirstAvail, LastUsed, Start
<1>3. ASSUME NEW f \in File, NEW g \in File, NEW b \in Int,
             b \in (Start(f) - InitSize + 1)..Start(f), b \in (Start(g) - InitSize + 1)..Start(g)
      PROVE  f = g
  <2>1. Start(f) \in Int /\ Start(g) \in Int /\ f \in Int /\ g \in Int
    BY <1>1
  <2>2. ~(Start(g) <= Start(f) - InitSize) /\ ~(Start(f) <= Start(g) - InitSize)
    BY <1>1, <1>3, <2>1
  <2>3. ~(f < g) /\ ~(g < f)
    BY <2>2, Spaced
  <2> QED BY <2>1, <2>3
<1>4. ASSUME NEW f \in File, NEW b \in Block, b \in (Start(f) - InitSize + 1)..Start(f)
      PROVE  /\ b \in LastUsed..Start(1)
             /\ (CHOOSE g \in File : b \in (Start(g) - InitSize + 1)..Start(g)) = f
  <2>0. Start(f) \in Int /\ Start(f) - InitSize >= FirstAvail
    BY <1>1, Spaced
  <2>1. 1 \in File /\ f \in Int /\ 1 <= f
    BY <1>1
  <2>2. Start(f) <= Start(1) /\ Start(1) \in Int
    <3>1. CASE f = 1
      BY <1>1, <2>1, <3>1
    <3>2. CASE 1 < f
      <4>1. Start(f) <= Start(1) - InitSize /\ Start(1) \in Int
        BY <1>1, <2>1, <3>2, Spaced
      <4> QED BY <1>1, <2>0, <4>1
    <3> QED BY <2>1, <3>1, <3>2
  <2>3. b \in LastUsed..Start(1)
    <3>1. b \in Int /\ b >= Start(f) - InitSize + 1 /\ b <= Start(f)
      BY <1>1, <1>4, <2>0
    <3>2. b >= FirstAvail + 1 /\ b <= Start(1)
      BY <1>1, <2>0, <2>2, <3>1
    <3> QED BY <1>1, <1>2, <2>2, <3>1, <3>2
  <2>4. b \in Int
    BY <1>1
  <2>5. \A g \in File : b \in (Start(g) - InitSize + 1)..Start(g) => g = f
    BY <1>3, <1>4, <2>4
  <2> QED BY <1>4, <2>3, <2>5
<1>5. ASSUME NEW f \in File, NEW b \in Block, b \in (Start(f) - InitSize + 1)..Start(f)
      PROVE  InitDisk[b] = Data(Mkfs, f, InitSize, Start(f) - b + 1)
  BY <1>4, <1>5 DEF InitDisk
<1>6. ASSUME NEW f \in File, NEW i \in 1..InitSize
      PROVE  InitDisk[Start(f) - i + 1] = Data(Mkfs, f, InitSize, i)
  <2>0. /\ Start(f) \in Int /\ Start(f) - InitSize >= FirstAvail /\ Start(f) <= NBlocks - 2
        /\ InitSize \in Nat /\ FirstAvail \in Int /\ FirstAvail >= 2 /\ NBlocks \in Nat
        /\ Block = 0..(NBlocks - 1)
    BY <1>1, Spaced
  <2> DEFINE b == Start(f) - i + 1
  <2>1. b \in Block /\ b \in (Start(f) - InitSize + 1)..Start(f) /\ Start(f) - b + 1 = i
    BY <2>0
  <2> HIDE DEF b
  <2>2. InitDisk[b] = Data(Mkfs, f, InitSize, i)
    BY <1>5, <2>1
  <2> QED BY <2>2 DEF b
<1>7. ASSUME NEW b \in Block PROVE InitDisk[b] \in Contents
  <2>1. CASE b \in LastUsed..Start(1)
    <3>1. b > FirstAvail /\ b \in Usable
      <4>1. CASE 1 \in File
        BY <1>1, <1>2, <2>1, <4>1, Constants
      <4>2. CASE 1 \notin File
        <5>1. Files = 0
          BY <1>1, <4>2
        <5>2. Start(1) = NBlocks - 2
          BY <1>1 DEF Start
        <5> QED BY <1>1, <1>2, <2>1, <5>2, Constants
      <4> QED BY <4>1, <4>2
    <3>2. PICK f \in File : b \in (Start(f) - InitSize + 1)..Start(f)
      BY <3>1, Between
    <3>3. InitDisk[b] = Data(Mkfs, f, InitSize, Start(f) - b + 1)
      BY <1>5, <3>2
    <3>4. Start(f) - b + 1 \in 0..NBlocks
      <4>1. b \in Int /\ Start(f) \in Int /\ Start(f) <= NBlocks - 2 /\ b >= 0
        BY <1>1
      <4>2. b <= Start(f)
        BY <3>2, <4>1
      <4> QED BY <1>1, <4>1, <4>2
    <3> QED BY <3>3, <3>4 DEF Data, Contents
  <2>2. CASE b \notin LastUsed..Start(1)
    <3>1. InitDisk[b] = Data(Mkfs, NoFile, 0, 0)
      BY <2>2 DEF InitDisk, System
    <3>2. 0 \in 0..NBlocks
      BY <1>1
    <3> QED BY <3>1, <3>2 DEF Data, Contents
  <2> QED BY <2>1, <2>2
<1>8. InitDisk \in [Block -> Contents]
  <2>1. InitDisk = [b \in Block |-> InitDisk[b]]
    BY DEF InitDisk
  <2> QED BY <1>7, <2>1
<1> QED BY <1>6, <1>8

----------------------------------------------------------------------------
(* Steps.                                                                  *)

Alone(p) == \A q \in Proc : q # p => pc[q] = "idle"

\* How much of list k the FAT links, while p is at l.
Reach(m, k, p, l) == IF l = "link" /\ handle[p] = k THEN Len(m[k]) - 1 ELSE Len(m[k])

Links(m, p, l) == \A k \in List : Follows(m[k], Reach(m, k, p, l))

\* The other files than p's are in the same places, and hold the same.
Spares(p, m, t) ==
  \A g \in File : g # handle[p] =>
    t[g] = m[g] /\ \A i \in 1..Len(m[g]) : disk'[m[g][i]] = disk[m[g][i]]

\* What the invariant says when p is the one that writes.
LEMMA WriterFacts ==
  ASSUME NEW n \in Nat, NEW m, Whole(m, n), TypeOK, NEW p \in Proc, Alone(p)
  PROVE  /\ Laid(m, n) /\ m \in Layouts /\ avail = m[Available][1]
         /\ \A k \in List : Follows(m[k], Reach(m, k, p, pc[p]))
         /\ pc[p] # "idle" =>
              /\ handle[p] \in File /\ size[p] \in Lengths
              /\ saved[handle[p]] = [by |-> p, size |-> size[p]]
              /\ Position(p, m[handle[p]], m[Available], done[p], size[p])
              /\ Holds(m[handle[p]], done[p], p, handle[p], size[p])
         /\ \A f \in File : f # handle[p] \/ pc[p] = "idle" => ~Written(f)
<1>1. Laid(m, n) /\ m \in Layouts /\ avail = m[Available][1]
  BY DEF Whole, Laid, Linked
<1>2. ASSUME NEW k \in List PROVE Follows(m[k], Reach(m, k, p, pc[p]))
  <2>1. Taking(k) <=> pc[p] = "link" /\ handle[p] = k
    BY DEF Alone, Taking
  <2>2. Joined(m, k) = Reach(m, k, p, pc[p])
    BY <2>1 DEF Joined, Reach
  <2>3. Follows(m[k], Joined(m, k))
    BY DEF Whole, Linked
  <2> QED BY <2>2, <2>3
<1>3. ASSUME pc[p] # "idle"
      PROVE  /\ handle[p] \in File /\ size[p] \in Lengths
             /\ saved[handle[p]] = [by |-> p, size |-> size[p]]
             /\ Position(p, m[handle[p]], m[Available], done[p], size[p])
             /\ Holds(m[handle[p]], done[p], p, handle[p], size[p])
  BY <1>3 DEF Whole, Control
<1>4. ASSUME NEW f \in File, f # handle[p] \/ pc[p] = "idle" PROVE ~Written(f)
  BY <1>4 DEF Written, Alone
<1> QED BY <1>1, <1>2, <1>3, <1>4

\* A write that goes on leaves the other files, and what they hold, alone.
LEMMA Continues ==
  ASSUME NEW n \in Nat, NEW m, Whole(m, n), TypeOK, Processes,
         NEW p \in Proc, Alone(p), handle[p] \in File,
         NEW l, l # "idle", pc' = [pc EXCEPT ![p] = l], UNCHANGED handle,
         NEW t, t \in Layouts, Laid(t, n), avail' = t[Available][1],
         Links(t, p, l)',
         size'[p] \in Lengths,
         saved' = [saved EXCEPT ![handle[p]] = [by |-> p, size |-> size'[p]]],
         Position(p, t[handle[p]], t[Available], done[p], size[p])',
         Holds(t[handle[p]], done[p], p, handle[p], size[p])',
         Spares(p, m, t)
  PROVE  Whole(t, n)'
<1>0. pc \in [Proc -> {"idle", "find", "pop", "link", "data", "walk", "append", "return"}]
      /\ saved \in [File -> [by : Proc \cup {Mkfs}, size : Lengths \cup {0, InitSize}]]
  BY DEF TypeOK
<1>1. pc'[p] = l /\ \A q \in Proc : q # p => pc'[q] = "idle"
  BY <1>0 DEF Alone
<1>2. saved'[handle[p]] = [by |-> p, size |-> size'[p]]
      /\ \A g \in File : g # handle[p] => saved'[g] = saved[g]
  BY <1>0
<1>3. Laid(t, n)'
  BY DEF Laid, Apart, Covering, Begun, Bounded
<1>4. Linked(t)'
  <2>1. ASSUME NEW k \in List PROVE Follows(t[k], Joined(t, k))'
    <3>1. Taking(k)' <=> l = "link" /\ handle[p] = k
      BY <1>1 DEF Taking
    <3>2. Joined(t, k)' = Reach(t, k, p, l)'
      BY <3>1 DEF Joined, Reach
    <3>3. Follows(t[k], Reach(t, k, p, l))'
      BY DEF Links
    <3> QED BY <3>2, <3>3 DEF Follows
  <2> QED BY <2>1 DEF Linked
<1>5. Control(t)'
  <2>1. ASSUME NEW q \in Proc, pc'[q] # "idle" PROVE q = p
    BY <1>1, <2>1
  <2> QED BY <1>2, <2>1 DEF Control
<1>6. Stored(t)'
  <2>1. ASSUME NEW g \in File
        PROVE  /\ saved'[g].by = Mkfs => t[g] = InitLayout[g]
               /\ ~Written(g)' /\ saved'[g] # Forgotten =>
                    /\ Len(t[g]) = saved'[g].size
                    /\ Holds(t[g], Len(t[g]), saved[g].by, g, saved[g].size)'
    <3>1. CASE g = handle[p]
      <4>1. Written(g)'
        BY <1>1, <3>1 DEF Written
      <4>2. saved'[g].by # Mkfs
        BY <1>2, <3>1 DEF Processes
      <4> QED BY <4>1, <4>2
    <3>2. CASE g # handle[p]
      <4>1. saved'[g] = saved[g] /\ t[g] = m[g] /\ ~Written(g)
        BY <1>2, <3>2, WriterFacts DEF Spares
      <4>2. /\ saved[g].by = Mkfs => m[g] = InitLayout[g]
            /\ saved[g] # Forgotten =>
                 /\ Len(m[g]) = saved[g].size
                 /\ Holds(m[g], Len(m[g]), saved[g].by, g, saved[g].size)
        BY <4>1 DEF Whole, Stored
      <4>3. Holds(m[g], Len(m[g]), saved[g].by, g, saved[g].size) =>
            Holds(t[g], Len(t[g]), saved[g].by, g, saved[g].size)'
        BY <3>2, <4>1 DEF Holds, Spares
      <4> QED BY <4>1, <4>2, <4>3
    <3> QED BY <3>1, <3>2
  <2> QED BY <2>1 DEF Stored
<1> QED BY <1>3, <1>4, <1>5, <1>6 DEF Whole

\* Nothing that the layout is about has changed.
LEMMA Stays ==
  ASSUME NEW n \in Nat, NEW m, Whole(m, n),
         UNCHANGED <<fatVars, disk, pc, locals, saved>>,
         \A q \in Proc : pc[q] # "idle" => handle'[q] = handle[q]
  PROVE  Whole(m, n)'
<1>1. UNCHANGED <<fat, avail, disk, pc, block, old, val, size, done, saved>>
  BY DEF fatVars, locals
<1>2. Laid(m, n)'
  BY DEF Whole, Laid, Apart, Covering, Begun, Bounded
<1>3. ASSUME NEW k PROVE Joined(m, k)' = Joined(m, k)
  <2>1. Taking(k)' <=> Taking(k)
    BY <1>1 DEF Taking
  <2> QED BY <2>1 DEF Joined
<1>4. Linked(m)'
  <2>1. ASSUME NEW k \in List PROVE Follows(m[k], Joined(m, k))'
    <3>1. Follows(m[k], Joined(m, k))
      BY DEF Whole, Linked
    <3> QED BY <1>1, <1>3, <3>1 DEF Follows
  <2> QED BY <1>1, <2>1 DEF Whole, Linked
<1>5. Control(m)'
  <2>1. ASSUME NEW q \in Proc, pc'[q] # "idle"
        PROVE  /\ handle'[q] \in File /\ size'[q] \in Lengths
               /\ saved'[handle'[q]] = [by |-> q, size |-> size'[q]]
               /\ Position(q, m[handle[q]], m[Available], done[q], size[q])'
               /\ Holds(m[handle[q]], done[q], q, handle[q], size[q])'
    <3>1. pc[q] # "idle" /\ handle'[q] = handle[q]
      BY <1>1, <2>1
    <3>2. /\ handle[q] \in File /\ size[q] \in Lengths
          /\ saved[handle[q]] = [by |-> q, size |-> size[q]]
          /\ Position(q, m[handle[q]], m[Available], done[q], size[q])
          /\ Holds(m[handle[q]], done[q], q, handle[q], size[q])
      BY <3>1 DEF Whole, Control
    <3>3. Position(q, m[handle[q]], m[Available], done[q], size[q])'
      BY <1>1, <3>1, <3>2 DEF Position
    <3>4. Holds(m[handle[q]], done[q], q, handle[q], size[q])'
      BY <1>1, <3>1, <3>2 DEF Holds
    <3> QED BY <1>1, <3>1, <3>2, <3>3, <3>4
  <2> QED BY <2>1 DEF Control
<1>6. Stored(m)'
  <2>1. ASSUME NEW f \in File
        PROVE  /\ saved'[f].by = Mkfs => m[f] = InitLayout[f]
               /\ ~Written(f)' /\ saved'[f] # Forgotten =>
                    /\ Len(m[f]) = saved'[f].size
                    /\ Holds(m[f], Len(m[f]), saved[f].by, f, saved[f].size)'
    <3>1. Written(f)' <=> Written(f)
      BY <1>1 DEF Written
    <3>2. /\ saved[f].by = Mkfs => m[f] = InitLayout[f]
          /\ ~Written(f) /\ saved[f] # Forgotten =>
               /\ Len(m[f]) = saved[f].size
               /\ Holds(m[f], Len(m[f]), saved[f].by, f, saved[f].size)
      BY DEF Whole, Stored
    <3>3. Holds(m[f], Len(m[f]), saved[f].by, f, saved[f].size) =>
          Holds(m[f], Len(m[f]), saved[f].by, f, saved[f].size)'
      BY <1>1 DEF Holds
    <3> QED BY <1>1, <3>1, <3>2, <3>3
  <2> QED BY <2>1 DEF Stored
<1> QED BY <1>2, <1>4, <1>5, <1>6 DEF Whole

\* Opening and closing change the references of one file by one.
LEMMA HoldersAdd ==
  ASSUME Processes, TypeOK, Counted, NEW p \in Proc, NEW f \in File, handle[p] = NoFile,
         handle' = [handle EXCEPT ![p] = f]
  PROVE  /\ openFiles[f].refs \in Nat /\ openFiles[f].refs + 1 <= Cardinality(Proc)
         /\ Cardinality({q \in Proc : handle'[q] = f}) = openFiles[f].refs + 1
         /\ \A g \in File : g # f =>
              Cardinality({q \in Proc : handle'[q] = g}) = openFiles[g].refs
<1>1. handle \in [Proc -> File \cup {NoFile}] /\ NoFile \notin File
  BY Constants DEF TypeOK, NoFile, Available
<1> DEFINE S == {q \in Proc : handle[q] = f}
           T == {q \in Proc : handle'[q] = f}
<1>2. T = S \cup {p} /\ p \notin S
  BY <1>1
<1>3. IsFiniteSet(S) /\ Cardinality(S) \in Nat
  <2>1. S \in SUBSET Proc
    OBVIOUS
  <2> QED BY <2>1, FS_Subset, FS_CardinalityType DEF Processes
<1>4. Cardinality(T) = Cardinality(S) + 1
  <2> HIDE DEF S, T
  <2> QED BY <1>2, <1>3, FS_AddElement
<1>5. Cardinality(T) <= Cardinality(Proc)
  <2>1. T \in SUBSET Proc
    OBVIOUS
  <2> QED BY <2>1, FS_Subset DEF Processes
<1>6. openFiles[f].refs = Cardinality(S)
  BY DEF Counted
<1>7. ASSUME NEW g \in File, g # f
      PROVE  Cardinality({q \in Proc : handle'[q] = g}) = openFiles[g].refs
  <2>1. {q \in Proc : handle'[q] = g} = {q \in Proc : handle[q] = g}
    BY <1>1, <1>7
  <2> QED BY <2>1 DEF Counted
<1> HIDE DEF S
<1> QED BY <1>3, <1>4, <1>5, <1>6, <1>7

LEMMA OpenStep ==
  ASSUME NEW n \in Nat, Processes, IInv(n), NEW p \in Proc, NEW f \in File, Open(p, f)
  PROVE  IInv(n)'
<1>1. PICK m \in Layouts : Whole(m, n)
  BY DEF IInv
<1>2. TypeOK /\ Counted
  BY DEF IInv
<1>3. /\ pc[p] = "idle" /\ handle[p] = NoFile
      /\ handle' = [handle EXCEPT ![p] = f]
      /\ openFiles' = [openFiles EXCEPT ![f] =
           IF @.refs = 0 THEN [refs |-> 1, length |-> disk[Start(f)].size]
                         ELSE [refs |-> @.refs + 1, length |-> @.length]]
      /\ UNCHANGED <<fatVars, disk, pc, locals, saved>>
  BY DEF Open
<1>4. UNCHANGED <<fat, avail, disk, pc, block, old, val, size, done, saved>>
  BY <1>3 DEF fatVars, locals
<1>5. /\ openFiles[f].refs \in Nat /\ openFiles[f].refs + 1 <= Cardinality(Proc)
      /\ Cardinality({q \in Proc : handle'[q] = f}) = openFiles[f].refs + 1
      /\ \A g \in File : g # f =>
           Cardinality({q \in Proc : handle'[q] = g}) = openFiles[g].refs
  BY <1>2, <1>3, HoldersAdd
<1>6. openFiles \in [File -> [refs : 0..Cardinality(Proc), length : Lengths \cup {0, InitSize}]]
      /\ handle \in [Proc -> File \cup {NoFile}] /\ disk \in [Block -> Contents]
  BY <1>2 DEF TypeOK
<1>7. Cardinality(Proc) \in Nat
  BY FS_CardinalityType DEF Processes
<1>8. disk[Start(f)].size \in Lengths \cup {0, InitSize}
  <2>1. Start(f) \in Block
    <3>1. /\ Start(f) \in Int /\ Start(f) <= NBlocks - 2 /\ Start(f) - InitSize >= FirstAvail
          /\ FirstAvail \in Int /\ FirstAvail >= 2 /\ InitSize \in Nat /\ NBlocks \in Nat
      BY Constants, Spaced
    <3> QED BY <3>1 DEF Block
  <2>2. disk[Start(f)] \in Contents
    BY <1>6, <2>1
  <2> QED BY <2>2 DEF Contents
<1>9. /\ openFiles'[f].refs = openFiles[f].refs + 1
      /\ openFiles'[f].length \in Lengths \cup {0, InitSize}
      /\ openFiles'[f] \in [refs : 0..Cardinality(Proc), length : Lengths \cup {0, InitSize}]
      /\ \A g \in File : g # f => openFiles'[g] = openFiles[g]
  <2>1. CASE openFiles[f].refs = 0
    <3>1. openFiles'[f] = [refs |-> 1, length |-> disk[Start(f)].size]
      BY <1>3, <1>6, <2>1
    <3>2. 1 \in 0..Cardinality(Proc)
      BY <1>5, <1>7, <2>1
    <3> QED BY <1>3, <1>5, <1>6, <1>8, <2>1, <3>1, <3>2
  <2>2. CASE openFiles[f].refs # 0
    <3>1. openFiles'[f] = [refs |-> openFiles[f].refs + 1, length |-> openFiles[f].length]
      BY <1>3, <1>6, <2>2
    <3>2. openFiles[f].refs + 1 \in 0..Cardinality(Proc)
      BY <1>5, <1>7
    <3> QED BY <1>3, <1>5, <1>6, <2>2, <3>1, <3>2
  <2> QED BY <2>1, <2>2
<1>10. TypeOK'
  <2>1. handle' \in [Proc -> File \cup {NoFile}]
    BY <1>3, <1>6
  <2>2. openFiles' \in [File -> [refs : 0..Cardinality(Proc), length : Lengths \cup {0, InitSize}]]
    <3>1. openFiles' = [g \in File |-> openFiles'[g]]
      BY <1>3, <1>6
    <3> QED BY <1>6, <1>9, <3>1
  <2> QED BY <1>2, <1>4, <2>1, <2>2 DEF TypeOK
<1>11. Counted'
  BY <1>2, <1>5, <1>9 DEF Counted
<1>12. Whole(m, n)'
  <2>1. \A q \in Proc : pc[q] # "idle" => handle'[q] = handle[q]
    BY <1>3, <1>6
  <2> QED BY <1>1, <1>3, <2>1, Stays
<1> QED BY <1>1, <1>10, <1>11, <1>12 DEF IInv

LEMMA HoldersRemove ==
  ASSUME Processes, TypeOK, Counted, NEW p \in Proc, handle[p] # NoFile,
         handle' = [handle EXCEPT ![p] = NoFile]
  PROVE  /\ handle[p] \in File
         /\ openFiles[handle[p]].refs \in Nat /\ openFiles[handle[p]].refs >= 1
         /\ Cardinality({q \in Proc : handle'[q] = handle[p]}) = openFiles[handle[p]].refs - 1
         /\ \A g \in File : g # handle[p] =>
              Cardinality({q \in Proc : handle'[q] = g}) = openFiles[g].refs
<1>1. handle \in [Proc -> File \cup {NoFile}] /\ NoFile \notin File /\ handle[p] \in File
  BY Constants DEF TypeOK, NoFile, Available
<1> DEFINE S == {q \in Proc : handle[q] = handle[p]}
           T == {q \in Proc : handle'[q] = handle[p]}
<1>2. T = S \ {p} /\ p \in S
  BY <1>1
<1>3. IsFiniteSet(S) /\ Cardinality(S) \in Nat
  <2>1. S \in SUBSET Proc
    OBVIOUS
  <2> QED BY <2>1, FS_Subset, FS_CardinalityType DEF Processes
<1>4. Cardinality(T) = Cardinality(S) - 1 /\ Cardinality(T) \in Nat
  <2> HIDE DEF S, T
  <2> QED BY <1>2, <1>3, FS_RemoveElement, FS_CardinalityType
<1>5. openFiles[handle[p]].refs = Cardinality(S)
  BY <1>1 DEF Counted
<1>6. ASSUME NEW g \in File, g # handle[p]
      PROVE  Cardinality({q \in Proc : handle'[q] = g}) = openFiles[g].refs
  <2>1. {q \in Proc : handle'[q] = g} = {q \in Proc : handle[q] = g}
    BY <1>1, <1>6
  <2> QED BY <2>1 DEF Counted
<1>7. Cardinality(T) = openFiles[handle[p]].refs - 1
  BY <1>4, <1>5
<1> HIDE DEF S
<1> QED BY <1>1, <1>3, <1>4, <1>5, <1>6, <1>7

LEMMA CloseStep ==
  ASSUME NEW n \in Nat, Processes, IInv(n), NEW p \in Proc, Close(p)
  PROVE  IInv(n)'
<1>1. PICK m \in Layouts : Whole(m, n)
  BY DEF IInv
<1>2. TypeOK /\ Counted
  BY DEF IInv
<1>3. /\ pc[p] = "idle" /\ handle[p] # NoFile
      /\ handle' = [handle EXCEPT ![p] = NoFile]
      /\ openFiles' = [openFiles EXCEPT ![handle[p]] =
           IF @.refs = 1 THEN Closed ELSE [refs |-> @.refs - 1, length |-> @.length]]
      /\ UNCHANGED <<fatVars, disk, pc, locals, saved>>
  BY DEF Close
<1>4. UNCHANGED <<fat, avail, disk, pc, block, old, val, size, done, saved>>
  BY <1>3 DEF fatVars, locals
<1>5. /\ handle[p] \in File
      /\ openFiles[handle[p]].refs \in Nat /\ openFiles[handle[p]].refs >= 1
      /\ Cardinality({q \in Proc : handle'[q] = handle[p]}) = openFiles[handle[p]].refs - 1
      /\ \A g \in File : g # handle[p] =>
           Cardinality({q \in Proc : handle'[q] = g}) = openFiles[g].refs
  BY <1>2, <1>3, HoldersRemove
<1>6. openFiles \in [File -> [refs : 0..Cardinality(Proc), length : Lengths \cup {0, InitSize}]]
      /\ handle \in [Proc -> File \cup {NoFile}]
  BY <1>2 DEF TypeOK
<1>7. Cardinality(Proc) \in Nat
  BY FS_CardinalityType DEF Processes
<1>8. PICK f \in File : f = handle[p]
  BY <1>5
<1>9. /\ openFiles'[f].refs = openFiles[f].refs - 1
      /\ openFiles'[f] \in [refs : 0..Cardinality(Proc), length : Lengths \cup {0, InitSize}]
      /\ \A g \in File : g # f => openFiles'[g] = openFiles[g]
  <2>1. CASE openFiles[f].refs = 1
    <3>1. openFiles'[f] = [refs |-> 0, length |-> 0]
      BY <1>3, <1>6, <1>8, <2>1 DEF Closed
    <3>2. 0 \in 0..Cardinality(Proc)
      BY <1>7
    <3> QED BY <1>3, <1>6, <1>8, <2>1, <3>1, <3>2
  <2>2. CASE openFiles[f].refs # 1
    <3>1. openFiles'[f] = [refs |-> openFiles[f].refs - 1, length |-> openFiles[f].length]
      BY <1>3, <1>6, <1>8, <2>2
    <3>2. openFiles[f].refs - 1 \in 0..Cardinality(Proc)
      BY <1>5, <1>6, <1>7, <1>8
    <3> QED BY <1>3, <1>6, <1>8, <2>2, <3>1, <3>2
  <2> QED BY <2>1, <2>2
<1>10. TypeOK'
  <2>1. handle' \in [Proc -> File \cup {NoFile}]
    BY <1>3, <1>6
  <2>2. openFiles' \in [File -> [refs : 0..Cardinality(Proc), length : Lengths \cup {0, InitSize}]]
    <3>1. openFiles' = [g \in File |-> openFiles'[g]]
      BY <1>3, <1>6
    <3> QED BY <1>6, <1>9, <3>1
  <2> QED BY <1>2, <1>4, <2>1, <2>2 DEF TypeOK
<1>11. Counted'
  BY <1>2, <1>5, <1>8, <1>9 DEF Counted
<1>12. Whole(m, n)'
  <2>1. \A q \in Proc : pc[q] # "idle" => handle'[q] = handle[q]
    BY <1>3, <1>6
  <2> QED BY <1>1, <1>3, <2>1, Stays
<1> QED BY <1>1, <1>10, <1>11, <1>12 DEF IInv

LEMMA LaidFacts ==
  ASSUME NEW n \in Nat, NEW m, Laid(m, n)
  PROVE  /\ \A k \in List : /\ Len(m[k]) \in Nat /\ Len(m[k]) <= NBlocks
                            /\ \A i \in 1..Len(m[k]) : m[k][i] \in Block /\ m[k][i] # 0
         /\ \A f \in File : f \in List /\ f # Available /\ Len(m[f]) >= 1 /\ Len(m[f]) <= n
                            /\ m[f][1] = Start(f)
         /\ \A k, l \in List, i, j \in Nat :
              i \in 1..Len(m[k]) /\ j \in 1..Len(m[l]) /\ m[k][i] = m[l][j] => k = l /\ i = j
<1>1. m \in Layouts
  BY DEF Laid
<1>2. ASSUME NEW k \in List PROVE Len(m[k]) \in Nat /\ Len(m[k]) <= NBlocks
  <2>1. m[k] \in Seq(Usable) /\ Len(m[k]) \in Nat
    BY <1>1, ListFacts
  <2>2. \A i, j \in 1..Len(m[k]) : m[k][i] = m[k][j] => i = j
    BY DEF Laid, Apart
  <2> QED BY <2>1, <2>2, ListBound
<1>3. ASSUME NEW k \in List, NEW i \in 1..Len(m[k]) PROVE m[k][i] \in Block /\ m[k][i] # 0
  <2>1. m[k][i] \in Usable
    BY <1>1, ListFacts
  <2> QED BY <2>1, Constants
<1>4. ASSUME NEW f \in File
      PROVE  f \in List /\ f # Available /\ Len(m[f]) >= 1 /\ Len(m[f]) <= n /\ m[f][1] = Start(f)
  <2>1. f \in List /\ f # Available /\ m[f] # << >> /\ Len(m[f]) <= n /\ m[f][1] = Start(f)
    BY Constants DEF List, Laid, Begun, Bounded
  <2> QED BY <1>1, <2>1, ListFacts
<1>5. \A k, l \in List, i, j \in Nat :
        i \in 1..Len(m[k]) /\ j \in 1..Len(m[l]) /\ m[k][i] = m[l][j] => k = l /\ i = j
  BY DEF Laid, Apart
<1> QED BY <1>2, <1>3, <1>4, <1>5

\* TypeOK after a step that changes neither the open files nor the handles.
LEMMA StepTypes ==
  ASSUME TypeOK, NEW p \in Proc,
         fat' \in [Block -> Block], avail' \in Block, disk' \in [Block -> Contents],
         UNCHANGED fileVars,
         NEW l \in {"idle", "find", "pop", "link", "data", "walk", "append", "return"},
         pc' = [pc EXCEPT ![p] = l],
         NEW b \in Block, block' = [block EXCEPT ![p] = b],
         NEW o \in Block, old' = [old EXCEPT ![p] = o],
         NEW v \in Block, val' = [val EXCEPT ![p] = v],
         NEW z \in Lengths \cup {0}, size' = [size EXCEPT ![p] = z],
         NEW d \in 0..NBlocks, done' = [done EXCEPT ![p] = d],
         saved' \in [File -> [by : Proc \cup {Mkfs}, size : Lengths \cup {0, InitSize}]]
  PROVE  TypeOK'
<1>1. UNCHANGED <<openFiles, handle>>
  BY DEF fileVars
<1>2. pc' \in [Proc -> {"idle", "find", "pop", "link", "data", "walk", "append", "return"}]
  BY DEF TypeOK
<1>3. block' \in [Proc -> Block] /\ old' \in [Proc -> Block] /\ val' \in [Proc -> Block]
  BY DEF TypeOK
<1>4. size' \in [Proc -> Lengths \cup {0}] /\ done' \in [Proc -> 0..NBlocks]
  BY DEF TypeOK
<1> QED BY <1>1, <1>2, <1>3, <1>4 DEF TypeOK

\* The references do not change with a write.
LEMMA StillCounted ==
  ASSUME Counted, UNCHANGED fileVars
  PROVE  Counted'
<1>1. UNCHANGED <<openFiles, handle>>
  BY DEF fileVars
<1> QED BY <1>1 DEF Counted

LEMMA WriteStep ==
  ASSUME NEW n \in Nat, Roomy(n), Processes, IInv(n), NEW p \in Proc, NEW l \in Lengths,
         Alone(p), Write(p, l)
  PROVE  IInv(n)'
<1>1. PICK m \in Layouts : Whole(m, n)
  BY DEF IInv
<1>2. TypeOK /\ Counted
  BY DEF IInv
<1>3. l \in Nat /\ l >= 1
  BY DEF Roomy
<1> DEFINE f == handle[p]
<1>4. f \in File
  BY <1>2 DEF Write, TypeOK, NoFile
<1>5. /\ Laid(m, n) /\ avail = m[Available][1]
      /\ \A k \in List : Follows(m[k], Reach(m, k, p, pc[p]))
  BY <1>1, <1>2, WriterFacts
<1>6. /\ Len(m[f]) \in Nat /\ Len(m[f]) >= 1 /\ m[f][1] = Start(f)
      /\ Start(f) \in Block /\ Start(f) # 0
  <2>1. f \in List /\ Len(m[f]) >= 1 /\ m[f][1] = Start(f)
    BY <1>4, <1>5, LaidFacts
  <2>2. 1 \in 1..Len(m[f]) /\ Len(m[f]) \in Nat
    BY <1>5, <2>1, LaidFacts
  <2> QED BY <1>5, <2>1, <2>2, LaidFacts
<1>7. /\ pc[p] = "idle"
      /\ pc' = [pc EXCEPT ![p] = "data"]
      /\ block' = [block EXCEPT ![p] = Start(f)]
      /\ old' = [old EXCEPT ![p] = 0]
      /\ size' = [size EXCEPT ![p] = l]
      /\ done' = [done EXCEPT ![p] = 0]
      /\ saved' = [saved EXCEPT ![f] = [by |-> p, size |-> l]]
      /\ UNCHANGED <<fat, avail, disk, val>> /\ UNCHANGED fileVars
  <2>1. Loop(p, Start(f), 0, l)
    BY DEF Write
  <2>2. pc' = [pc EXCEPT ![p] = "data"]
    <3>1. 0 < l /\ Start(f) # 0
      BY <1>3, <1>6
    <3> QED BY <2>1, <3>1, Zenon DEF Loop, Goto
  <2>3. UNCHANGED <<fatVars, disk, fileVars, val>>
    BY DEF Write
  <2>4. UNCHANGED <<fat, avail, disk, val>> /\ UNCHANGED fileVars
    BY <2>3 DEF fatVars
  <2> QED BY <2>2, <2>4 DEF Write, At
<1>8. 0 \in Block /\ 0 \in 0..NBlocks
  BY Constants
<1>9. TypeOK'
  <2>1. saved' \in [File -> [by : Proc \cup {Mkfs}, size : Lengths \cup {0, InitSize}]]
    BY <1>2, <1>4, <1>7 DEF TypeOK
  <2>2. fat' \in [Block -> Block] /\ avail' \in Block /\ disk' \in [Block -> Contents]
    BY <1>2, <1>7 DEF TypeOK
  <2>3. val[p] \in Block /\ val' = [val EXCEPT ![p] = val[p]]
    BY <1>2, <1>7 DEF TypeOK
  <2> QED BY <1>2, <1>6, <1>7, <1>8, <2>1, <2>2, <2>3, StepTypes
<1>10. Whole(m, n)'
  <2>1. /\ pc'[p] = "data" /\ block'[p] = Start(f) /\ size'[p] = l /\ done'[p] = 0
        /\ handle' = handle
    BY <1>2, <1>7 DEF TypeOK, fileVars
  <2>2. Position(p, m[handle[p]], m[Available], done[p], size[p])'
    <3>1. 0 < l /\ 0 < Len(m[f]) /\ 0 + 1 = 1
      BY <1>3, <1>6
    <3> QED BY <1>6, <2>1, <3>1 DEF Position
  <2>3. Holds(m[handle[p]], done[p], p, handle[p], size[p])'
    BY <2>1 DEF Holds
  <2>4. Links(m, p, "data")'
    <3>1. ASSUME NEW k \in List PROVE Reach(m, k, p, "data")' = Reach(m, k, p, pc[p])
      BY <1>7 DEF Reach
    <3> QED BY <1>5, <1>7, <3>1 DEF Follows, Links
  <2>5. saved' = [saved EXCEPT ![handle[p]] = [by |-> p, size |-> size'[p]]]
    BY <1>7, <2>1
  <2>6. Spares(p, m, m)
    BY <1>7 DEF Spares
  <2> QED BY <1>1, <1>2, <1>4, <1>5, <1>7, <2>1, <2>2, <2>3, <2>4, <2>5, <2>6, Continues
<1> QED BY <1>1, <1>2, <1>7, <1>9, <1>10, StillCounted DEF IInv

LEMMA FindStep ==
  ASSUME NEW n \in Nat, Roomy(n), Processes, IInv(n), NEW p \in Proc, Alone(p), Find(p)
  PROVE  IInv(n)'
<1>1. PICK m \in Layouts : Whole(m, n)
  BY DEF IInv
<1>2. TypeOK /\ Counted
  BY DEF IInv
<1> DEFINE f == handle[p]
<1>3. /\ pc[p] = "find" /\ pc' = [pc EXCEPT ![p] = "pop"]
      /\ val' = [val EXCEPT ![p] = avail]
      /\ UNCHANGED <<fat, avail, disk, block, old, size, done, saved>> /\ UNCHANGED fileVars
  BY DEF Find, At, Goto, fatVars
<1>4. /\ Laid(m, n) /\ avail = m[Available][1]
      /\ \A k \in List : Follows(m[k], Reach(m, k, p, pc[p]))
      /\ f \in File /\ size[p] \in Lengths
      /\ saved[f] = [by |-> p, size |-> size[p]]
      /\ Position(p, m[f], m[Available], done[p], size[p])
      /\ Holds(m[f], done[p], p, f, size[p])
  BY <1>1, <1>2, <1>3, WriterFacts
<1>5. TypeOK'
  <2>1. /\ fat' \in [Block -> Block] /\ avail' \in Block /\ disk' \in [Block -> Contents]
        /\ saved' \in [File -> [by : Proc \cup {Mkfs}, size : Lengths \cup {0, InitSize}]]
        /\ block[p] \in Block /\ block' = [block EXCEPT ![p] = block[p]]
        /\ old[p] \in Block /\ old' = [old EXCEPT ![p] = old[p]]
        /\ size[p] \in Lengths \cup {0} /\ size' = [size EXCEPT ![p] = size[p]]
        /\ done[p] \in 0..NBlocks /\ done' = [done EXCEPT ![p] = done[p]]
        /\ avail \in Block
    BY <1>2, <1>3 DEF TypeOK
  <2> QED BY <1>2, <1>3, <2>1, StepTypes
<1>6. Whole(m, n)'
  <2>1. /\ pc'[p] = "pop" /\ val'[p] = avail /\ handle' = handle
    BY <1>2, <1>3 DEF TypeOK, fileVars
  <2>2. Position(p, m[handle[p]], m[Available], done[p], size[p])'
    BY <1>3, <1>4, <2>1 DEF Position
  <2>3. Holds(m[handle[p]], done[p], p, handle[p], size[p])'
    BY <1>3, <1>4, <2>1 DEF Holds
  <2>4. Links(m, p, "pop")'
    <3>1. ASSUME NEW k \in List PROVE Reach(m, k, p, "pop")' = Reach(m, k, p, pc[p])
      BY <1>3 DEF Reach
    <3> QED BY <1>3, <1>4, <3>1 DEF Follows, Links
  <2>5. saved' = [saved EXCEPT ![handle[p]] = [by |-> p, size |-> size'[p]]]
    BY <1>2, <1>3, <1>4 DEF TypeOK
  <2>6. Spares(p, m, m)
    BY <1>3 DEF Spares
  <2> QED BY <1>1, <1>2, <1>3, <1>4, <2>1, <2>2, <2>3, <2>4, <2>5, <2>6, Continues
<1> QED BY <1>1, <1>2, <1>3, <1>5, <1>6, StillCounted DEF IInv

LEMMA PopStep ==
  ASSUME NEW n \in Nat, Roomy(n), Processes, IInv(n), NEW p \in Proc, Alone(p), Pop(p)
  PROVE  IInv(n)'
<1>1. PICK m \in Layouts : Whole(m, n)
  BY DEF IInv
<1>2. TypeOK /\ Counted
  BY DEF IInv
<1> DEFINE f == handle[p]
           d == done[p]
<1>3. /\ pc[p] = "pop" /\ pc' = [pc EXCEPT ![p] = "link"]
      /\ avail' = fat[avail] /\ block' = [block EXCEPT ![p] = val[p]]
      /\ UNCHANGED <<fat, disk, val, old, size, done, saved>> /\ UNCHANGED fileVars
  BY DEF Pop, At, Goto, fatVars
<1>4. /\ Laid(m, n) /\ avail = m[Available][1]
      /\ \A k \in List : Follows(m[k], Reach(m, k, p, pc[p]))
      /\ f \in File /\ size[p] \in Lengths
      /\ saved[f] = [by |-> p, size |-> size[p]]
      /\ Position(p, m[f], m[Available], done[p], size[p])
      /\ Holds(m[f], done[p], p, f, size[p])
  BY <1>1, <1>2, <1>3, WriterFacts
<1>5. /\ d \in Nat /\ size[p] \in 1..n /\ d < size[p] /\ d = Len(m[f])
      /\ old[p] = m[f][d] /\ val[p] = m[Available][1]
  <2>1. size[p] \in 1..n
    BY <1>4 DEF Roomy
  <2>2. d < size[p] /\ d = Len(m[f]) /\ old[p] = m[f][d] /\ val[p] = m[Available][1]
    BY <1>3, <1>4 DEF Position
  <2>3. Len(m[f]) \in Nat
    BY <1>4, LaidFacts
  <2> QED BY <2>1, <2>2, <2>3
<1>6. m[Available] # << >> /\ Len(m[Available]) >= 1
  BY <1>4, Room
<1>0. PICK t : t = Take(m, f)
  OBVIOUS
<1>7. Laid(t, n)
  <2>1. Len(m[f]) < n
    BY <1>5
  <2> QED BY <1>0, <1>4, <1>6, <2>1, TakeLaid
<1>8. Len(t[Available]) >= 1
  BY <1>7, Room
<1>9. /\ t \in Layouts
      /\ Len(t[Available]) = Len(m[Available]) - 1
      /\ \A i \in 1..(Len(m[Available]) - 1) : t[Available][i] = m[Available][i + 1]
      /\ Len(t[f]) = Len(m[f]) + 1
      /\ \A i \in 1..Len(m[f]) : t[f][i] = m[f][i]
      /\ t[f][Len(m[f]) + 1] = m[Available][1]
      /\ \A k \in List : k # Available /\ k # f => t[k] = m[k]
  BY <1>0, <1>1, <1>4, <1>6, TakeFacts
<1>10. f \in List /\ Available \in List /\ f # Available /\ d >= 1
       /\ \A k \in List : Len(m[k]) \in Nat
  <2>1. f \in List /\ f # Available /\ Len(m[f]) >= 1
    BY <1>4, LaidFacts
  <2>2. \A k \in List : Len(m[k]) \in Nat
    BY <1>4, LaidFacts
  <2> QED BY <1>5, <2>1, <2>2 DEF List
<1>11. /\ \A i \in 1..Len(m[Available]) :
            fat[m[Available][i]] = IF i < Len(m[Available]) THEN m[Available][i + 1] ELSE 0
       /\ \A k \in List : Reach(m, k, p, pc[p]) = Len(m[k])
       /\ \A k \in List : Follows(m[k], Len(m[k]))
  <2>1. \A k \in List : Reach(m, k, p, pc[p]) = Len(m[k])
    BY <1>3 DEF Reach
  <2>2. \A k \in List : Follows(m[k], Len(m[k]))
    BY <1>4, <2>1
  <2>3. Follows(m[Available], Len(m[Available]))
    BY <1>10, <2>2
  <2> QED BY <2>1, <2>2, <2>3 DEF Follows
<1>12. avail' = t[Available][1]
  <2>1. 1 < Len(m[Available]) /\ 1 \in 1..(Len(m[Available]) - 1) /\ 1 \in 1..Len(m[Available])
    BY <1>8, <1>9, <1>10
  <2>2. fat[m[Available][1]] = m[Available][2] /\ t[Available][1] = m[Available][2]
    BY <1>9, <1>11, <2>1
  <2> QED BY <1>3, <1>4, <2>2
<1>13. TypeOK'
  <2>1. /\ fat' \in [Block -> Block] /\ avail' \in Block /\ disk' \in [Block -> Contents]
        /\ saved' \in [File -> [by : Proc \cup {Mkfs}, size : Lengths \cup {0, InitSize}]]
        /\ val[p] \in Block /\ val' = [val EXCEPT ![p] = val[p]]
        /\ old[p] \in Block /\ old' = [old EXCEPT ![p] = old[p]]
        /\ size[p] \in Lengths \cup {0} /\ size' = [size EXCEPT ![p] = size[p]]
        /\ done[p] \in 0..NBlocks /\ done' = [done EXCEPT ![p] = done[p]]
    BY <1>2, <1>3 DEF TypeOK
  <2> QED BY <1>2, <1>3, <2>1, StepTypes
<1>14. Whole(t, n)'
  <2>1. pc'[p] = "link" /\ block'[p] = val[p] /\ handle' = handle
    BY <1>2, <1>3 DEF TypeOK, fileVars
  <2>2. Position(p, t[handle[p]], t[Available], done[p], size[p])'
    <3>1. /\ d < size[p] /\ d + 1 = Len(t[f]) /\ d # 0
          /\ old[p] = t[f][d] /\ block'[p] = t[f][d + 1]
      <4>1. d \in 1..Len(m[f]) /\ d # 0 /\ d < size[p]
        BY <1>5, <1>10
      <4>2. d + 1 = Len(t[f]) /\ t[f][d + 1] = val[p]
        BY <1>5, <1>9
      <4>3. old[p] = t[f][d]
        BY <1>5, <1>9, <4>1
      <4> QED BY <2>1, <4>1, <4>2, <4>3
    <3> QED BY <1>3, <2>1, <3>1 DEF Position
  <2>3. Holds(t[handle[p]], done[p], p, handle[p], size[p])'
    <3>1. \A i \in 1..d : t[f][i] = m[f][i]
      BY <1>5, <1>9
    <3> QED BY <1>3, <1>4, <2>1, <3>1 DEF Holds
  <2>4. Links(t, p, "link")'
    <3>1. ASSUME NEW k \in List PROVE Follows(t[k], Reach(t, k, p, "link"))'
      <4>1. CASE k = Available
        <5>1. Reach(t, k, p, "link")' = Len(m[Available]) - 1
          BY <1>9, <1>10, <2>1, <4>1 DEF Reach
        <5>2. ASSUME NEW i \in 1..(Len(m[Available]) - 1)
              PROVE  fat'[t[k][i]] = IF i < Len(m[Available]) - 1 THEN t[k][i + 1] ELSE 0
          <6>1. /\ t[k][i] = m[Available][i + 1] /\ i + 1 \in 1..Len(m[Available])
                /\ i + 1 < Len(m[Available]) <=> i < Len(m[Available]) - 1
                /\ i < Len(m[Available]) - 1 => i + 1 \in 1..(Len(m[Available]) - 1)
            BY <1>9, <1>10, <4>1, <5>2
          <6>2. fat[m[Available][i + 1]] =
                  IF i + 1 < Len(m[Available]) THEN m[Available][i + 1 + 1] ELSE 0
            BY <1>11, <6>1
          <6>3. i < Len(m[Available]) - 1 => t[k][i + 1] = m[Available][i + 1 + 1]
            BY <1>9, <4>1, <6>1
          <6> QED BY <1>3, <6>1, <6>2, <6>3
        <5> QED BY <5>1, <5>2 DEF Follows
      <4>2. CASE k = f
        <5>1. Reach(t, k, p, "link")' = d
          BY <1>5, <1>9, <2>1, <4>2 DEF Reach
        <5>2. ASSUME NEW i \in 1..d
              PROVE  fat'[t[f][i]] = IF i < d THEN t[f][i + 1] ELSE 0
          <6>1. Follows(m[f], d)
            BY <1>5, <1>10, <1>11
          <6>2. fat[m[f][i]] = IF i < d THEN m[f][i + 1] ELSE 0
            BY <6>1 DEF Follows
          <6>3. t[f][i] = m[f][i] /\ (i < d => t[f][i + 1] = m[f][i + 1])
            <7>1. i \in 1..Len(m[f]) /\ (i < d => i + 1 \in 1..Len(m[f]))
              BY <1>5
            <7> QED BY <1>9, <7>1
          <6> QED BY <1>3, <6>2, <6>3
        <5> QED BY <4>2, <5>1, <5>2 DEF Follows
      <4>3. CASE k # Available /\ k # f
        <5>1. t[k] = m[k] /\ Reach(t, k, p, "link")' = Len(m[k])
          BY <1>9, <2>1, <4>3 DEF Reach
        <5> QED BY <1>3, <1>11, <5>1 DEF Follows
      <4> QED BY <4>1, <4>2, <4>3
    <3> QED BY <3>1 DEF Links
  <2>5. saved' = [saved EXCEPT ![handle[p]] = [by |-> p, size |-> size'[p]]]
    BY <1>2, <1>3, <1>4 DEF TypeOK
  <2>6. Spares(p, m, t)
    <3>1. \A g \in File : g \in List /\ g # Available
      BY <1>4, LaidFacts
    <3> QED BY <1>3, <1>9, <3>1 DEF Spares
  <2>7. size'[p] \in Lengths /\ "link" # "idle"
    BY <1>3, <1>4
  <2>8. /\ handle[p] \in File /\ pc' = [pc EXCEPT ![p] = "link"] /\ UNCHANGED handle
        /\ t \in Layouts
    BY <1>3, <1>4, <1>9, <2>1
  <2> QED BY <1>1, <1>2, <1>7, <1>12, <2>2, <2>3, <2>4, <2>5, <2>6, <2>7, <2>8, Continues
<1> QED BY <1>2, <1>3, <1>9, <1>13, <1>14, StillCounted DEF IInv

LEMMA LinkStep ==
  ASSUME NEW n \in Nat, Roomy(n), Processes, IInv(n), NEW p \in Proc, Alone(p), Link(p)
  PROVE  IInv(n)'
<1>1. PICK m \in Layouts : Whole(m, n)
  BY DEF IInv
<1>2. TypeOK /\ Counted
  BY DEF IInv
<1> DEFINE f == handle[p]
           d == done[p]
<1>3. /\ pc[p] = "link" /\ pc' = [pc EXCEPT ![p] = "data"]
      /\ fat' = [fat EXCEPT ![block[p]] = 0, ![old[p]] = block[p]]
      /\ UNCHANGED <<avail, disk, block, val, old, size, done, saved>> /\ UNCHANGED fileVars
  BY DEF Link, At, Goto, locals
<1>4. /\ Laid(m, n) /\ avail = m[Available][1]
      /\ \A k \in List : Follows(m[k], Reach(m, k, p, pc[p]))
      /\ f \in File /\ size[p] \in Lengths
      /\ saved[f] = [by |-> p, size |-> size[p]]
      /\ Position(p, m[f], m[Available], done[p], size[p])
      /\ Holds(m[f], done[p], p, f, size[p])
  BY <1>1, <1>2, <1>3, WriterFacts
<1>5. /\ d < size[p] /\ d + 1 = Len(m[f]) /\ d # 0
      /\ old[p] = m[f][d] /\ block[p] = m[f][d + 1]
  BY <1>3, <1>4 DEF Position
<1>6. /\ f \in List /\ d \in Nat /\ d >= 1 /\ d < Len(m[f])
      /\ d \in 1..Len(m[f]) /\ d + 1 \in 1..Len(m[f])
      /\ \A k \in List : Len(m[k]) \in Nat
  <2>1. d \in 0..NBlocks
    BY <1>2 DEF TypeOK
  <2>2. d \in Nat
    BY <2>1, Constants
  <2>3. f \in List /\ \A k \in List : Len(m[k]) \in Nat
    BY <1>4, LaidFacts
  <2> QED BY <1>5, <2>2, <2>3
<1>7. old[p] \in Block /\ block[p] \in Block /\ old[p] # block[p]
      /\ fat \in [Block -> Block] /\ 0 \in Block
  <2>1. old[p] # block[p]
    <3>1. d # d + 1
      BY <1>6
    <3> QED BY <1>4, <1>5, <1>6, <3>1, LaidFacts
  <2> QED BY <1>2, <2>1, Constants DEF TypeOK
<1>8. /\ fat' \in [Block -> Block] /\ fat'[block[p]] = 0 /\ fat'[old[p]] = block[p]
      /\ \A b \in Block : b # block[p] /\ b # old[p] => fat'[b] = fat[b]
  BY <1>3, <1>7
<1>9. TypeOK'
  <2>1. /\ avail' \in Block /\ disk' \in [Block -> Contents]
        /\ saved' \in [File -> [by : Proc \cup {Mkfs}, size : Lengths \cup {0, InitSize}]]
        /\ block[p] \in Block /\ block' = [block EXCEPT ![p] = block[p]]
        /\ val[p] \in Block /\ val' = [val EXCEPT ![p] = val[p]]
        /\ old[p] \in Block /\ old' = [old EXCEPT ![p] = old[p]]
        /\ size[p] \in Lengths \cup {0} /\ size' = [size EXCEPT ![p] = size[p]]
        /\ done[p] \in 0..NBlocks /\ done' = [done EXCEPT ![p] = done[p]]
    BY <1>2, <1>3 DEF TypeOK
  <2>2. pc' = [pc EXCEPT ![p] = "data"] /\ UNCHANGED fileVars /\ fat' \in [Block -> Block]
    BY <1>3, <1>8
  <2> QED BY <1>2, <2>1, <2>2, StepTypes
<1>10. Links(m, p, "data")'
  <2>1. handle' = handle
    BY <1>3 DEF fileVars
  <2>2. ASSUME NEW k \in List PROVE Follows(m[k], Reach(m, k, p, "data"))'
    <3>1. Reach(m, k, p, "data")' = Len(m[k])
      BY DEF Reach
    <3>2. ASSUME NEW i \in 1..Len(m[k])
          PROVE  fat'[m[k][i]] = IF i < Len(m[k]) THEN m[k][i + 1] ELSE 0
      <4>0. Len(m[k]) \in Nat
        BY <1>6
      <4>1. m[k][i] \in Block /\ i \in Nat
        <5>1. m[k][i] \in Block
          BY <1>4, LaidFacts
        <5> QED BY <4>0, <5>1
      <4>6. ASSUME NEW j \in {d, d + 1}, k # f \/ i # j PROVE m[k][i] # m[f][j]
        <5>1. j \in Nat /\ j \in 1..Len(m[f])
          BY <1>6
        <5> QED BY <1>4, <1>6, <4>1, <4>6, <5>1, LaidFacts
      <4>2. CASE k = f /\ i = d
        BY <1>5, <1>6, <1>8, <4>2
      <4>3. CASE k = f /\ i = d + 1
        BY <1>5, <1>6, <1>8, <4>3
      <4>4. CASE k = f /\ i # d /\ i # d + 1
        <5>1. i < d /\ i \in 1..d
          BY <1>5, <1>6, <4>1, <4>4
        <5>2. m[k][i] # old[p] /\ m[k][i] # block[p]
          BY <1>5, <4>4, <4>6
        <5>3. Reach(m, f, p, pc[p]) = d
          BY <1>3, <1>5, <1>6 DEF Reach
        <5>4. Follows(m[f], d)
          BY <1>4, <1>6, <5>3
        <5>5. fat[m[f][i]] = m[f][i + 1]
          BY <5>1, <5>4 DEF Follows
        <5>6. i < Len(m[k])
          BY <1>6, <4>4, <5>1
        <5>7. fat'[m[k][i]] = fat[m[k][i]]
          BY <1>8, <4>1, <5>2
        <5> QED BY <4>4, <5>5, <5>6, <5>7
      <4>5. CASE k # f
        <5>1. m[k][i] # old[p] /\ m[k][i] # block[p]
          BY <1>5, <4>5, <4>6
        <5>2. Reach(m, k, p, pc[p]) = Len(m[k])
          BY <4>5 DEF Reach
        <5>3. fat[m[k][i]] = IF i < Len(m[k]) THEN m[k][i + 1] ELSE 0
          BY <1>4, <5>2 DEF Follows
        <5> QED BY <1>8, <4>1, <5>1, <5>3
      <4> QED BY <4>2, <4>3, <4>4, <4>5
    <3> QED BY <3>1, <3>2 DEF Follows
  <2> QED BY <2>1, <2>2 DEF Links
<1>11. Whole(m, n)'
  <2>1. pc'[p] = "data" /\ handle' = handle
    BY <1>2, <1>3 DEF TypeOK, fileVars
  <2>2. Position(p, m[handle[p]], m[Available], done[p], size[p])'
    BY <1>3, <1>5, <1>6, <2>1 DEF Position
  <2>3. Holds(m[handle[p]], done[p], p, handle[p], size[p])'
    BY <1>3, <1>4, <2>1 DEF Holds
  <2>5. saved' = [saved EXCEPT ![handle[p]] = [by |-> p, size |-> size'[p]]]
    BY <1>2, <1>3, <1>4 DEF TypeOK
  <2>6. Spares(p, m, m)
    BY <1>3 DEF Spares
  <2> QED BY <1>1, <1>2, <1>3, <1>4, <1>10, <2>1, <2>2, <2>3, <2>5, <2>6, Continues
<1> QED BY <1>1, <1>2, <1>3, <1>9, <1>11, StillCounted DEF IInv

LEMMA PutStep ==
  ASSUME NEW n \in Nat, Roomy(n), Processes, IInv(n), NEW p \in Proc, Alone(p), Put(p)
  PROVE  IInv(n)'
<1>1. PICK m \in Layouts : Whole(m, n)
  BY DEF IInv
<1>2. TypeOK /\ Counted
  BY DEF IInv
<1> DEFINE f == handle[p]
           d == done[p]
<1>3. /\ pc[p] = "data" /\ Loop(p, fat[block[p]], d + 1, size[p])
      /\ disk' = [disk EXCEPT ![block[p]] = Data(p, f, size[p], d + 1)]
      /\ old' = [old EXCEPT ![p] = block[p]]
      /\ block' = [block EXCEPT ![p] = fat[block[p]]]
      /\ done' = [done EXCEPT ![p] = d + 1]
      /\ UNCHANGED <<fat, avail, val, size, saved>> /\ UNCHANGED fileVars
  BY DEF Put, At, fatVars
<1>4. /\ Laid(m, n) /\ avail = m[Available][1]
      /\ \A k \in List : Follows(m[k], Reach(m, k, p, pc[p]))
      /\ f \in File /\ size[p] \in Lengths
      /\ saved[f] = [by |-> p, size |-> size[p]]
      /\ Position(p, m[f], m[Available], done[p], size[p])
      /\ Holds(m[f], done[p], p, f, size[p])
  BY <1>1, <1>2, <1>3, WriterFacts
<1>5. d < size[p] /\ d < Len(m[f]) /\ block[p] = m[f][d + 1]
  BY <1>3, <1>4 DEF Position
<1>6. /\ f \in List /\ d \in Nat /\ d + 1 \in 1..Len(m[f]) /\ d + 1 \in 0..NBlocks
      /\ size[p] \in Nat /\ \A k \in List : Len(m[k]) \in Nat
  <2>1. d \in 0..NBlocks
    BY <1>2 DEF TypeOK
  <2>2. d \in Nat
    BY <2>1, Constants
  <2>3. f \in List /\ Len(m[f]) <= NBlocks /\ \A k \in List : Len(m[k]) \in Nat
    BY <1>4, LaidFacts
  <2>4. size[p] \in Nat
    BY <1>4, LengthAssumption
  <2>5. NBlocks \in Nat
    BY Constants
  <2>6. d + 1 \in 1..Len(m[f]) /\ d + 1 \in 0..NBlocks
    <3>1. Len(m[f]) \in Nat
      BY <2>3
    <3> QED BY <1>5, <2>2, <2>3, <2>5, <3>1
  <2> QED BY <2>2, <2>3, <2>4, <2>6
<1>7. /\ block[p] \in Block /\ fat[block[p]] \in Block
      /\ fat[block[p]] = IF d + 1 < Len(m[f]) THEN m[f][d + 2] ELSE 0
      /\ d + 1 < Len(m[f]) => fat[block[p]] # 0
  <2>1. block[p] \in Block /\ fat[block[p]] \in Block
    BY <1>2 DEF TypeOK
  <2>2. Reach(m, f, p, pc[p]) = Len(m[f])
    BY <1>3 DEF Reach
  <2>3. Follows(m[f], Len(m[f]))
    BY <1>4, <1>6, <2>2
  <2>4. fat[m[f][d + 1]] = IF d + 1 < Len(m[f]) THEN m[f][d + 1 + 1] ELSE 0
    BY <1>6, <2>3 DEF Follows
  <2>5. d + 1 + 1 = d + 2
    BY <1>6
  <2>6. d + 1 < Len(m[f]) => m[f][d + 2] # 0
    <3>1. d + 1 < Len(m[f]) => d + 2 \in 1..Len(m[f])
      BY <1>6
    <3> QED BY <1>4, <1>6, <3>1, LaidFacts
  <2> QED BY <1>5, <2>1, <2>4, <2>5, <2>6
<1>8. \E l \in {"find", "data", "walk", "return"} :
        /\ pc' = [pc EXCEPT ![p] = l]
        /\ l = "data" => d + 1 < size[p] /\ d + 1 < Len(m[f])
        /\ l = "find" => d + 1 < size[p] /\ d + 1 = Len(m[f])
        /\ l = "walk" => d + 1 = size[p] /\ d + 1 < Len(m[f])
        /\ l = "return" => d + 1 = size[p] /\ d + 1 = Len(m[f])
  <2>1. /\ d + 1 < size[p] \/ d + 1 = size[p]
        /\ d + 1 < Len(m[f]) \/ d + 1 = Len(m[f])
        /\ ~(d + 1 = size[p] /\ d + 1 < size[p])
        /\ d + 1 = Len(m[f]) => ~(d + 1 < Len(m[f]))
    BY <1>5, <1>6
  <2>2. CASE d + 1 < size[p] /\ d + 1 < Len(m[f])
    <3>1. pc' = [pc EXCEPT ![p] = "data"]
      BY <1>3, <1>7, <2>2, Zenon DEF Loop, Goto
    <3> QED BY <2>2, <3>1
  <2>3. CASE d + 1 < size[p] /\ d + 1 = Len(m[f])
    <3>1. pc' = [pc EXCEPT ![p] = "find"]
      BY <1>3, <1>7, <2>1, <2>3, Zenon DEF Loop, Goto
    <3> QED BY <2>3, <3>1
  <2>4. CASE d + 1 = size[p] /\ d + 1 < Len(m[f])
    <3>1. pc' = [pc EXCEPT ![p] = "walk"]
      BY <1>3, <1>7, <2>1, <2>4, Zenon DEF Loop, Goto
    <3> QED BY <2>4, <3>1
  <2>5. CASE d + 1 = size[p] /\ d + 1 = Len(m[f])
    <3>1. pc' = [pc EXCEPT ![p] = "return"]
      BY <1>3, <1>7, <2>1, <2>5, Zenon DEF Loop, Goto
    <3> QED BY <2>5, <3>1
  <2> QED BY <2>1, <2>2, <2>3, <2>4, <2>5
<1>9. PICK l \in {"find", "data", "walk", "return"} :
        /\ pc' = [pc EXCEPT ![p] = l]
        /\ l = "data" => d + 1 < size[p] /\ d + 1 < Len(m[f])
        /\ l = "find" => d + 1 < size[p] /\ d + 1 = Len(m[f])
        /\ l = "walk" => d + 1 = size[p] /\ d + 1 < Len(m[f])
        /\ l = "return" => d + 1 = size[p] /\ d + 1 = Len(m[f])
  BY <1>8
<1>10. /\ disk' \in [Block -> Contents] /\ disk'[block[p]] = Data(p, f, size[p], d + 1)
       /\ \A b \in Block : b # block[p] => disk'[b] = disk[b]
  <2>1. Data(p, f, size[p], d + 1) \in Contents
    BY <1>4, <1>6 DEF Data, Contents
  <2>2. disk \in [Block -> Contents]
    BY <1>2 DEF TypeOK
  <2> QED BY <1>3, <1>7, <2>1, <2>2
<1>11. TypeOK'
  <2>1. /\ fat' \in [Block -> Block] /\ avail' \in Block
        /\ saved' \in [File -> [by : Proc \cup {Mkfs}, size : Lengths \cup {0, InitSize}]]
        /\ val[p] \in Block /\ val' = [val EXCEPT ![p] = val[p]]
        /\ size[p] \in Lengths \cup {0} /\ size' = [size EXCEPT ![p] = size[p]]
    BY <1>2, <1>3 DEF TypeOK
  <2>2. l \in {"idle", "find", "pop", "link", "data", "walk", "append", "return"}
    OBVIOUS
  <2>3. /\ pc' = [pc EXCEPT ![p] = l] /\ done' = [done EXCEPT ![p] = d + 1]
        /\ block' = [block EXCEPT ![p] = fat[block[p]]] /\ old' = [old EXCEPT ![p] = block[p]]
        /\ d + 1 \in 0..NBlocks /\ block[p] \in Block /\ fat[block[p]] \in Block
        /\ disk' \in [Block -> Contents] /\ UNCHANGED fileVars
    BY <1>3, <1>6, <1>7, <1>9, <1>10
  <2> QED BY <1>2, <2>1, <2>2, <2>3, StepTypes
<1>12. Whole(m, n)'
  <2>1. /\ pc'[p] = l /\ handle' = handle /\ done'[p] = d + 1
        /\ old'[p] = m[f][d + 1] /\ block'[p] = fat[block[p]]
    BY <1>2, <1>3, <1>5, <1>9 DEF TypeOK, fileVars
  <2>2. Position(p, m[handle[p]], m[Available], done[p], size[p])'
    <3>1. l # "idle" /\ d + 1 + 1 = d + 2
      BY <1>6
    <3>2. size' = size
      BY <1>3
    <3>3. CASE l = "data"
      BY <1>7, <1>9, <2>1, <3>1, <3>2, <3>3 DEF Position
    <3>4. CASE l = "find"
      BY <1>7, <1>9, <2>1, <3>1, <3>2, <3>4 DEF Position
    <3>5. CASE l = "walk"
      BY <1>7, <1>9, <2>1, <3>1, <3>2, <3>5 DEF Position
    <3>6. CASE l = "return"
      BY <1>9, <2>1, <3>2, <3>6 DEF Position
    <3> QED BY <3>3, <3>4, <3>5, <3>6
  <2>3. Holds(m[handle[p]], done[p], p, handle[p], size[p])'
    <3>1. ASSUME NEW i \in 1..(d + 1) PROVE disk'[m[f][i]] = Data(p, f, size[p], i)
      <4>1. CASE i = d + 1
        BY <1>5, <1>10, <4>1
      <4>2. CASE i # d + 1
        <5>1. i \in 1..d /\ i \in 1..Len(m[f]) /\ i \in Nat
          BY <1>5, <1>6, <4>2
        <5>2. m[f][i] \in Block /\ m[f][i] # block[p]
          BY <1>4, <1>5, <1>6, <4>2, <5>1, LaidFacts
        <5>3. disk[m[f][i]] = Data(p, f, size[p], i)
          BY <1>4, <5>1 DEF Holds
        <5> QED BY <1>10, <5>2, <5>3
      <4> QED BY <4>1, <4>2
    <3> QED BY <1>3, <2>1, <3>1 DEF Holds, Data
  <2>4. Links(m, p, l)'
    <3>1. ASSUME NEW k \in List PROVE Reach(m, k, p, l)' = Reach(m, k, p, pc[p])
      BY <1>3 DEF Reach
    <3> QED BY <1>3, <1>4, <3>1 DEF Follows, Links
  <2>5. saved' = [saved EXCEPT ![handle[p]] = [by |-> p, size |-> size'[p]]]
    BY <1>2, <1>3, <1>4 DEF TypeOK
  <2>6. Spares(p, m, m)
    <3>1. ASSUME NEW g \in File, g # f, NEW i \in 1..Len(m[g])
          PROVE  disk'[m[g][i]] = disk[m[g][i]]
      <4>1. g \in List /\ i \in Nat
        BY <1>4, <1>6, LaidFacts
      <4>2. m[g][i] \in Block /\ m[g][i] # block[p]
        BY <1>4, <1>5, <1>6, <3>1, <4>1, LaidFacts
      <4> QED BY <1>10, <4>2
    <3> QED BY <3>1 DEF Spares
  <2>7. l # "idle" /\ avail' = m[Available][1] /\ size'[p] \in Lengths
    BY <1>3, <1>4
  <2> QED BY <1>1, <1>2, <1>4, <1>9, <2>1, <2>2, <2>3, <2>4, <2>5, <2>6, <2>7, Continues
<1> QED BY <1>1, <1>2, <1>3, <1>11, <1>12, StillCounted DEF IInv

\* Chain, from the first block of a list on.
LEMMA ChainOfList ==
  ASSUME NEW n \in Nat, NEW m, Laid(m, n), NEW k \in List,
         NEW j \in 1..Len(m[k]), Follows(m[k], j)
  PROVE  /\ Chain(m[k][1]) = [i \in 1..j |-> m[k][i]]
         /\ Len(Chain(m[k][1])) = j
         /\ j = Len(m[k]) => Chain(m[k][1]) = m[k]
<1>1. m[k] \in Seq(Usable) /\ Len(m[k]) \in Nat /\ m[k] = [i \in 1..Len(m[k]) |-> m[k][i]]
  <2>1. m[k] \in Seq(Usable)
    BY DEF Laid, Layouts
  <2> QED BY <2>1, LenProperties
<1>2. \A i, l \in 1..Len(m[k]) : m[k][i] = m[k][l] => i = l
  BY DEF Laid, Apart
<1>3. Chain(m[k][1]) = [i \in 1..j |-> m[k][i]]
  BY <1>1, <1>2, ChainIs
<1>4. Len([i \in 1..j |-> m[k][i]]) = j
  BY <1>1
<1> QED BY <1>1, <1>3, <1>4

LEMMA WalkStep ==
  ASSUME NEW n \in Nat, Roomy(n), Processes, IInv(n), NEW p \in Proc, Alone(p), Walk(p)
  PROVE  IInv(n)'
<1>1. PICK m \in Layouts : Whole(m, n)
  BY DEF IInv
<1>2. TypeOK /\ Counted
  BY DEF IInv
<1> DEFINE f == handle[p]
           r == m[Available]
           end == m[Available][Len(m[Available])]
<1>3. pc[p] = "walk"
  BY DEF Walk, At
<1>4. /\ Laid(m, n) /\ avail = m[Available][1]
      /\ \A k \in List : Follows(m[k], Reach(m, k, p, pc[p]))
      /\ f \in File /\ size[p] \in Lengths
      /\ saved[f] = [by |-> p, size |-> size[p]]
      /\ Position(p, m[f], m[Available], done[p], size[p])
      /\ Holds(m[f], done[p], p, f, size[p])
  BY <1>1, <1>2, <1>3, WriterFacts
<1>5. /\ Len(r) \in Nat /\ 1 \in 1..Len(r) /\ Len(r) \in 1..Len(r)
      /\ avail # 0 /\ end \in Block /\ Available \in List
  <2>1. Len(r) >= 1 /\ Available \in List
    BY <1>4, Room DEF List
  <2>2. Len(r) \in Nat
    BY <1>4, <2>1, LaidFacts
  <2>3. 1 \in 1..Len(r) /\ Len(r) \in 1..Len(r)
    BY <2>1, <2>2
  <2> QED BY <1>4, <2>1, <2>2, <2>3, LaidFacts
<1>6. Chain(avail) = r /\ fat[end] = 0
  <2>1. Reach(m, Available, p, pc[p]) = Len(r)
    BY <1>3 DEF Reach
  <2>2. Follows(r, Len(r))
    BY <1>4, <1>5, <2>1
  <2>3. Chain(m[Available][1]) = m[Available]
    <3>1. /\ Len(m[Available]) \in 1..Len(m[Available])
          /\ Follows(m[Available], Len(m[Available]))
      BY <1>5, <2>2
    <3>2. Laid(m, n) /\ Available \in List
      BY <1>4, <1>5
    <3> QED BY <3>1, <3>2, ChainOfList
  <2>4. fat[end] = 0
    BY <1>5, <2>2 DEF Follows
  <2> QED BY <1>4, <2>3, <2>4
<1>7. /\ pc' = [pc EXCEPT ![p] = "append"]
      /\ val' = [val EXCEPT ![p] = end]
      /\ UNCHANGED <<fat, avail, disk, block, old, size, done, saved>> /\ UNCHANGED fileVars
  BY <1>5, <1>6 DEF Walk, Goto, fatVars
<1>8. TypeOK'
  <2>1. /\ fat' \in [Block -> Block] /\ avail' \in Block /\ disk' \in [Block -> Contents]
        /\ saved' \in [File -> [by : Proc \cup {Mkfs}, size : Lengths \cup {0, InitSize}]]
        /\ block[p] \in Block /\ block' = [block EXCEPT ![p] = block[p]]
        /\ old[p] \in Block /\ old' = [old EXCEPT ![p] = old[p]]
        /\ size[p] \in Lengths \cup {0} /\ size' = [size EXCEPT ![p] = size[p]]
        /\ done[p] \in 0..NBlocks /\ done' = [done EXCEPT ![p] = done[p]]
    BY <1>2, <1>7 DEF TypeOK
  <2> HIDE DEF end
  <2> QED BY <1>2, <1>5, <1>7, <2>1, StepTypes
<1>9. Whole(m, n)'
  <2>1. pc'[p] = "append" /\ val'[p] = end /\ handle' = handle
    BY <1>2, <1>7 DEF TypeOK, fileVars
  <2>2. Position(p, m[handle[p]], m[Available], done[p], size[p])'
    BY <1>3, <1>4, <1>7, <2>1 DEF Position
  <2>3. Holds(m[handle[p]], done[p], p, handle[p], size[p])'
    BY <1>4, <1>7, <2>1 DEF Holds
  <2>4. Links(m, p, "append")'
    <3>1. ASSUME NEW k \in List PROVE Reach(m, k, p, "append")' = Reach(m, k, p, pc[p])
      BY <1>3 DEF Reach
    <3> QED BY <1>4, <1>7, <3>1 DEF Follows, Links
  <2>5. saved' = [saved EXCEPT ![handle[p]] = [by |-> p, size |-> size'[p]]]
    BY <1>2, <1>4, <1>7 DEF TypeOK
  <2>6. Spares(p, m, m)
    BY <1>7 DEF Spares
  <2>7. /\ avail' = m[Available][1] /\ size'[p] \in Lengths /\ handle[p] \in File
        /\ pc' = [pc EXCEPT ![p] = "append"] /\ UNCHANGED handle
    BY <1>4, <1>7, <2>1
  <2> QED BY <1>1, <1>2, <1>4, <2>2, <2>3, <2>4, <2>5, <2>6, <2>7, Continues
<1> QED BY <1>1, <1>2, <1>7, <1>8, <1>9, StillCounted DEF IInv

LEMMA AppendRestStep ==
  ASSUME NEW n \in Nat, Roomy(n), Processes, IInv(n), NEW p \in Proc, Alone(p), AppendRest(p)
  PROVE  IInv(n)'
<1>1. PICK m \in Layouts : Whole(m, n)
  BY DEF IInv
<1>2. TypeOK /\ Counted
  BY DEF IInv
<1>3. PICK f, d : f = handle[p] /\ d = done[p]
  OBVIOUS
<1>4. /\ pc[p] = "append" /\ pc' = [pc EXCEPT ![p] = "return"]
      /\ fat' = [fat EXCEPT ![val[p]] = block[p], ![old[p]] = 0]
      /\ UNCHANGED <<avail, disk, block, val, old, size, done, saved>> /\ UNCHANGED fileVars
  BY DEF AppendRest, At, Goto, locals
<1>5. /\ Laid(m, n) /\ avail = m[Available][1]
      /\ \A k \in List : Follows(m[k], Reach(m, k, p, pc[p]))
      /\ f \in File /\ size[p] \in Lengths
      /\ saved[f] = [by |-> p, size |-> size[p]]
      /\ Position(p, m[f], m[Available], d, size[p])
      /\ Holds(m[f], d, p, f, size[p])
  BY <1>1, <1>2, <1>3, <1>4, WriterFacts
<1>6. PICK a, b : a = Len(m[Available]) /\ b = Len(m[f])
  OBVIOUS
<1>7. /\ d = size[p] /\ d < b /\ old[p] = m[f][d] /\ block[p] = m[f][d + 1]
      /\ val[p] = m[Available][a]
  BY <1>4, <1>5, <1>6 DEF Position
<1>8. /\ f \in List /\ Available \in List /\ f # Available
      /\ a \in Nat /\ b \in Nat /\ d \in Nat /\ a >= 1 /\ d >= 1
      /\ a \in 1..a /\ d \in 1..b /\ d + 1 \in (d + 1)..b
      /\ \A k \in List : Len(m[k]) \in Nat
  <2>1. d >= 1 /\ d \in Nat
    BY <1>5, <1>7 DEF Roomy
  <2>2. a >= 1
    BY <1>5, <1>6, Room
  <2>3. /\ f \in List /\ f # Available /\ Available \in List
        /\ \A k \in List : Len(m[k]) \in Nat
    BY <1>5, LaidFacts DEF List
  <2> QED BY <1>6, <1>7, <2>1, <2>2, <2>3
<1>9. PICK t : t = GiveBack(m, f, d)
  OBVIOUS
<1>10. Laid(t, n)
  BY <1>5, <1>6, <1>7, <1>8, <1>9, GiveBackLaid
<1>11. /\ t \in Layouts
       /\ Len(t[Available]) = a + b - d
       /\ \A i \in 1..a : t[Available][i] = m[Available][i]
       /\ \A i \in (d + 1)..b : t[Available][a + i - d] = m[f][i]
       /\ Len(t[f]) = d
       /\ \A i \in 1..d : t[f][i] = m[f][i]
       /\ \A k \in List : k # Available /\ k # f => t[k] = m[k]
  <2>1. d >= 1 /\ d < Len(m[f]) /\ d \in Nat
    BY <1>6, <1>7, <1>8
  <2>2. /\ GiveBack(m, f, d) \in Layouts
        /\ Len(GiveBack(m, f, d)[Available]) = Len(m[Available]) + Len(m[f]) - d
        /\ \A i \in 1..Len(m[Available]) : GiveBack(m, f, d)[Available][i] = m[Available][i]
        /\ \A i \in (d + 1)..Len(m[f]) :
             GiveBack(m, f, d)[Available][Len(m[Available]) + i - d] = m[f][i]
        /\ Len(GiveBack(m, f, d)[f]) = d
        /\ \A i \in 1..d : GiveBack(m, f, d)[f][i] = m[f][i]
        /\ \A k \in List : k # Available /\ k # f => GiveBack(m, f, d)[k] = m[k]
    BY <1>1, <1>5, <2>1, GiveBackFacts
  <2> QED BY <1>6, <1>9, <2>2
<1>12. \A k \in List : \A i \in 1..Len(m[k]) :
         fat[m[k][i]] = IF i < Len(m[k]) THEN m[k][i + 1] ELSE 0
  <2>1. \A k \in List : Reach(m, k, p, pc[p]) = Len(m[k])
    BY <1>4 DEF Reach
  <2>2. \A k \in List : Follows(m[k], Len(m[k]))
    BY <1>5, <2>1
  <2> QED BY <2>2 DEF Follows
<1>13. /\ old[p] \in Block /\ val[p] \in Block /\ block[p] \in Block /\ 0 \in Block
       /\ old[p] # val[p] /\ fat \in [Block -> Block]
  <2>1. old[p] # val[p]
    BY <1>5, <1>6, <1>7, <1>8, LaidFacts
  <2> QED BY <1>2, <2>1, Constants DEF TypeOK
<1>14. /\ fat' \in [Block -> Block] /\ fat'[val[p]] = block[p] /\ fat'[old[p]] = 0
       /\ \A c \in Block : c # val[p] /\ c # old[p] => fat'[c] = fat[c]
  BY <1>4, <1>13
\* The links of all blocks but the last available one and the file's last one stay.
<1>15. ASSUME NEW k \in List, NEW i \in 1..Len(m[k]),
              ~(k = Available /\ i = a), ~(k = f /\ i = d)
       PROVE  fat'[m[k][i]] = IF i < Len(m[k]) THEN m[k][i + 1] ELSE 0
  <2>1. i \in Nat /\ m[k][i] \in Block
    <3>1. m[k][i] \in Block /\ Len(m[k]) \in Nat
      BY <1>5, LaidFacts
    <3> QED BY <3>1
  <2>2. m[k][i] # val[p]
    <3>1. a \in 1..Len(m[Available]) /\ val[p] = m[Available][a]
      BY <1>6, <1>7, <1>8
    <3> QED BY <1>5, <1>8, <1>15, <2>1, <3>1, LaidFacts
  <2>3. m[k][i] # old[p]
    BY <1>5, <1>6, <1>7, <1>8, <1>15, <2>1, LaidFacts
  <2> QED BY <1>12, <1>14, <2>1, <2>2, <2>3
<1>16. avail' = t[Available][1]
  <2>1. 1 \in 1..a
    BY <1>8
  <2> QED BY <1>4, <1>5, <1>11, <2>1
<1>17. TypeOK'
  <2>1. /\ avail' \in Block /\ disk' \in [Block -> Contents]
        /\ saved' \in [File -> [by : Proc \cup {Mkfs}, size : Lengths \cup {0, InitSize}]]
        /\ block[p] \in Block /\ block' = [block EXCEPT ![p] = block[p]]
        /\ val[p] \in Block /\ val' = [val EXCEPT ![p] = val[p]]
        /\ old[p] \in Block /\ old' = [old EXCEPT ![p] = old[p]]
        /\ size[p] \in Lengths \cup {0} /\ size' = [size EXCEPT ![p] = size[p]]
        /\ done[p] \in 0..NBlocks /\ done' = [done EXCEPT ![p] = done[p]]
    BY <1>2, <1>4 DEF TypeOK
  <2>2. pc' = [pc EXCEPT ![p] = "return"] /\ UNCHANGED fileVars /\ fat' \in [Block -> Block]
    BY <1>4, <1>14
  <2> QED BY <1>2, <2>1, <2>2, StepTypes
<1>18. Links(t, p, "return")'
  <2>1. ASSUME NEW k \in List PROVE Follows(t[k], Reach(t, k, p, "return"))'
    <3>1. Reach(t, k, p, "return")' = Len(t[k])
      BY DEF Reach
    <3>2. CASE k = Available
      <4>1. ASSUME NEW i \in 1..(a + b - d)
            PROVE  fat'[t[k][i]] = IF i < a + b - d THEN t[k][i + 1] ELSE 0
        <5>1. CASE i < a
          <6>1. i \in 1..a /\ i + 1 \in 1..a /\ i # a /\ i < a + b - d
            BY <1>7, <1>8, <5>1
          <6>2. fat'[m[k][i]] = m[k][i + 1]
            BY <1>6, <1>8, <1>15, <3>2, <5>1, <6>1
          <6> QED BY <1>11, <3>2, <6>1, <6>2
        <5>2. CASE i = a
          <6>1. i \in 1..a /\ i < a + b - d /\ a + (d + 1) - d = i + 1
            BY <1>7, <1>8, <5>2
          <6>2. t[k][i + 1] = m[f][d + 1]
            BY <1>8, <1>11, <3>2, <6>1
          <6>3. t[k][i] = val[p]
            BY <1>7, <1>11, <3>2, <5>2, <6>1
          <6> QED BY <1>7, <1>14, <6>1, <6>2, <6>3
        <5>3. CASE i > a
          <6>1. PICK j : j = i - a + d
            OBVIOUS
          <6>2. /\ j \in (d + 1)..b /\ a + j - d = i /\ j # d /\ j \in 1..b
                /\ j < b <=> i < a + b - d
                /\ j < b => j + 1 \in (d + 1)..b /\ a + (j + 1) - d = i + 1
            <7>1. a \in Nat /\ b \in Nat /\ d \in Nat /\ d < b /\ i \in 1..(a + b - d) /\ i > a
              BY <1>7, <1>8, <5>3
            <7> QED BY <6>1, <7>1
          <6>3. t[k][i] = m[f][j] /\ (j < b => t[k][i + 1] = m[f][j + 1])
            BY <1>11, <3>2, <6>2
          <6>4. fat'[m[f][j]] = IF j < b THEN m[f][j + 1] ELSE 0
            BY <1>6, <1>8, <1>15, <6>2
          <6> QED BY <6>2, <6>3, <6>4
        <5> QED BY <1>8, <5>1, <5>2, <5>3
      <4> QED BY <1>11, <3>1, <3>2, <4>1 DEF Follows
    <3>3. CASE k = f
      <4>1. ASSUME NEW i \in 1..d PROVE fat'[t[f][i]] = IF i < d THEN t[f][i + 1] ELSE 0
        <5>1. CASE i = d
          BY <1>7, <1>11, <1>14, <5>1
        <5>2. CASE i # d
          <6>1. i < d /\ i \in 1..b /\ i < b /\ i + 1 \in 1..d
            BY <1>7, <1>8, <5>2
          <6>2. fat'[m[f][i]] = m[f][i + 1]
            BY <1>6, <1>8, <1>15, <5>2, <6>1
          <6> QED BY <1>11, <6>1, <6>2
        <5> QED BY <5>1, <5>2
      <4> QED BY <1>11, <3>1, <3>3, <4>1 DEF Follows
    <3>4. CASE k # Available /\ k # f
      <4>1. t[k] = m[k]
        BY <1>11, <3>4
      <4> QED BY <1>15, <3>1, <3>4, <4>1 DEF Follows
    <3> QED BY <3>2, <3>3, <3>4
  <2> QED BY <2>1 DEF Links
<1>19. Whole(t, n)'
  <2>1. pc'[p] = "return" /\ handle' = handle
    BY <1>2, <1>4 DEF TypeOK, fileVars
  <2>2. Position(p, t[handle[p]], t[Available], done[p], size[p])'
    BY <1>3, <1>4, <1>7, <1>11, <2>1 DEF Position
  <2>3. Holds(t[handle[p]], done[p], p, handle[p], size[p])'
    BY <1>3, <1>4, <1>5, <1>11, <2>1 DEF Holds
  <2>4. saved' = [saved EXCEPT ![handle[p]] = [by |-> p, size |-> size'[p]]]
    BY <1>2, <1>3, <1>4, <1>5 DEF TypeOK
  <2>5. Spares(p, m, t)
    <3>1. \A g \in File : g \in List /\ g # Available
      BY <1>5, LaidFacts
    <3> QED BY <1>3, <1>4, <1>11, <3>1 DEF Spares
  <2>6. size'[p] \in Lengths /\ "return" # "idle"
    BY <1>4, <1>5
  <2>7. /\ handle[p] \in File /\ pc' = [pc EXCEPT ![p] = "return"] /\ UNCHANGED handle
        /\ t \in Layouts
    BY <1>3, <1>4, <1>5, <1>11, <2>1
  <2> QED BY <1>1, <1>2, <1>10, <1>16, <1>18, <2>2, <2>3, <2>4, <2>5, <2>6, <2>7, Continues
<1> QED BY <1>1, <1>2, <1>4, <1>11, <1>17, <1>19, StillCounted DEF IInv

LEMMA ReturnStep ==
  ASSUME NEW n \in Nat, Roomy(n), Processes, IInv(n), NEW p \in Proc, Alone(p), Return(p)
  PROVE  IInv(n)'
<1>1. PICK m \in Layouts : Whole(m, n)
  BY DEF IInv
<1>2. TypeOK /\ Counted
  BY DEF IInv
<1> DEFINE f == handle[p]
<1>3. /\ pc[p] = "return" /\ pc' = [pc EXCEPT ![p] = "idle"]
      /\ block' = [block EXCEPT ![p] = 0] /\ old' = [old EXCEPT ![p] = 0]
      /\ val' = [val EXCEPT ![p] = 0]
      /\ size' = [size EXCEPT ![p] = 0] /\ done' = [done EXCEPT ![p] = 0]
      /\ UNCHANGED <<fat, avail, disk, saved>> /\ UNCHANGED fileVars
  BY DEF Return, At, Goto, fatVars
<1>4. /\ Laid(m, n) /\ avail = m[Available][1]
      /\ \A k \in List : Follows(m[k], Reach(m, k, p, pc[p]))
      /\ f \in File /\ size[p] \in Lengths
      /\ saved[f] = [by |-> p, size |-> size[p]]
      /\ Position(p, m[f], m[Available], done[p], size[p])
      /\ Holds(m[f], done[p], p, f, size[p])
  BY <1>1, <1>2, <1>3, WriterFacts
<1>5. done[p] = size[p] /\ done[p] = Len(m[f])
  BY <1>3, <1>4 DEF Position
<1>6. \A q \in Proc : pc'[q] = "idle"
  BY <1>2, <1>3 DEF Alone, TypeOK
<1>7. TypeOK'
  <2>1. /\ fat' \in [Block -> Block] /\ avail' \in Block /\ disk' \in [Block -> Contents]
        /\ saved' \in [File -> [by : Proc \cup {Mkfs}, size : Lengths \cup {0, InitSize}]]
    BY <1>2, <1>3 DEF TypeOK
  <2>2. 0 \in Block /\ 0 \in 0..NBlocks /\ 0 \in Lengths \cup {0}
    BY Constants
  <2> QED BY <1>2, <1>3, <2>1, <2>2, StepTypes
<1>8. Linked(m)'
  <2>1. ASSUME NEW k \in List PROVE Follows(m[k], Joined(m, k))'
    <3>1. Joined(m, k)' = Len(m[k])
      BY <1>6 DEF Joined, Taking
    <3>2. Reach(m, k, p, pc[p]) = Len(m[k])
      BY <1>3 DEF Reach
    <3>3. Follows(m[k], Len(m[k]))
      BY <1>4, <3>2
    <3> QED BY <1>3, <3>1, <3>3 DEF Follows
  <2> QED BY <1>3, <1>4, <2>1 DEF Linked
<1>9. Stored(m)'
  <2>1. ASSUME NEW g \in File
        PROVE  /\ saved'[g].by = Mkfs => m[g] = InitLayout[g]
               /\ ~Written(g)' /\ saved'[g] # Forgotten =>
                    /\ Len(m[g]) = saved'[g].size
                    /\ Holds(m[g], Len(m[g]), saved[g].by, g, saved[g].size)'
    <3>1. saved[g].by = Mkfs => m[g] = InitLayout[g]
      BY <1>1 DEF Whole, Stored
    <3>2. saved[g] # Forgotten =>
            /\ Len(m[g]) = saved[g].size
            /\ Holds(m[g], Len(m[g]), saved[g].by, g, saved[g].size)
      <4>1. CASE g = f
        BY <1>4, <1>5, <4>1
      <4>2. CASE g # f
        <5>1. ~Written(g)
          BY <1>1, <1>2, <4>2, WriterFacts
        <5> QED BY <1>1, <5>1 DEF Whole, Stored
      <4> QED BY <4>1, <4>2
    <3>3. Holds(m[g], Len(m[g]), saved[g].by, g, saved[g].size) =>
          Holds(m[g], Len(m[g]), saved[g].by, g, saved[g].size)'
      BY <1>3 DEF Holds
    <3> QED BY <1>3, <3>1, <3>2, <3>3
  <2> QED BY <2>1 DEF Stored
<1>10. Whole(m, n)'
  <2>1. Laid(m, n)'
    BY <1>4 DEF Laid, Apart, Covering, Begun, Bounded
  <2>2. Control(m)'
    BY <1>6 DEF Control
  <2> QED BY <1>8, <1>9, <2>1, <2>2 DEF Whole
<1> QED BY <1>1, <1>2, <1>3, <1>7, <1>10, StillCounted DEF IInv

----------------------------------------------------------------------------
(* The image of mkfs, at the start and after a restart.                    *)

LEMMA InitFollows ==
  /\ FirstAvail = InitLayout[Available][1]
  /\ \A k \in List : \A i \in 1..Len(InitLayout[k]) :
       InitFat[InitLayout[k][i]] =
         IF i < Len(InitLayout[k]) THEN InitLayout[k][i + 1] ELSE 0
<1> DEFINE m == InitLayout
<1>1. /\ Len(m[Available]) = FirstAvail - 1
      /\ \A i \in 1..(FirstAvail - 1) : m[Available][i] = FirstAvail - i + 1
      /\ \A f \in File : /\ Len(m[f]) = InitSize
                         /\ \A i \in 1..InitSize : m[f][i] = Start(f) - i + 1
  BY InitLists
<1>2. /\ FirstAvail = m[Available][1]
      /\ \A i \in 1..(FirstAvail - 1) : InitFat[FirstAvail - i + 1] =
           IF i < FirstAvail - 1 THEN FirstAvail - (i + 1) + 1 ELSE 0
      /\ \A f \in File : \A i \in 1..InitSize : InitFat[Start(f) - i + 1] =
           IF i < InitSize THEN Start(f) - (i + 1) + 1 ELSE 0
  BY InitFatFacts
<1>3. FirstAvail \in Int /\ InitSize \in Nat
  BY Constants
<1> HIDE DEF m
<1>4. ASSUME NEW k \in List, NEW i \in 1..Len(m[k])
      PROVE  InitFat[m[k][i]] = IF i < Len(m[k]) THEN m[k][i + 1] ELSE 0
  <2>1. CASE k = Available
    <3>1. i \in 1..(FirstAvail - 1) /\ (i < FirstAvail - 1 => i + 1 \in 1..(FirstAvail - 1))
      BY <1>1, <1>3, <2>1
    <3> QED BY <1>1, <1>2, <2>1, <3>1
  <2>2. CASE k \in File
    <3>1. i \in 1..InitSize /\ (i < InitSize => i + 1 \in 1..InitSize)
      BY <1>1, <1>3, <2>2
    <3> QED BY <1>1, <1>2, <2>2, <3>1
  <2> QED BY <2>1, <2>2 DEF List
<1> QED BY <1>2, <1>4 DEF m

LEMMA InitHolds ==
  ASSUME NEW f \in File
  PROVE  \A i \in 1..InitSize : InitDisk[InitLayout[f][i]] = Data(Mkfs, f, InitSize, i)
<1>1. \A i \in 1..InitSize : InitLayout[f][i] = Start(f) - i + 1
  BY InitLists
<1>2. \A i \in 1..InitSize : InitDisk[Start(f) - i + 1] = Data(Mkfs, f, InitSize, i)
  BY InitDiskFacts
<1> QED BY <1>1, <1>2

LEMMA InitIInv ==
  ASSUME NEW n \in Nat, Roomy(n), Processes, Init
  PROVE  IInv(n)
<1> DEFINE m == InitLayout
<1>1. /\ fat = InitFat /\ avail = FirstAvail /\ disk = InitDisk
      /\ openFiles = [f \in File |-> Closed]
      /\ handle = [p \in Proc |-> NoFile]
      /\ pc = [p \in Proc |-> "idle"]
      /\ block = Zero /\ old = Zero /\ val = Zero /\ size = Zero /\ done = Zero
      /\ saved = [f \in File |-> [by |-> Mkfs, size |-> InitSize]]
  BY DEF Init
<1>2. InitFat \in [Block -> Block] /\ FirstAvail \in Block /\ InitDisk \in [Block -> Contents]
  BY InitFatFacts, InitDiskFacts
<1>3. 0 \in Block /\ 0 \in 0..NBlocks /\ NoFile \notin File /\ 0 \in 0..Cardinality(Proc)
  <2>1. Cardinality(Proc) \in Nat
    BY FS_CardinalityType DEF Processes
  <2> QED BY <2>1, Constants DEF NoFile, Available
<1>4. TypeOK
  <2>1. Closed \in [refs : 0..Cardinality(Proc), length : Lengths \cup {0, InitSize}]
    BY <1>3 DEF Closed
  <2> QED BY <1>1, <1>2, <1>3, <2>1 DEF TypeOK, Zero
<1>5. Counted
  <2>1. ASSUME NEW f \in File PROVE openFiles[f].refs = Cardinality({p \in Proc : handle[p] = f})
    <3>1. {p \in Proc : handle[p] = f} = {}
      BY <1>1, <1>3
    <3> QED BY <1>1, <3>1, FS_EmptySet DEF Closed
  <2> QED BY <2>1 DEF Counted
<1>6. Laid(m, n) /\ m \in Layouts
  BY InitLaid, InitLists
<1>7. Linked(m)
  <2>1. ASSUME NEW k \in List PROVE Follows(m[k], Joined(m, k))
    <3>1. Joined(m, k) = Len(m[k])
      BY <1>1 DEF Joined, Taking
    <3> QED BY <1>1, <3>1, InitFollows DEF Follows
  <2> QED BY <1>1, <2>1, InitFollows DEF Linked
<1>8. Control(m)
  BY <1>1 DEF Control
<1>9. Stored(m)
  <2>1. ASSUME NEW f \in File
        PROVE  /\ Len(m[f]) = saved[f].size
               /\ Holds(m[f], Len(m[f]), saved[f].by, f, saved[f].size)
    <3>1. Len(m[f]) = InitSize /\ saved[f] = [by |-> Mkfs, size |-> InitSize]
      BY <1>1, InitLists
    <3> QED BY <1>1, <3>1, InitHolds DEF Holds
  <2> QED BY <2>1 DEF Stored
<1> QED BY <1>4, <1>5, <1>6, <1>7, <1>8, <1>9 DEF IInv, Whole

LEMMA RestartStep ==
  ASSUME NEW n \in Nat, Roomy(n), Processes, IInv(n), Restart
  PROVE  IInv(n)'
<1> DEFINE m == InitLayout
<1>1. PICK w \in Layouts : Whole(w, n)
  BY DEF IInv
<1>2. TypeOK
  BY DEF IInv
<1>3. /\ fat' = InitFat /\ avail' = FirstAvail /\ disk' = disk
      /\ openFiles' = [f \in File |-> Closed]
      /\ handle' = [p \in Proc |-> NoFile]
      /\ pc' = [p \in Proc |-> "idle"]
      /\ block' = Zero /\ old' = Zero /\ val' = Zero /\ size' = Zero /\ done' = Zero
      /\ saved' = [f \in File |-> IF saved[f].by = Mkfs THEN saved[f] ELSE Forgotten]
  BY DEF Restart
<1>4. InitFat \in [Block -> Block] /\ FirstAvail \in Block
  BY InitFatFacts
<1>5. 0 \in Block /\ 0 \in 0..NBlocks /\ NoFile \notin File /\ 0 \in 0..Cardinality(Proc)
  <2>1. Cardinality(Proc) \in Nat
    BY FS_CardinalityType DEF Processes
  <2> QED BY <2>1, Constants DEF NoFile, Available
<1>6. TypeOK'
  <2>1. Closed \in [refs : 0..Cardinality(Proc), length : Lengths \cup {0, InitSize}]
    BY <1>5 DEF Closed
  <2>2. saved' \in [File -> [by : Proc \cup {Mkfs}, size : Lengths \cup {0, InitSize}]]
    BY <1>2, <1>3 DEF TypeOK, Forgotten
  <2>3. disk' \in [Block -> Contents]
    BY <1>2, <1>3 DEF TypeOK
  <2> QED BY <1>3, <1>4, <1>5, <2>1, <2>2, <2>3 DEF TypeOK, Zero
<1>7. Counted'
  <2>1. ASSUME NEW f \in File PROVE openFiles'[f].refs = Cardinality({p \in Proc : handle'[p] = f})
    <3>1. {p \in Proc : handle'[p] = f} = {}
      BY <1>3, <1>5
    <3> QED BY <1>3, <3>1, FS_EmptySet DEF Closed
  <2> QED BY <2>1 DEF Counted
<1>8. Laid(m, n) /\ m \in Layouts
  BY InitLaid, InitLists
<1>9. Linked(m)'
  <2>1. ASSUME NEW k \in List PROVE Follows(m[k], Joined(m, k))'
    <3>1. Joined(m, k)' = Len(m[k])
      BY <1>3 DEF Joined, Taking
    <3> QED BY <1>3, <3>1, InitFollows DEF Follows
  <2> QED BY <1>3, <2>1, InitFollows DEF Linked
<1>10. Control(m)'
  BY <1>3 DEF Control
\* A file that is not forgotten is one that nobody has written.
<1>11. ASSUME NEW f \in File, saved'[f] # Forgotten
       PROVE  /\ Len(m[f]) = saved'[f].size
              /\ Holds(m[f], Len(m[f]), saved[f].by, f, saved[f].size)'
  <2>1. saved[f].by = Mkfs /\ saved'[f] = saved[f] /\ saved[f] # Forgotten
    BY <1>3, <1>11
  <2>2. ~Written(f)
    <3>1. ASSUME NEW q \in Proc, handle[q] = f, pc[q] # "idle" PROVE FALSE
      <4>1. saved[f] = [by |-> q, size |-> size[q]]
        BY <1>1, <3>1 DEF Whole, Control
      <4> QED BY <2>1, <4>1 DEF Processes
    <3> QED BY <3>1 DEF Written
  <2>3. /\ w[f] = m[f] /\ Len(w[f]) = saved[f].size
        /\ Holds(w[f], Len(w[f]), saved[f].by, f, saved[f].size)
    BY <1>1, <2>1, <2>2 DEF Whole, Stored
  <2> QED BY <1>3, <2>1, <2>3 DEF Holds
<1>12. Stored(m)'
  BY <1>11 DEF Stored
<1>13. Laid(m, n)'
  BY <1>8 DEF Laid, Apart, Covering, Begun, Bounded
<1> QED BY <1>6, <1>7, <1>8, <1>9, <1>10, <1>12, <1>13 DEF IInv, Whole

\* Every step keeps the invariant while one process writes at a time.
LEMMA NextIInv ==
  ASSUME NEW n \in Nat, Roomy(n), Processes, IInv(n), OneWriter, OneWriter', [Next]_vars
  PROVE  IInv(n)'
<1>1. ASSUME NEW p \in Proc, pc[p] # "idle" PROVE Alone(p)
  BY <1>1 DEF OneWriter, Alone
<1>2. ASSUME NEW p \in Proc, NEW f \in File, Open(p, f) PROVE IInv(n)'
  BY <1>2, OpenStep
<1>3. ASSUME NEW p \in Proc, Close(p) PROVE IInv(n)'
  BY <1>3, CloseStep
<1>4. ASSUME NEW p \in Proc, NEW l \in Lengths, Write(p, l) PROVE IInv(n)'
  <2>1. pc \in [Proc -> {"idle", "find", "pop", "link", "data", "walk", "append", "return"}]
    BY DEF IInv, TypeOK
  <2>2. PICK x \in {"find", "data", "walk", "return"} : pc' = [pc EXCEPT ![p] = x]
    <3>1. Loop(p, Start(handle[p]), 0, l)
      BY <1>4 DEF Write
    <3> QED BY <3>1, Zenon DEF Loop, Goto
  <2>3. pc'[p] # "idle" /\ \A q \in Proc : q # p => pc'[q] = pc[q]
    BY <2>1, <2>2
  <2>4. Alone(p)
    BY <2>3 DEF OneWriter, Alone
  <2> QED BY <1>4, <2>4, WriteStep
<1>5. ASSUME NEW p \in Proc, Writing(p) PROVE IInv(n)'
  <2>1. CASE Find(p)
    BY <1>1, <2>1, FindStep DEF Find, At
  <2>2. CASE Pop(p)
    BY <1>1, <2>2, PopStep DEF Pop, At
  <2>3. CASE Link(p)
    BY <1>1, <2>3, LinkStep DEF Link, At
  <2>4. CASE Put(p)
    BY <1>1, <2>4, PutStep DEF Put, At
  <2>5. CASE Walk(p)
    BY <1>1, <2>5, WalkStep DEF Walk, At
  <2>6. CASE AppendRest(p)
    BY <1>1, <2>6, AppendRestStep DEF AppendRest, At
  <2>7. CASE Return(p)
    BY <1>1, <2>7, ReturnStep DEF Return, At
  <2> QED BY <1>5, <2>1, <2>2, <2>3, <2>4, <2>5, <2>6, <2>7 DEF Writing
<1>6. ASSUME UNCHANGED vars PROVE IInv(n)'
  <2>1. PICK m \in Layouts : Whole(m, n)
    BY DEF IInv
  <2>2. UNCHANGED <<fatVars, disk, pc, locals, saved>> /\ UNCHANGED fileVars
    BY <1>6 DEF vars
  <2>3. UNCHANGED <<fat, avail, disk, openFiles, handle, pc, block, old, val, size, done, saved>>
    BY <2>2 DEF fatVars, fileVars, locals
  <2>4. Whole(m, n)'
    BY <2>1, <2>2, <2>3, Stays
  <2>5. TypeOK' /\ Counted'
    BY <2>3 DEF IInv, TypeOK, Counted
  <2> QED BY <2>1, <2>4, <2>5 DEF IInv
<1> QED BY <1>2, <1>3, <1>4, <1>5, <1>6, RestartStep DEF Next

----------------------------------------------------------------------------
(* What the invariant says of the chains.                                  *)

\* A file begins with its linked blocks; all of them, unless one has just been
\* taken for it.  The available blocks are all linked.
LEMMA ChainsAre ==
  ASSUME NEW n \in Nat, Roomy(n), TypeOK, NEW m, Whole(m, n)
  PROVE  /\ Chain(avail) = m[Available]
         /\ \A f \in File : ~Taking(f) => Chain(Start(f)) = m[f]
         /\ \A f \in File : Used(f) \subseteq {m[f][i] : i \in 1..Len(m[f])}
<1>1. Laid(m, n) /\ avail = m[Available][1] /\ \A k \in List : Follows(m[k], Joined(m, k))
  BY DEF Whole, Linked
<1>2. Available \in List /\ \A f \in File : f \in List
  BY DEF List
<1>3. Chain(avail) = m[Available]
  <2>1. ~Taking(Available)
    BY Constants DEF Whole, Control, Taking
  <2>2. Follows(m[Available], Len(m[Available]))
    BY <1>1, <1>2, <2>1 DEF Joined
  <2>3. Len(m[Available]) \in 1..Len(m[Available])
    <3>1. Len(m[Available]) \in Nat /\ Len(m[Available]) >= 1
      BY <1>1, <1>2, Room, LaidFacts
    <3> QED BY <3>1
  <2> QED BY <1>1, <1>2, <2>2, <2>3, ChainOfList
<1>4. ASSUME NEW f \in File, ~Taking(f) PROVE Chain(Start(f)) = m[f]
  <2>1. Follows(m[f], Len(m[f]))
    BY <1>1, <1>2, <1>4 DEF Joined
  <2>2. Len(m[f]) \in 1..Len(m[f]) /\ m[f][1] = Start(f)
    <3>1. Len(m[f]) \in Nat /\ Len(m[f]) >= 1 /\ m[f][1] = Start(f)
      BY <1>1, <1>2, LaidFacts
    <3> QED BY <3>1
  <2>3. Laid(m, n) /\ f \in List
    BY <1>1, <1>2
  <2>4. Chain(m[f][1]) = m[f]
    BY <2>1, <2>2, <2>3, ChainOfList
  <2> QED BY <2>2, <2>4
<1>5. ASSUME NEW f \in File PROVE Used(f) \subseteq {m[f][i] : i \in 1..Len(m[f])}
  <2>1. Len(m[f]) \in Nat /\ Len(m[f]) >= 1 /\ m[f][1] = Start(f)
    BY <1>1, <1>2, LaidFacts
  <2>2. Joined(m, f) \in 1..Len(m[f])
    <3>1. CASE Taking(f)
      <4>1. PICK p \in Proc : pc[p] = "link" /\ handle[p] = f
        BY <3>1 DEF Taking
      <4>2. Position(p, m[f], m[Available], done[p], size[p])
        BY <4>1 DEF Whole, Control
      <4>3. done[p] + 1 = Len(m[f]) /\ done[p] # 0
        BY <4>1, <4>2 DEF Position
      <4>4. done[p] \in Nat
        <5>1. done[p] \in 0..NBlocks
          BY DEF TypeOK
        <5> QED BY <5>1, Constants
      <4> QED BY <2>1, <3>1, <4>3, <4>4 DEF Joined
    <3>2. CASE ~Taking(f)
      BY <2>1, <3>2 DEF Joined
    <3> QED BY <3>1, <3>2
  <2>3. Follows(m[f], Joined(m, f))
    BY <1>1, <1>2
  <2>4. Chain(Start(f)) = [i \in 1..Joined(m, f) |-> m[f][i]]
    <3>1. PICK j : j = Joined(m, f)
      OBVIOUS
    <3>2. j \in 1..Len(m[f]) /\ Follows(m[f], j) /\ f \in List
      BY <1>2, <2>2, <2>3, <3>1
    <3>3. Chain(m[f][1]) = [i \in 1..j |-> m[f][i]]
      BY <1>1, <3>2, ChainOfList
    <3> QED BY <2>1, <3>1, <3>3
  <2>5. Used(f) = {m[f][i] : i \in 1..Joined(m, f)}
    BY <2>4 DEF Used, Range
  <2>6. 1..Joined(m, f) \subseteq 1..Len(m[f])
    BY <2>1, <2>2
  <2> QED BY <2>5, <2>6
<1> QED BY <1>3, <1>4, <1>5

LEMMA IInvNotShared ==
  ASSUME NEW n \in Nat, Roomy(n), IInv(n)
  PROVE  BlocksAreNotShared
<1>1. PICK m \in Layouts : Whole(m, n)
  BY DEF IInv
<1>2. \A f \in File : Used(f) \subseteq {m[f][i] : i \in 1..Len(m[f])}
  BY <1>1, ChainsAre DEF IInv
<1>3. ASSUME NEW f \in File, NEW g \in File, NEW b, b \in Used(f), b \in Used(g)
      PROVE  f = g
  <2>1. PICK i \in 1..Len(m[f]) : b = m[f][i]
    BY <1>2, <1>3
  <2>2. PICK j \in 1..Len(m[g]) : b = m[g][j]
    BY <1>2, <1>3
  <2>3. Apart(m) /\ f \in List /\ g \in List
    BY <1>1 DEF Whole, Laid, List
  <2> QED BY <2>1, <2>2, <2>3 DEF Apart
<1> QED BY <1>3 DEF BlocksAreNotShared

LEMMA IInvNoBlockLost ==
  ASSUME NEW n \in Nat, Roomy(n), IInv(n)
  PROVE  NoBlockLost
<1>1. PICK m \in Layouts : Whole(m, n)
  BY DEF IInv
<1>2. SUFFICES ASSUME Quiet
      PROVE  /\ (UNION {Used(f) : f \in File}) \cup Range(Chain(avail)) = Usable
             /\ \A f \in File : Used(f) \cap Range(Chain(avail)) = {}
             /\ \A f, g \in File : f # g => Used(f) \cap Used(g) = {}
  BY DEF NoBlockLost, IInv, Usable
<1>3. /\ Chain(avail) = m[Available]
      /\ \A f \in File : Chain(Start(f)) = m[f]
  <2>1. \A f \in File : ~Taking(f)
    BY <1>2 DEF Quiet, Taking
  <2> QED BY <1>1, <2>1, ChainsAre DEF IInv
<1>4. \A k \in List : DOMAIN m[k] = 1..Len(m[k]) /\ \A i \in 1..Len(m[k]) : m[k][i] \in Usable
  <2>1. \A k \in List : m[k] \in Seq(Usable)
    BY DEF Layouts
  <2> QED BY <2>1, LenProperties
<1>5. \A f \in File : f \in List /\ f # Available /\ Used(f) = {m[f][i] : i \in 1..Len(m[f])}
  BY <1>3, <1>4, Constants DEF Used, Range, List
<1>6. Available \in List /\ Range(Chain(avail)) = {m[Available][i] : i \in 1..Len(m[Available])}
  BY <1>3, <1>4 DEF Range, List
<1>7. \A k, l \in List : \A i \in 1..Len(m[k]), j \in 1..Len(m[l]) : m[k][i] = m[l][j] => k = l
  BY <1>1 DEF Whole, Laid, Apart
<1>8. (UNION {Used(f) : f \in File}) \cup Range(Chain(avail)) = Usable
  <2>1. ASSUME NEW b \in Usable
        PROVE  b \in UNION {Used(f) : f \in File} \/ b \in Range(Chain(avail))
    <3>1. PICK k \in List : \E i \in 1..Len(m[k]) : m[k][i] = b
      BY <1>1 DEF Whole, Laid, Covering
    <3>2. CASE k = Available
      <4>1. b \in {m[Available][i] : i \in 1..Len(m[Available])}
        BY <3>1, <3>2
      <4> QED BY <1>6, <4>1
    <3>3. CASE k \in File
      <4>1. b \in Used(k)
        BY <1>5, <3>1, <3>3
      <4> QED BY <3>3, <4>1
    <3> QED BY <3>2, <3>3 DEF List
  <2>2. UNION {Used(f) : f \in File} \subseteq Usable
    BY <1>4, <1>5
  <2>3. {m[Available][i] : i \in 1..Len(m[Available])} \subseteq Usable
    BY <1>4, <1>6
  <2>4. Range(Chain(avail)) \subseteq Usable
    BY <1>6, <2>3
  <2> HIDE DEF Usable
  <2> QED BY <2>1, <2>2, <2>4
<1>9. \A f \in File : Used(f) \cap Range(Chain(avail)) = {}
  BY <1>5, <1>6, <1>7
<1>10. \A f, g \in File : f # g => Used(f) \cap Used(g) = {}
  BY <1>5, <1>7
<1> QED BY <1>8, <1>9, <1>10

LEMMA IInvFileIsWhole ==
  ASSUME NEW n \in Nat, Roomy(n), IInv(n)
  PROVE  FileIsWhole
<1>1. PICK m \in Layouts : Whole(m, n)
  BY DEF IInv
<1>2. ASSUME NEW f \in File, ~Written(f), saved[f] # Forgotten
      PROVE  /\ Len(Chain(Start(f))) = saved[f].size
             /\ \A i \in 1..Len(Chain(Start(f))) :
                  disk[Chain(Start(f))[i]] = Data(saved[f].by, f, saved[f].size, i)
  <2>1. ~Taking(f)
    BY <1>2 DEF Taking, Written
  <2>2. Chain(Start(f)) = m[f]
    BY <1>1, <2>1, ChainsAre DEF IInv
  <2>3. /\ Len(m[f]) = saved[f].size
        /\ Holds(m[f], Len(m[f]), saved[f].by, f, saved[f].size)
    BY <1>1, <1>2 DEF Whole, Stored
  <2> QED BY <2>2, <2>3 DEF Holds
<1> QED BY <1>2 DEF FileIsWhole

----------------------------------------------------------------------------
(* The theorems.                                                           *)

\* With one writer at a time and a block to spare, the blocks of the disk can
\* always be laid out as the FAT links them (fs.cc:43-117, fs.h:105-118).
THEOREM LayoutInvariant ==
  ASSUME NEW n \in Nat, Roomy(n), Processes
  PROVE  Spec /\ []OneWriter => []IInv(n)
<1>1. Init => IInv(n)
  BY InitIInv
<1>2. IInv(n) /\ OneWriter /\ OneWriter' /\ [Next]_vars => IInv(n)'
  BY NextIInv
<1> QED BY <1>1, <1>2, PTL DEF Spec

\* Then no block is lost, whatever is written, in which order and by whom, and
\* whenever the machine is restarted (fs.h:109-118, fs.cc:71-108).
THEOREM NoBlockIsLost ==
  ASSUME NEW n \in Nat, Roomy(n), Processes
  PROVE  Spec /\ []OneWriter => []NoBlockLost
<1>1. IInv(n) => NoBlockLost
  BY IInvNoBlockLost
<1> QED BY <1>1, LayoutInvariant, PTL

\* Then a file that nobody is writing has the blocks of the last write, in
\* order, while another file is written too (fs.cc:43-117).
THEOREM FilesAreWhole ==
  ASSUME NEW n \in Nat, Roomy(n), Processes
  PROVE  Spec /\ []OneWriter => []FileIsWhole
<1>1. IInv(n) => FileIsWhole
  BY IInvFileIsWhole
<1> QED BY <1>1, LayoutInvariant, PTL

\* Then two files never have a block in common, at any point of a write: what
\* two writers break (fs.h:109-112) takes two writers.
THEOREM OneWriterSharesNothing ==
  ASSUME NEW n \in Nat, Roomy(n), Processes
  PROVE  Spec /\ []OneWriter => []BlocksAreNotShared
<1>1. IInv(n) => BlocksAreNotShared
  BY IInvNotShared
<1> QED BY <1>1, LayoutInvariant, PTL
=============================================================================
