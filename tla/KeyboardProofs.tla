--------------------------- MODULE KeyboardProofs --------------------------
(***************************************************************************)
(* For any number of readers, any keyboard and any size of the buffer: no  *)
(* slot of the buffer is lost, and what readers get is a first-in          *)
(* first-out stream (InputStream).                                         *)
(*                                                                         *)
(* That count and indices agree is inductive only with what the console's  *)
(* mutex is for: one reader at most is in get (Alone), so at most one slot *)
(* is on its way, and the semaphores of the buffer have at most one        *)
(* waiting reader, and only while they are 0 (Queued).  The characters     *)
(* that nFull and a reader that it has let pass stand for are in the       *)
(* places from head on (Filled).                                           *)
(***************************************************************************)
EXTENDS Keyboard, QueueLemmas, FiniteSetTheorems

\* How many readers are at one of these steps, when at most one is in get.
OneAt(p, steps) == IF \E r \in Reader : p[r] \in steps THEN 1 ELSE 0
InGet == Steps \ {"out"}

\* The console and the buffer are locked by one reader.
Alone ==
  /\ \A r, q \in Reader : pc[r] # "out" /\ pc[q] # "out" => r = q
  /\ count["console"] = 1 - OneAt(pc, InGet)
  /\ count["mutex"] = 1 - OneAt(pc, {"copy", "unlock"})

\* Who waits where.
Queued ==
  /\ waiting["mutex"] = << >> /\ waiting["nEmpty"] = << >>
  /\ waiting["console"] \in Seq(Reader) /\ IsInjective(waiting["console"])
  /\ \A r \in Range(waiting["console"]) : pc[r] = "out"
  /\ waiting["console"] # << >> => count["console"] = 0
  /\ waiting["nFull"] # << >> =>
        /\ count["nFull"] = 0
        /\ \E r \in Reader : pc[r] = "full" /\ waiting["nFull"] = <<r>>

\* The slots that hold a character which no reader has got yet.
StoredIn(c, p) == c["nFull"] + OneAt(p, {"lock", "copy"})
Stored == StoredIn(count, pc)
Place(i) == IF i < N THEN i ELSE i - N

\* Where the characters are, and who has got one.
Filled ==
  /\ count["nEmpty"] + Stored + OneAt(pc, {"unlock", "release"}) = N
  /\ tail = Place(head + Stored)
  /\ \A i \in 0..(Stored - 1) : arr[Place(head + i)] \in Char
  /\ \A r \in Reader : ch[r] # NoChar <=> pc[r] \in {"unlock", "release", "leave"}

IInv == TypeOK /\ Alone /\ Queued /\ Filled
-----------------------------------------------------------------------------
(* Readers, queues and codes.                                              *)

\* How many are where, when all but one are out.
LEMMA OnlyOne ==
  ASSUME NEW p, NEW r \in Reader, \A q \in Reader \ {r} : p[q] = "out", p[r] \in Steps
  PROVE  /\ OneAt(p, InGet) = IF p[r] = "out" THEN 0 ELSE 1
         /\ OneAt(p, {"copy", "unlock"}) = IF p[r] \in {"copy", "unlock"} THEN 1 ELSE 0
         /\ OneAt(p, {"lock", "copy"}) = IF p[r] \in {"lock", "copy"} THEN 1 ELSE 0
         /\ OneAt(p, {"unlock", "release"}) = IF p[r] \in {"unlock", "release"} THEN 1 ELSE 0
<1>1. ASSUME NEW steps, "out" \notin steps
      PROVE  (\E q \in Reader : p[q] \in steps) <=> p[r] \in steps
  BY <1>1
<1>2. "out" \notin InGet /\ (p[r] \in InGet <=> p[r] # "out")
  BY DEF InGet
<1> QED BY <1>1, <1>2 DEF OneAt

\* How many are where, when all are out.
LEMMA NobodyIn ==
  ASSUME NEW p, \A q \in Reader : p[q] = "out"
  PROVE  /\ OneAt(p, InGet) = 0
         /\ OneAt(p, {"copy", "unlock"}) = 0
         /\ OneAt(p, {"lock", "copy"}) = 0
         /\ OneAt(p, {"unlock", "release"}) = 0
BY DEF OneAt, InGet

\* Some reader is there, or none.
LEMMA OneAtType == \A p, steps : OneAt(p, steps) \in {0, 1}
BY DEF OneAt

\* A queue without repetitions is no longer than there are readers.
LEMMA QueueBound ==
  ASSUME NEW s \in Seq(Reader), IsInjective(s)
  PROVE  s \in BoundedSeq(Reader, Cardinality(Reader))
<1>1. Len(s) \in Nat /\ s \in [1..Len(s) -> Reader] /\ DOMAIN s = 1..Len(s)
  BY LenProperties
<1>2. s \in Injection(1..Len(s), Reader)
  BY <1>1 DEF IsInjective, Injection
<1>3. Cardinality(1..Len(s)) <= Cardinality(Reader)
  BY <1>2, ReaderAssumption, FS_Injection
<1>4. Cardinality(1..Len(s)) = Len(s)
  BY <1>1, FS_Interval, SMTT(40)
<1>5. Cardinality(Reader) \in Nat
  BY ReaderAssumption, FS_CardinalityType
<1>6. Len(s) \in 0..Cardinality(Reader)
  BY <1>1, <1>3, <1>4, <1>5
<1> QED BY <1>1, <1>6 DEF BoundedSeq, SeqOf

\* The handler reads the codes of a key one by one.
LEMMA WireFacts ==
  /\ << >> \in BoundedSeq(Code, 2)
  /\ \A c \in Code : <<c>> \in BoundedSeq(Code, 2) /\ <<E0, c>> \in BoundedSeq(Code, 2)
  /\ \A w \in BoundedSeq(Code, 2) :
        w # << >> => Head(w) \in Code /\ Tail(w) \in BoundedSeq(Code, 2)
<1>1. E0 \in Code
  BY DEF Code
<1>2. ASSUME NEW S PROVE BoundedSeq(S, 2) = {s \in Seq(S) : Len(s) <= 2}
  <2>1. ASSUME NEW m \in 0..2, NEW s \in [1..m -> S]
        PROVE  s \in Seq(S) /\ Len(s) <= 2
    BY <2>1
  <2>2. ASSUME NEW s \in Seq(S), Len(s) <= 2
        PROVE  \E m \in 0..2 : s \in [1..m -> S]
    <3>1. Len(s) \in Nat /\ s \in [1..Len(s) -> S]
      BY LenProperties
    <3>2. Len(s) \in 0..2
      BY <2>2, <3>1
    <3> QED BY <3>1, <3>2
  <2> QED BY <2>1, <2>2 DEF BoundedSeq, SeqOf
<1>3. \A c \in Code : /\ <<c>> \in Seq(Code) /\ Len(<<c>>) <= 2
                      /\ <<E0, c>> \in Seq(Code) /\ Len(<<E0, c>>) <= 2
  BY <1>1
<1>4. << >> \in Seq(Code) /\ Len(<< >>) <= 2
  OBVIOUS
<1>5. ASSUME NEW w \in Seq(Code), w # << >>, Len(w) <= 2
      PROVE  Head(w) \in Code /\ Tail(w) \in Seq(Code) /\ Len(Tail(w)) <= 2
  BY <1>5, HeadTailProperties
<1>6. \A w : w \in BoundedSeq(Code, 2) <=> w \in Seq(Code) /\ Len(w) <= 2
  BY <1>2
<1>7. \A c \in Code : <<c>> \in BoundedSeq(Code, 2) /\ <<E0, c>> \in BoundedSeq(Code, 2)
  BY <1>3, <1>6, Zenon
<1>8. << >> \in BoundedSeq(Code, 2)
  BY <1>4, <1>6, Zenon
<1>9. \A w \in BoundedSeq(Code, 2) :
         w # << >> => Head(w) \in Code /\ Tail(w) \in BoundedSeq(Code, 2)
  BY <1>5, <1>6
<1> QED BY <1>7, <1>8, <1>9

\* Modulo N, in the range that indices of the buffer reach.
LEMMA PlaceMod ==
  ASSUME NEW i \in 0..(2 * N - 1)
  PROVE  i % N = Place(i) /\ Place(i) \in 0..(N - 1)
<1>1. N \in Nat /\ N > 0
  BY BufferAssumption
<1>2. CASE i < N
  BY <1>1, <1>2 DEF Place
<1>3. CASE ~(i < N)
  BY <1>1, <1>3 DEF Place
<1> QED BY <1>2, <1>3
-----------------------------------------------------------------------------
(* The steps of a reader.                                                  *)

\* One reader is in get: where that leaves everybody else, and the semaphores.
LEMMA InGetFacts ==
  ASSUME IInv, NEW r \in Reader, pc[r] # "out"
  PROVE  /\ \A q \in Reader \ {r} : pc[q] = "out"
         /\ pc[r] \in Steps
         /\ count["console"] = 0
         /\ count["mutex"] = IF pc[r] \in {"copy", "unlock"} THEN 0 ELSE 1
         /\ OneAt(pc, {"lock", "copy"}) = IF pc[r] \in {"lock", "copy"} THEN 1 ELSE 0
         /\ OneAt(pc, {"unlock", "release"}) = IF pc[r] \in {"unlock", "release"} THEN 1 ELSE 0
         /\ Stored = count["nFull"] + (IF pc[r] \in {"lock", "copy"} THEN 1 ELSE 0)
<1>1. pc[r] \in Steps /\ \A q \in Reader \ {r} : pc[q] = "out"
  BY DEF IInv, TypeOK, Alone
<1>2. /\ OneAt(pc, InGet) = IF pc[r] = "out" THEN 0 ELSE 1
      /\ OneAt(pc, {"copy", "unlock"}) = IF pc[r] \in {"copy", "unlock"} THEN 1 ELSE 0
      /\ OneAt(pc, {"lock", "copy"}) = IF pc[r] \in {"lock", "copy"} THEN 1 ELSE 0
      /\ OneAt(pc, {"unlock", "release"}) = IF pc[r] \in {"unlock", "release"} THEN 1 ELSE 0
  BY <1>1, OnlyOne
<1> QED BY <1>1, <1>2 DEF IInv, Alone, Stored, StoredIn

\* The counts, as numbers.
LEMMA CountFacts ==
  ASSUME IInv
  PROVE  /\ N \in Nat /\ N > 0 /\ head \in 0..(N - 1) /\ tail \in 0..(N - 1)
         /\ \A s \in Semaphore : count[s] \in Nat
         /\ DOMAIN count = Semaphore /\ DOMAIN waiting = Semaphore
         /\ DOMAIN pc = Reader /\ DOMAIN ch = Reader
         /\ Semaphore = {"console", "nFull", "nEmpty", "mutex"}
         /\ Stored \in 0..N
<1>1. N \in Nat /\ N > 0
  BY BufferAssumption
<1>2. \A s \in Semaphore : count[s] \in Nat
  BY <1>1 DEF IInv, TypeOK
<1>3. OneAt(pc, {"lock", "copy"}) \in {0, 1} /\ OneAt(pc, {"unlock", "release"}) \in {0, 1}
  BY OneAtType
<1>4. Stored \in 0..N
  <2>1. count["nEmpty"] \in Nat /\ count["nFull"] \in Nat
    BY <1>2 DEF Semaphore
  <2>2. count["nEmpty"] + Stored + OneAt(pc, {"unlock", "release"}) = N
    BY DEF IInv, Filled
  <2> QED BY <1>1, <1>3, <2>1, <2>2 DEF Stored, StoredIn
<1> QED BY <1>1, <1>2, <1>4 DEF IInv, TypeOK, Semaphore

\* A queue of one reader that does not wait is empty.
LEMMA NoneWaits ==
  ASSUME IInv, NEW r \in Reader, pc[r] # "out", r \notin Range(waiting["nFull"])
  PROVE  waiting["nFull"] = << >>
<1>1. SUFFICES ASSUME waiting["nFull"] # << >> PROVE FALSE
  OBVIOUS
<1>2. PICK q \in Reader : pc[q] = "full" /\ waiting["nFull"] = <<q>>
  BY <1>1 DEF IInv, Queued
<1>3. q = r
  BY <1>2 DEF IInv, Alone
<1> QED BY <1>2, <1>3, QueueOne

\* The console's mutex lets one reader in.
LEMMA GetConsoleStep ==
  ASSUME IInv, NEW r \in Reader, GetConsole(r)
  PROVE  IInv'
<1>1. /\ pc[r] = "out" /\ \A s \in Semaphore : r \notin Range(waiting[s])
      /\ UNCHANGED <<wire, pressed, held, direction, arr, head, tail, ch, machine>>
  BY DEF GetConsole, At, Down, keyVars, ring
<1>2. /\ DOMAIN count = Semaphore /\ DOMAIN waiting = Semaphore /\ DOMAIN pc = Reader
      /\ Semaphore = {"console", "nFull", "nEmpty", "mutex"}
      /\ \A s \in Semaphore : count[s] \in Nat
  BY CountFacts
<1>3. CASE count["console"] = 0
  <2>1. /\ waiting' = [waiting EXCEPT !["console"] = Append(@, r)]
        /\ UNCHANGED <<count, pc>>
    BY <1>3 DEF GetConsole, Down
  <2>2. waiting["console"] \in Seq(Reader) /\ r \notin Range(waiting["console"])
    BY <1>1, <1>2 DEF IInv, Queued
  <2>3. /\ waiting'["console"] = Append(waiting["console"], r)
        /\ \A s \in Semaphore \ {"console"} : waiting'[s] = waiting[s]
        /\ DOMAIN waiting' = Semaphore
    BY <1>2, <2>1
  <2>4. /\ waiting'["console"] \in Seq(Reader) /\ IsInjective(waiting'["console"])
        /\ Range(waiting'["console"]) = Range(waiting["console"]) \cup {r}
    BY <2>2, <2>3, QueueAppend DEF IInv, Queued
  <2>5. TypeOK'
    <3>1. waiting'["console"] \in BoundedSeq(Reader, Cardinality(Reader))
      BY <2>4, QueueBound
    <3>2. waiting' \in [Semaphore -> BoundedSeq(Reader, Cardinality(Reader))]
      BY <1>2, <2>1, <2>3, <3>1 DEF IInv, TypeOK
    <3> QED BY <1>1, <2>1, <3>2 DEF IInv, TypeOK
  <2>6. Alone' /\ Filled'
    BY <1>1, <2>1 DEF IInv, Alone, Filled, Stored
  <2>7. Queued'
    BY <1>1, <1>2, <1>3, <2>1, <2>3, <2>4 DEF IInv, Queued
  <2> QED BY <2>5, <2>6, <2>7 DEF IInv
<1>4. CASE count["console"] # 0
  <2>1. /\ count' = [count EXCEPT !["console"] = @ - 1]
        /\ pc' = [pc EXCEPT ![r] = "full"]
        /\ UNCHANGED waiting
    BY <1>4 DEF GetConsole, Down, After
  <2>2. \A q \in Reader : pc[q] = "out"
    BY <1>4, InGetFacts
  <2>3. /\ OneAt(pc, InGet) = 0 /\ OneAt(pc, {"copy", "unlock"}) = 0
        /\ OneAt(pc, {"lock", "copy"}) = 0 /\ OneAt(pc, {"unlock", "release"}) = 0
    BY <2>2, NobodyIn
  <2>4. pc'[r] = "full" /\ \A q \in Reader \ {r} : pc'[q] = "out"
    BY <1>2, <2>1, <2>2
  <2>5. /\ OneAt(pc', InGet) = 1 /\ OneAt(pc', {"copy", "unlock"}) = 0
        /\ OneAt(pc', {"lock", "copy"}) = 0 /\ OneAt(pc', {"unlock", "release"}) = 0
    BY <2>4, OnlyOne DEF Steps
  <2>6. /\ count["console"] = 1 /\ count'["console"] = 0
        /\ \A s \in Semaphore \ {"console"} : count'[s] = count[s]
    BY <1>2, <2>1, <2>3 DEF IInv, Alone
  <2>7. TypeOK'
    <3>1. count' \in [Semaphore -> 0..N + 1]
      BY <1>2, <2>1, <2>6, BufferAssumption DEF IInv, TypeOK
    <3> QED BY <1>1, <2>1, <3>1 DEF IInv, TypeOK, Steps
  <2>8. Alone'
    <3>1. \A q, x \in Reader : pc'[q] # "out" /\ pc'[x] # "out" => q = x
      BY <2>4
    <3>2. count'["mutex"] = count["mutex"]
      BY <1>2, <2>6
    <3> QED BY <2>3, <2>5, <2>6, <3>1, <3>2 DEF IInv, Alone
  <2>9. Queued'
    <3>1. waiting["console"] = << >> /\ waiting["nFull"] = << >>
      BY <2>2, <2>6 DEF IInv, Queued
    <3> QED BY <2>1, <3>1, QueueEmpty DEF IInv, Queued
  <2>10. Filled'
    <3>1. count'["nEmpty"] = count["nEmpty"] /\ Stored' = Stored
      BY <1>2, <2>3, <2>5, <2>6 DEF Stored, StoredIn
    <3>2. \A q \in Reader : ch[q] # NoChar <=> pc'[q] \in {"unlock", "release", "leave"}
      BY <2>2, <2>4 DEF IInv, Filled
    <3> QED BY <1>1, <2>3, <2>5, <3>1, <3>2 DEF IInv, Filled
  <2> QED BY <2>7, <2>8, <2>9, <2>10 DEF IInv
<1> QED BY <1>3, <1>4
\* The reader in get goes on, to step l.
LEMMA GoesOn ==
  ASSUME IInv, NEW r \in Reader, pc[r] # "out", NEW l \in Steps, pc' = [pc EXCEPT ![r] = l]
  PROVE  /\ pc' \in [Reader -> Steps] /\ pc'[r] = l
         /\ \A q \in Reader \ {r} : pc[q] = "out" /\ pc'[q] = "out"
         /\ \A q, x \in Reader : pc'[q] # "out" /\ pc'[x] # "out" => q = x
         /\ OneAt(pc', InGet) = IF l = "out" THEN 0 ELSE 1
         /\ OneAt(pc', {"copy", "unlock"}) = IF l \in {"copy", "unlock"} THEN 1 ELSE 0
         /\ OneAt(pc', {"lock", "copy"}) = IF l \in {"lock", "copy"} THEN 1 ELSE 0
         /\ OneAt(pc', {"unlock", "release"}) = IF l \in {"unlock", "release"} THEN 1 ELSE 0
<1>1. \A q \in Reader \ {r} : pc[q] = "out"
  BY InGetFacts
<1>2. pc' \in [Reader -> Steps] /\ pc'[r] = l /\ \A q \in Reader \ {r} : pc'[q] = "out"
  BY <1>1 DEF IInv, TypeOK
<1>3. /\ OneAt(pc', InGet) = IF pc'[r] = "out" THEN 0 ELSE 1
      /\ OneAt(pc', {"copy", "unlock"}) = IF pc'[r] \in {"copy", "unlock"} THEN 1 ELSE 0
      /\ OneAt(pc', {"lock", "copy"}) = IF pc'[r] \in {"lock", "copy"} THEN 1 ELSE 0
      /\ OneAt(pc', {"unlock", "release"}) = IF pc'[r] \in {"unlock", "release"} THEN 1 ELSE 0
  BY <1>2, OnlyOne
<1> QED BY <1>1, <1>2, <1>3

\* The reader waits for a character, or one that is stored is promised to it.
LEMMA GetFullStep ==
  ASSUME IInv, NEW r \in Reader, GetFull(r)
  PROVE  IInv'
<1>1. /\ pc[r] = "full" /\ r \notin Range(waiting["nFull"])
      /\ UNCHANGED <<wire, pressed, held, direction, arr, head, tail, ch, machine>>
  BY DEF GetFull, At, Down, keyVars, ring, Semaphore
<1>2. /\ DOMAIN count = Semaphore /\ DOMAIN waiting = Semaphore /\ DOMAIN pc = Reader
      /\ Semaphore = {"console", "nFull", "nEmpty", "mutex"}
      /\ \A s \in Semaphore : count[s] \in Nat
  BY CountFacts
<1>3. waiting["nFull"] = << >>
  BY <1>1, NoneWaits
<1>4. CASE count["nFull"] = 0
  <2>1. /\ waiting' = [waiting EXCEPT !["nFull"] = Append(@, r)]
        /\ UNCHANGED <<count, pc>>
    BY <1>4 DEF GetFull, Down
  <2>2. /\ waiting'["nFull"] = <<r>>
        /\ \A s \in Semaphore \ {"nFull"} : waiting'[s] = waiting[s]
        /\ DOMAIN waiting' = Semaphore
    BY <1>2, <1>3, <2>1
  <2>3. TypeOK'
    <3>1. <<r>> \in BoundedSeq(Reader, Cardinality(Reader))
      BY QueueOne, QueueBound
    <3>2. waiting' \in [Semaphore -> BoundedSeq(Reader, Cardinality(Reader))]
      BY <1>2, <2>1, <2>2, <3>1 DEF IInv, TypeOK
    <3> QED BY <1>1, <2>1, <3>2 DEF IInv, TypeOK
  <2>4. Alone' /\ Filled'
    BY <1>1, <2>1 DEF IInv, Alone, Filled, Stored
  <2>5. Queued'
    BY <1>1, <1>2, <1>4, <2>1, <2>2 DEF IInv, Queued
  <2> QED BY <2>3, <2>4, <2>5 DEF IInv
<1>5. CASE count["nFull"] # 0
  <2>1. /\ count' = [count EXCEPT !["nFull"] = @ - 1]
        /\ pc' = [pc EXCEPT ![r] = "lock"]
        /\ UNCHANGED waiting
    BY <1>5 DEF GetFull, Down, After
  <2>2. /\ count["console"] = 0 /\ count["mutex"] = 1 /\ Stored = count["nFull"]
        /\ OneAt(pc, {"unlock", "release"}) = 0
    <3>1. pc[r] # "out" /\ pc[r] \notin {"copy", "unlock"} /\ pc[r] \notin {"lock", "copy"}
          /\ pc[r] \notin {"unlock", "release"}
      BY <1>1
    <3>2. count["nFull"] \in Nat
      BY <1>2
    <3> QED BY <3>1, <3>2, InGetFacts
  <2>3. /\ pc' \in [Reader -> Steps] /\ pc'[r] = "lock"
        /\ \A q \in Reader \ {r} : pc[q] = "out" /\ pc'[q] = "out"
        /\ \A q, x \in Reader : pc'[q] # "out" /\ pc'[x] # "out" => q = x
        /\ OneAt(pc', InGet) = 1
        /\ OneAt(pc', {"copy", "unlock"}) = 0
        /\ OneAt(pc', {"lock", "copy"}) = 1
        /\ OneAt(pc', {"unlock", "release"}) = 0
    BY <1>1, <2>1, GoesOn DEF Steps
  <2>4. /\ count'["nFull"] = count["nFull"] - 1
        /\ \A s \in Semaphore \ {"nFull"} : count'[s] = count[s]
    BY <1>2, <2>1
  <2>5. TypeOK'
    <3>1. count' \in [Semaphore -> 0..N + 1]
      BY <1>2, <1>5, <2>1, <2>4, BufferAssumption DEF IInv, TypeOK
    <3> QED BY <1>1, <2>1, <2>3, <3>1 DEF IInv, TypeOK
  <2>6. Alone'
    BY <1>2, <2>2, <2>3, <2>4 DEF Alone
  <2>7. Queued'
    <3>1. \A q \in Range(waiting["console"]) : q # r
      BY <1>1 DEF IInv, Queued
    <3> QED BY <1>2, <1>3, <2>1, <2>3, <2>4, <3>1 DEF IInv, Queued
  <2>8. Filled'
    <3>1. count'["nEmpty"] = count["nEmpty"] /\ Stored' = Stored
      BY <1>2, <2>2, <2>3, <2>4 DEF Stored, StoredIn
    <3>2. \A q \in Reader : ch[q] # NoChar <=> pc'[q] \in {"unlock", "release", "leave"}
      BY <1>1, <2>3 DEF IInv, Filled
    <3> QED BY <1>1, <2>2, <2>3, <3>1, <3>2 DEF IInv, Filled
  <2> QED BY <2>5, <2>6, <2>7, <2>8 DEF IInv
<1> QED BY <1>4, <1>5

\* The buffer is not locked when the reader comes to lock it.
LEMMA GetLockStep ==
  ASSUME IInv, NEW r \in Reader, GetLock(r)
  PROVE  IInv'
<1>1. /\ pc[r] = "lock"
      /\ UNCHANGED <<wire, pressed, held, direction, arr, head, tail, ch, machine>>
  BY DEF GetLock, At, Down, keyVars, ring
<1>2. /\ DOMAIN count = Semaphore /\ DOMAIN waiting = Semaphore /\ DOMAIN pc = Reader
      /\ Semaphore = {"console", "nFull", "nEmpty", "mutex"}
      /\ \A s \in Semaphore : count[s] \in Nat
  BY CountFacts
<1>3. /\ count["console"] = 0 /\ count["mutex"] = 1 /\ Stored = count["nFull"] + 1
      /\ OneAt(pc, {"unlock", "release"}) = 0
  BY <1>1, InGetFacts
<1>4. /\ count' = [count EXCEPT !["mutex"] = @ - 1]
      /\ pc' = [pc EXCEPT ![r] = "copy"]
      /\ UNCHANGED waiting
  BY <1>3 DEF GetLock, Down, After
<1>5. /\ pc' \in [Reader -> Steps] /\ pc'[r] = "copy"
      /\ \A q \in Reader \ {r} : pc[q] = "out" /\ pc'[q] = "out"
      /\ \A q, x \in Reader : pc'[q] # "out" /\ pc'[x] # "out" => q = x
      /\ OneAt(pc', InGet) = 1
      /\ OneAt(pc', {"copy", "unlock"}) = 1
      /\ OneAt(pc', {"lock", "copy"}) = 1
      /\ OneAt(pc', {"unlock", "release"}) = 0
  BY <1>1, <1>4, GoesOn DEF Steps
<1>6. /\ count'["mutex"] = 0
      /\ \A s \in Semaphore \ {"mutex"} : count'[s] = count[s]
  BY <1>2, <1>3, <1>4
<1>7. TypeOK'
  <2>1. count' \in [Semaphore -> 0..N + 1]
    BY <1>2, <1>3, <1>4, BufferAssumption DEF IInv, TypeOK
  <2> QED BY <1>1, <1>4, <1>5, <2>1 DEF IInv, TypeOK
<1>8. Alone'
  BY <1>2, <1>3, <1>5, <1>6 DEF Alone
<1>9. Queued'
  <2>1. waiting["nFull"] = << >>
    BY <1>1, <1>5 DEF IInv, Queued
  <2>2. \A q \in Range(waiting["console"]) : q # r
    BY <1>1 DEF IInv, Queued
  <2> QED BY <1>2, <1>4, <1>5, <1>6, <2>1, <2>2 DEF IInv, Queued
<1>10. Filled'
  <2>1. count'["nEmpty"] = count["nEmpty"] /\ Stored' = Stored
    BY <1>2, <1>3, <1>5, <1>6 DEF Stored, StoredIn
  <2>2. \A q \in Reader : ch[q] # NoChar <=> pc'[q] \in {"unlock", "release", "leave"}
    BY <1>1, <1>5 DEF IInv, Filled
  <2> QED BY <1>1, <1>3, <1>5, <2>1, <2>2 DEF IInv, Filled
<1> QED BY <1>7, <1>8, <1>9, <1>10 DEF IInv

\* The oldest character is taken out of the buffer.
LEMMA GetCopyStep ==
  ASSUME IInv, NEW r \in Reader, GetCopy(r)
  PROVE  IInv'
<1>1. /\ pc[r] = "copy"
      /\ ch' = [ch EXCEPT ![r] = arr[head]]
      /\ head' = Wrap(head + 1)
      /\ pc' = [pc EXCEPT ![r] = "unlock"]
      /\ UNCHANGED <<wire, pressed, held, direction, arr, tail, count, waiting, machine>>
  BY DEF GetCopy, At, keyVars, sems
<1>2. /\ N \in Nat /\ N > 0 /\ head \in 0..(N - 1) /\ tail \in 0..(N - 1)
      /\ DOMAIN ch = Reader /\ Stored \in 0..N /\ count["nFull"] \in Nat
  BY CountFacts DEF Semaphore
<1>3. /\ count["console"] = 0 /\ count["mutex"] = 0 /\ Stored = count["nFull"] + 1
      /\ OneAt(pc, {"unlock", "release"}) = 0
  BY <1>1, InGetFacts
<1>4. /\ pc' \in [Reader -> Steps] /\ pc'[r] = "unlock"
      /\ \A q \in Reader \ {r} : pc[q] = "out" /\ pc'[q] = "out"
      /\ \A q, x \in Reader : pc'[q] # "out" /\ pc'[x] # "out" => q = x
      /\ OneAt(pc', InGet) = 1
      /\ OneAt(pc', {"copy", "unlock"}) = 1
      /\ OneAt(pc', {"lock", "copy"}) = 0
      /\ OneAt(pc', {"unlock", "release"}) = 1
  BY <1>1, GoesOn DEF Steps
<1>5. head' = Place(head + 1) /\ head' \in 0..(N - 1)
  BY <1>1, <1>2 DEF Wrap, Place
<1>6. arr[head] \in Char
  <2>1. arr[Place(head + 0)] \in Char
    BY <1>2, <1>3 DEF IInv, Filled
  <2>2. Place(head + 0) = head
    BY <1>2 DEF Place
  <2> QED BY <2>1, <2>2
<1>7. TypeOK'
  BY <1>1, <1>4, <1>5, <1>6 DEF IInv, TypeOK
<1>8. Alone'
  BY <1>1, <1>3, <1>4 DEF Alone
<1>9. Queued'
  <2>1. waiting["nFull"] = << >>
    BY <1>1, <1>4 DEF IInv, Queued
  <2>2. \A q \in Range(waiting["console"]) : q # r
    BY <1>1 DEF IInv, Queued
  <2> QED BY <1>1, <1>4, <2>1, <2>2 DEF IInv, Queued
<1>10. Filled'
  <2>1. Stored' = Stored - 1
    BY <1>1, <1>2, <1>3, <1>4 DEF Stored, StoredIn
  <2> HIDE DEF Stored
  <2>2. tail' = Place(head' + Stored')
    BY <1>1, <1>2, <1>3, <1>5, <2>1 DEF IInv, Filled, Place
  <2>3. ASSUME NEW i \in 0..(Stored' - 1)
        PROVE  arr'[Place(head' + i)] \in Char
    <3>1. i + 1 \in 0..(Stored - 1)
      BY <1>2, <2>1
    <3>2. arr[Place(head + (i + 1))] \in Char
      BY <3>1 DEF IInv, Filled
    <3>3. Place(head + (i + 1)) = Place(head' + i)
      BY <1>2, <1>5, <3>1 DEF Place
    <3> QED BY <1>1, <3>2, <3>3
  <2>4. \A q \in Reader : ch'[q] # NoChar <=> pc'[q] \in {"unlock", "release", "leave"}
    BY <1>1, <1>2, <1>4, <1>6, BufferAssumption DEF IInv, Filled
  <2>5. count'["nEmpty"] + Stored' + OneAt(pc', {"unlock", "release"}) = N
    <3>1. count["nEmpty"] + Stored + OneAt(pc, {"unlock", "release"}) = N
      BY DEF IInv, Filled
    <3>2. count["nEmpty"] \in Nat
      BY CountFacts DEF Semaphore
    <3> QED BY <1>1, <1>2, <1>3, <1>4, <2>1, <3>1, <3>2
  <2> QED BY <2>2, <2>3, <2>4, <2>5 DEF Filled
<1> QED BY <1>7, <1>8, <1>9, <1>10 DEF IInv

\* Nobody waits for the buffer's lock, which the reader gives back.
LEMMA GetUnlockStep ==
  ASSUME IInv, NEW r \in Reader, GetUnlock(r)
  PROVE  IInv'
<1>1. /\ pc[r] = "unlock"
      /\ UNCHANGED <<wire, pressed, held, direction, arr, head, tail, ch, machine>>
  BY DEF GetUnlock, At, UpTo, keyVars, ring
<1>2. /\ DOMAIN count = Semaphore /\ N \in Nat /\ N > 0
      /\ Semaphore = {"console", "nFull", "nEmpty", "mutex"}
      /\ \A s \in Semaphore : count[s] \in Nat
  BY CountFacts
<1>3. /\ count' = [count EXCEPT !["mutex"] = @ + 1]
      /\ pc' = [pc EXCEPT ![r] = "release"]
      /\ UNCHANGED waiting
  BY DEF GetUnlock, UpTo, Up, IInv, Queued
<1>4. /\ count["console"] = 0 /\ count["mutex"] = 0
      /\ OneAt(pc, {"lock", "copy"}) = 0 /\ OneAt(pc, {"unlock", "release"}) = 1
  BY <1>1, InGetFacts
<1>5. /\ pc' \in [Reader -> Steps] /\ pc'[r] = "release"
      /\ \A q \in Reader \ {r} : pc[q] = "out" /\ pc'[q] = "out"
      /\ \A q, x \in Reader : pc'[q] # "out" /\ pc'[x] # "out" => q = x
      /\ OneAt(pc', InGet) = 1
      /\ OneAt(pc', {"copy", "unlock"}) = 0
      /\ OneAt(pc', {"lock", "copy"}) = 0
      /\ OneAt(pc', {"unlock", "release"}) = 1
  BY <1>1, <1>3, GoesOn DEF Steps
<1>6. /\ count'["mutex"] = 1
      /\ \A s \in Semaphore \ {"mutex"} : count'[s] = count[s]
  BY <1>2, <1>3, <1>4
<1>7. TypeOK'
  <2>1. count' \in [Semaphore -> 0..N + 1]
    BY <1>2, <1>3, <1>4 DEF IInv, TypeOK
  <2> QED BY <1>1, <1>3, <1>5, <2>1 DEF IInv, TypeOK
<1>8. Alone'
  BY <1>2, <1>4, <1>5, <1>6 DEF Alone
<1>9. Queued'
  <2>1. waiting["nFull"] = << >>
    BY <1>1, <1>5 DEF IInv, Queued
  <2>2. \A q \in Range(waiting["console"]) : q # r
    BY <1>1 DEF IInv, Queued
  <2> QED BY <1>2, <1>3, <1>5, <1>6, <2>1, <2>2 DEF IInv, Queued
<1>10. Filled'
  <2>1. count'["nEmpty"] = count["nEmpty"] /\ Stored' = Stored
    BY <1>2, <1>4, <1>5, <1>6 DEF Stored, StoredIn
  <2>2. \A q \in Reader : ch[q] # NoChar <=> pc'[q] \in {"unlock", "release", "leave"}
    BY <1>1, <1>5 DEF IInv, Filled
  <2> QED BY <1>1, <1>4, <1>5, <2>1, <2>2 DEF IInv, Filled
<1> QED BY <1>7, <1>8, <1>9, <1>10 DEF IInv

\* The slot is given back: the handler waits for none.
LEMMA GetReleaseStep ==
  ASSUME IInv, NEW r \in Reader, GetRelease(r)
  PROVE  IInv'
<1>1. /\ pc[r] = "release"
      /\ UNCHANGED <<wire, pressed, held, direction, arr, head, tail, ch, machine>>
  BY DEF GetRelease, At, UpTo, keyVars, ring
<1>2. /\ DOMAIN count = Semaphore /\ N \in Nat /\ N > 0 /\ Stored \in 0..N
      /\ Semaphore = {"console", "nFull", "nEmpty", "mutex"}
      /\ \A s \in Semaphore : count[s] \in Nat
  BY CountFacts
<1>3. /\ count' = [count EXCEPT !["nEmpty"] = @ + 1]
      /\ pc' = [pc EXCEPT ![r] = "leave"]
      /\ UNCHANGED waiting
  BY DEF GetRelease, UpTo, Up, IInv, Queued
<1>4. /\ count["console"] = 0 /\ count["mutex"] = 1
      /\ OneAt(pc, {"lock", "copy"}) = 0 /\ OneAt(pc, {"unlock", "release"}) = 1
  BY <1>1, InGetFacts
<1>5. /\ pc' \in [Reader -> Steps] /\ pc'[r] = "leave"
      /\ \A q \in Reader \ {r} : pc[q] = "out" /\ pc'[q] = "out"
      /\ \A q, x \in Reader : pc'[q] # "out" /\ pc'[x] # "out" => q = x
      /\ OneAt(pc', InGet) = 1
      /\ OneAt(pc', {"copy", "unlock"}) = 0
      /\ OneAt(pc', {"lock", "copy"}) = 0
      /\ OneAt(pc', {"unlock", "release"}) = 0
  BY <1>1, <1>3, GoesOn DEF Steps
<1>6. /\ count'["nEmpty"] = count["nEmpty"] + 1
      /\ \A s \in Semaphore \ {"nEmpty"} : count'[s] = count[s]
  BY <1>2, <1>3
<1>7. count["nEmpty"] + Stored + 1 = N /\ count["nEmpty"] \in Nat
  BY <1>2, <1>4 DEF IInv, Filled
<1>8. TypeOK'
  <2>1. count' \in [Semaphore -> 0..N + 1]
    <3>1. count["nEmpty"] + 1 \in 0..N + 1
      BY <1>2, <1>7
    <3> QED BY <1>2, <1>3, <3>1 DEF IInv, TypeOK
  <2> QED BY <1>1, <1>3, <1>5, <2>1 DEF IInv, TypeOK
<1>9. Alone'
  BY <1>2, <1>4, <1>5, <1>6 DEF Alone
<1>10. Queued'
  <2>1. waiting["nFull"] = << >>
    BY <1>1, <1>5 DEF IInv, Queued
  <2>2. \A q \in Range(waiting["console"]) : q # r
    BY <1>1 DEF IInv, Queued
  <2> QED BY <1>2, <1>3, <1>5, <1>6, <2>1, <2>2 DEF IInv, Queued
<1>11. Filled'
  <2>1. Stored' = Stored
    BY <1>2, <1>4, <1>5, <1>6 DEF Stored, StoredIn
  <2>2. \A q \in Reader : ch[q] # NoChar <=> pc'[q] \in {"unlock", "release", "leave"}
    BY <1>1, <1>5 DEF IInv, Filled
  <2>3. count'["nEmpty"] + Stored + OneAt(pc', {"unlock", "release"}) = N
    BY <1>2, <1>5, <1>6, <1>7
  <2> QED BY <1>1, <2>1, <2>2, <2>3 DEF IInv, Filled
<1> QED BY <1>8, <1>9, <1>10, <1>11 DEF IInv

\* The console goes to the reader that has waited longest, or to nobody.
LEMMA GetLeaveStep ==
  ASSUME IInv, NEW r \in Reader, GetLeave(r)
  PROVE  IInv'
<1>1. /\ pc[r] = "leave" /\ ch' = [ch EXCEPT ![r] = NoChar]
      /\ UNCHANGED <<wire, pressed, held, direction, arr, head, tail, machine>>
  BY DEF GetLeave, At, UpTo, keyVars, ring
<1>2. /\ DOMAIN count = Semaphore /\ N \in Nat /\ N > 0 /\ Stored \in 0..N
      /\ DOMAIN waiting = Semaphore /\ DOMAIN pc = Reader /\ DOMAIN ch = Reader
      /\ Semaphore = {"console", "nFull", "nEmpty", "mutex"}
      /\ \A s \in Semaphore : count[s] \in Nat
  BY CountFacts
<1>3. /\ count["console"] = 0 /\ count["mutex"] = 1
      /\ OneAt(pc, {"lock", "copy"}) = 0 /\ OneAt(pc, {"unlock", "release"}) = 0
      /\ \A q \in Reader \ {r} : pc[q] = "out"
  BY <1>1, InGetFacts
<1>4. waiting["nFull"] = << >>
  BY <1>1, <1>3 DEF IInv, Queued
<1>5. ASSUME \A q \in Reader : pc'[q] \in {"out", "full"}
      PROVE  \A q \in Reader : ch'[q] # NoChar <=> pc'[q] \in {"unlock", "release", "leave"}
  <2>1. \A q \in Reader : ch'[q] = NoChar
    BY <1>1, <1>2, <1>3 DEF IInv, Filled
  <2> QED BY <1>5, <2>1
<1>6. CASE waiting["console"] = << >>
  <2>1. /\ count' = [count EXCEPT !["console"] = @ + 1]
        /\ pc' = [pc EXCEPT ![r] = "out"]
        /\ UNCHANGED waiting
    BY <1>6 DEF GetLeave, UpTo, Up
  <2>2. /\ count'["console"] = 1
        /\ \A s \in Semaphore \ {"console"} : count'[s] = count[s]
    BY <1>2, <1>3, <2>1
  <2>3. \A q \in Reader : pc'[q] = "out"
    BY <1>2, <1>3, <2>1
  <2>4. /\ OneAt(pc', InGet) = 0 /\ OneAt(pc', {"copy", "unlock"}) = 0
        /\ OneAt(pc', {"lock", "copy"}) = 0 /\ OneAt(pc', {"unlock", "release"}) = 0
    BY <2>3, NobodyIn
  <2>5. TypeOK'
    <3>1. count' \in [Semaphore -> 0..N + 1]
      BY <1>2, <1>3, <2>1 DEF IInv, TypeOK
    <3> QED BY <1>1, <2>1, <3>1 DEF IInv, TypeOK, Steps
  <2>6. Alone'
    BY <1>2, <1>3, <2>2, <2>3, <2>4 DEF Alone
  <2>7. Queued'
    BY <1>4, <1>6, <2>1, QueueEmpty DEF IInv, Queued
  <2>8. Filled'
    <3>1. count'["nEmpty"] = count["nEmpty"] /\ Stored' = Stored
      BY <1>2, <1>3, <2>2, <2>4 DEF Stored, StoredIn
    <3> QED BY <1>1, <1>3, <1>5, <2>3, <2>4, <3>1 DEF IInv, Filled
  <2> QED BY <2>5, <2>6, <2>7, <2>8 DEF IInv
<1>7. CASE waiting["console"] # << >>
  <2> PICK h : h = Head(waiting["console"])
    OBVIOUS
  <2>1. /\ waiting' = [waiting EXCEPT !["console"] = Tail(@)]
        /\ pc' = [pc EXCEPT ![r] = "out", ![h] = "full"]
        /\ UNCHANGED count
    BY <1>7 DEF GetLeave, UpTo, Up, After
  <2>2. /\ h \in Reader /\ h \in Range(waiting["console"])
        /\ Tail(waiting["console"]) \in Seq(Reader)
        /\ IsInjective(Tail(waiting["console"]))
        /\ Range(Tail(waiting["console"])) = Range(waiting["console"]) \ {h}
    BY <1>7, QueueTail DEF IInv, Queued
  <2>3. pc[h] = "out" /\ h # r
    BY <1>1, <2>2 DEF IInv, Queued
  <2>4. pc'[h] = "full" /\ \A q \in Reader \ {h} : pc'[q] = "out"
    BY <1>2, <1>3, <2>1, <2>2, <2>3
  <2>5. /\ OneAt(pc', InGet) = 1 /\ OneAt(pc', {"copy", "unlock"}) = 0
        /\ OneAt(pc', {"lock", "copy"}) = 0 /\ OneAt(pc', {"unlock", "release"}) = 0
    BY <2>2, <2>4, OnlyOne DEF Steps
  <2>6. /\ waiting'["console"] = Tail(waiting["console"])
        /\ \A s \in Semaphore \ {"console"} : waiting'[s] = waiting[s]
    BY <1>2, <2>1
  <2>7. TypeOK'
    <3>1. Tail(waiting["console"]) \in BoundedSeq(Reader, Cardinality(Reader))
      BY <2>2, QueueBound
    <3>2. waiting' \in [Semaphore -> BoundedSeq(Reader, Cardinality(Reader))]
      BY <1>2, <2>1, <3>1 DEF IInv, TypeOK
    <3> QED BY <1>1, <2>1, <3>2 DEF IInv, TypeOK, Steps
  <2>8. Alone'
    <3>1. \A q, x \in Reader : pc'[q] # "out" /\ pc'[x] # "out" => q = x
      BY <2>4
    <3>2. count'["console"] = 0 /\ count'["mutex"] = 1
      BY <1>3, <2>1
    <3> QED BY <2>5, <3>1, <3>2 DEF Alone
  <2>9. Queued'
    <3>1. waiting'["mutex"] = << >> /\ waiting'["nEmpty"] = << >> /\ waiting'["nFull"] = << >>
      BY <1>2, <1>4, <2>6 DEF IInv, Queued
    <3>2. count' = count
      BY <2>1
    <3>3. \A q \in Range(waiting'["console"]) : pc'[q] = "out"
      <4>1. ASSUME NEW q \in Range(waiting'["console"]) PROVE q \in Reader /\ q # h
        BY <2>2, <2>6, RangeOfSeq DEF IInv, Queued
      <4> QED BY <2>4, <4>1
    <3> QED BY <1>3, <2>2, <2>6, <3>1, <3>2, <3>3 DEF Queued
  <2>10. Filled'
    <3>1. Stored' = Stored
      BY <1>3, <2>1, <2>5 DEF Stored, StoredIn
    <3>2. \A q \in Reader : pc'[q] \in {"out", "full"}
      BY <2>4
    <3> QED BY <1>1, <1>3, <1>5, <2>1, <2>5, <3>1, <3>2 DEF IInv, Filled
  <2> QED BY <2>7, <2>8, <2>9, <2>10 DEF IInv
<1> QED BY <1>6, <1>7
-----------------------------------------------------------------------------
(* The keyboard and its handler.                                           *)

\* The keyboard touches nothing but its wire.
LEMMA SendStep ==
  ASSUME IInv, NEW k \in Key, Press(k) \/ Release(k)
  PROVE  IInv'
<1>1. PICK code \in Code : Send(k, code)
  <2>1. Make(k) \in Code /\ Break(k) \in Code
    BY DEF Make, Break, Code
  <2> QED BY <2>1 DEF Press, Release
<1>2. /\ wire' \in BoundedSeq(Code, 2)
      /\ UNCHANGED <<held, direction, arr, head, tail, count, waiting, pc, ch, machine>>
  BY <1>1, WireFacts, Zenon DEF Send, ring, sems
<1>3. pressed' \in SUBSET Key
  BY DEF Press, Release, IInv, TypeOK
<1>4. TypeOK'
  BY <1>2, <1>3 DEF IInv, TypeOK
<1>5. Alone' /\ Queued' /\ Filled'
  BY <1>2 DEF IInv, Alone, Queued, Filled, Stored
<1> QED BY <1>4, <1>5 DEF IInv

\* A put takes a free slot, fills it, and lets a waiting reader go on.
LEMMA PutFacts ==
  ASSUME IInv, NEW c \in Char, Put(c), UNCHANGED <<ch>>
  PROVE  /\ arr' \in [0..(N - 1) -> Char \cup {NoChar}]
         /\ tail' \in 0..(N - 1) /\ head' = head
         /\ count' \in [Semaphore -> 0..N + 1]
         /\ waiting' \in [Semaphore -> BoundedSeq(Reader, Cardinality(Reader))]
         /\ pc' \in [Reader -> Steps]
         /\ machine' \in {"nEmpty", "mutex", machine}
         /\ Alone' /\ Queued' /\ Filled'
         /\ waiting'["console"] = waiting["console"]
         /\ \A r \in Reader : pc'[r] = pc[r] \/ (pc[r] = "full" /\ pc'[r] = "lock")
         /\ \/ UNCHANGED <<arr, tail, StoredIn(count, pc)>>
            \/ /\ Stored < N /\ StoredIn(count', pc') = Stored + 1
               /\ arr' = [arr EXCEPT ![tail] = c]
<1>1. /\ DOMAIN count = Semaphore /\ N \in Nat /\ N > 0 /\ Stored \in 0..N
      /\ DOMAIN waiting = Semaphore /\ DOMAIN pc = Reader
      /\ Semaphore = {"console", "nFull", "nEmpty", "mutex"}
      /\ head \in 0..(N - 1) /\ tail \in 0..(N - 1)
      /\ \A s \in Semaphore : count[s] \in Nat
  BY CountFacts
<1>2. CASE \E s \in {"nEmpty", "mutex"} : Panic(s)
  <2>1. /\ UNCHANGED <<arr, head, tail, count, waiting, pc>> /\ machine' \in {"nEmpty", "mutex"}
    BY <1>2 DEF Panic, ring, sems
  <2>2. Alone' /\ Queued' /\ Filled'
    BY <2>1 DEF IInv, Alone, Queued, Filled, Stored
  <2> QED BY <2>1, <2>2 DEF IInv, TypeOK
<1>3. CASE ~ \E s \in {"nEmpty", "mutex"} : Panic(s)
  <2>1. /\ count["nEmpty"] > 0 /\ count["mutex"] > 0
        /\ arr' = [arr EXCEPT ![tail] = c]
        /\ tail' = Wrap(tail + 1) /\ UNCHANGED <<head, machine>>
        /\ IF waiting["nFull"] = << >>
             THEN /\ count' = [count EXCEPT !["nEmpty"] = @ - 1, !["nFull"] = @ + 1]
                  /\ UNCHANGED <<waiting, pc>>
             ELSE /\ count' = [count EXCEPT !["nEmpty"] = @ - 1]
                  /\ waiting' = [waiting EXCEPT !["nFull"] = Tail(@)]
                  /\ pc' = [pc EXCEPT ![Head(waiting["nFull"])] = "lock"]
    BY <1>3 DEF Put, After
  <2>2. count["nEmpty"] + Stored + OneAt(pc, {"unlock", "release"}) = N
    BY DEF IInv, Filled
  <2>3. OneAt(pc, {"unlock", "release"}) \in {0, 1} /\ OneAt(pc, {"lock", "copy"}) \in {0, 1}
    BY OneAtType
  <2>4. Stored < N
    BY <1>1, <2>1, <2>2, <2>3
  <2>5. /\ count["nFull"] \in Nat /\ count["nFull"] <= Stored
        /\ Stored = count["nFull"] + OneAt(pc, {"lock", "copy"})
    BY <1>1, <2>3 DEF Stored, StoredIn
  <2> HIDE DEF Stored
  <2>6. tail' = Place(tail + 1) /\ tail' \in 0..(N - 1)
    BY <1>1, <2>1 DEF Wrap, Place
  <2>7. /\ arr' \in [0..(N - 1) -> Char \cup {NoChar}]
        /\ arr'[tail] = c /\ \A i \in 0..(N - 1) : arr'[i] = arr[i] \/ arr'[i] = c
    BY <1>1, <2>1 DEF IInv, TypeOK
  <2>8. ASSUME StoredIn(count', pc') = Stored + 1
        PROVE  /\ tail' = Place(head' + StoredIn(count', pc'))
               /\ \A i \in 0..(StoredIn(count', pc') - 1) : arr'[Place(head' + i)] \in Char
    <3>1. tail = Place(head + Stored)
      BY DEF IInv, Filled
    <3>2. tail' = Place(head' + StoredIn(count', pc'))
      BY <1>1, <2>1, <2>4, <2>6, <2>8, <3>1 DEF Place
    <3>3. ASSUME NEW i \in 0..Stored
          PROVE  arr'[Place(head + i)] \in Char
      <4>1. Place(head + i) \in 0..(N - 1)
        BY <1>1, <2>4 DEF Place
      <4>2. CASE i = Stored
        BY <2>7, <3>1, <4>2
      <4>3. CASE i # Stored
        <5>1. i \in 0..(Stored - 1)
          BY <1>1, <4>3
        <5>2. arr[Place(head + i)] \in Char
          BY <5>1 DEF IInv, Filled
        <5> QED BY <2>7, <4>1, <5>2
      <4> QED BY <4>2, <4>3
    <3> QED BY <1>1, <2>1, <2>8, <3>2, <3>3
  <2>9. CASE waiting["nFull"] = << >>
    <3>1. /\ count' = [count EXCEPT !["nEmpty"] = @ - 1, !["nFull"] = @ + 1]
          /\ UNCHANGED <<waiting, pc>>
      BY <2>1, <2>9
    <3>2. /\ count'["nEmpty"] = count["nEmpty"] - 1 /\ count'["nFull"] = count["nFull"] + 1
          /\ count'["console"] = count["console"] /\ count'["mutex"] = count["mutex"]
      BY <1>1, <3>1
    <3>3. count' \in [Semaphore -> 0..N + 1]
      <4>1. count["nEmpty"] - 1 \in 0..N + 1 /\ count["nFull"] + 1 \in 0..N + 1
        BY <1>1, <2>1, <2>2, <2>3, <2>4, <2>5, SMTT(40)
      <4> QED BY <1>1, <3>1, <4>1 DEF IInv, TypeOK
    <3>4. StoredIn(count', pc') = Stored + 1
      BY <1>1, <2>3, <2>5, <3>1, <3>2 DEF StoredIn
    <3>5. Alone' /\ Queued'
      BY <2>9, <3>1, <3>2 DEF IInv, Alone, Queued
    <3>6. Filled'
      <4>1. count'["nEmpty"] + StoredIn(count', pc') + OneAt(pc', {"unlock", "release"}) = N
        BY <1>1, <2>2, <2>3, <3>1, <3>2, <3>4
      <4>2. \A r \in Reader : ch'[r] # NoChar <=> pc'[r] \in {"unlock", "release", "leave"}
        BY <3>1 DEF IInv, Filled
      <4> QED BY <2>8, <3>4, <4>1, <4>2 DEF Filled, Stored
    <3> QED BY <2>1, <2>4, <2>6, <2>7, <3>1, <3>3, <3>4, <3>5, <3>6 DEF IInv, TypeOK
  <2>10. CASE waiting["nFull"] # << >>
    <3>1. PICK r \in Reader : pc[r] = "full" /\ waiting["nFull"] = <<r>> /\ count["nFull"] = 0
      BY <2>10 DEF IInv, Queued
    <3>2. /\ count' = [count EXCEPT !["nEmpty"] = @ - 1]
          /\ waiting' = [waiting EXCEPT !["nFull"] = << >>]
          /\ pc' = [pc EXCEPT ![r] = "lock"]
      <4>1. Head(<<r>>) = r /\ Tail(<<r>>) = << >>
        OBVIOUS
      <4> QED BY <1>1, <2>1, <2>10, <3>1, <4>1
    <3>3. /\ count'["nEmpty"] = count["nEmpty"] - 1
          /\ \A s \in Semaphore \ {"nEmpty"} : count'[s] = count[s]
      BY <1>1, <3>2
    <3>4. /\ count["console"] = 0 /\ count["mutex"] = 1
          /\ OneAt(pc, {"lock", "copy"}) = 0 /\ OneAt(pc, {"unlock", "release"}) = 0
      BY <3>1, InGetFacts
    <3>5. /\ pc' \in [Reader -> Steps] /\ pc'[r] = "lock"
          /\ \A q \in Reader \ {r} : pc[q] = "out" /\ pc'[q] = "out"
          /\ \A q, x \in Reader : pc'[q] # "out" /\ pc'[x] # "out" => q = x
          /\ OneAt(pc', InGet) = 1
          /\ OneAt(pc', {"copy", "unlock"}) = 0
          /\ OneAt(pc', {"lock", "copy"}) = 1
          /\ OneAt(pc', {"unlock", "release"}) = 0
      BY <3>1, <3>2, GoesOn DEF Steps
    <3>6. count' \in [Semaphore -> 0..N + 1]
      <4>1. count["nEmpty"] - 1 \in 0..N + 1
        BY <1>1, <2>1, <2>2, <2>3
      <4> QED BY <1>1, <3>2, <4>1 DEF IInv, TypeOK
    <3>7. /\ waiting'["nFull"] = << >>
          /\ \A s \in Semaphore \ {"nFull"} : waiting'[s] = waiting[s]
          /\ waiting' \in [Semaphore -> BoundedSeq(Reader, Cardinality(Reader))]
      <4>1. << >> \in BoundedSeq(Reader, Cardinality(Reader))
        BY QueueEmpty, QueueBound
      <4> QED BY <1>1, <3>2, <4>1 DEF IInv, TypeOK
    <3>8. StoredIn(count', pc') = Stored + 1
      BY <1>1, <2>5, <3>1, <3>3, <3>4, <3>5 DEF StoredIn
    <3>9. Alone'
      BY <1>1, <3>3, <3>4, <3>5 DEF Alone
    <3>10. Queued'
      <4>1. \A q \in Range(waiting["console"]) : q # r /\ pc[q] = "out"
        BY <3>1 DEF IInv, Queued
      <4>2. \A q \in Range(waiting["console"]) : pc'[q] = "out"
        BY <1>1, <3>2, <4>1, RangeOfSeq DEF IInv, Queued
      <4> QED BY <1>1, <3>3, <3>7, <4>2 DEF IInv, Queued
    <3>11. Filled'
      <4>1. count'["nEmpty"] + StoredIn(count', pc') + OneAt(pc', {"unlock", "release"}) = N
        BY <1>1, <2>2, <3>3, <3>4, <3>5, <3>8
      <4>2. \A q \in Reader : ch'[q] # NoChar <=> pc'[q] \in {"unlock", "release", "leave"}
        BY <3>1, <3>5 DEF IInv, Filled
      <4> QED BY <2>8, <3>8, <4>1, <4>2 DEF Filled, Stored
    <3>12. \A q \in Reader : pc'[q] = pc[q] \/ (pc[q] = "full" /\ pc'[q] = "lock")
      BY <3>1, <3>5
    <3> QED BY <1>1, <2>1, <2>4, <2>6, <2>7, <3>5, <3>6, <3>7, <3>8, <3>9, <3>10, <3>11, <3>12
  <2> QED BY <2>9, <2>10
<1> QED BY <1>2, <1>3

\* The handler reads a code, and puts at most one character.
LEMMA HandlerStep ==
  ASSUME IInv, Handler
  PROVE  IInv'
<1>1. /\ machine = "up" /\ wire \in BoundedSeq(Code, 2) /\ wire # << >>
      /\ wire' = Tail(wire) /\ Flags(Head(wire)) /\ UNCHANGED <<pressed, ch>>
  BY DEF Handler, IInv, TypeOK
<1>2. wire' \in BoundedSeq(Code, 2)
  BY <1>1, WireFacts
<1>3. held' \subseteq Modifier /\ direction' \in BOOLEAN
  BY <1>1 DEF Flags, IInv, TypeOK
<1>4. CASE UNCHANGED <<ring, sems, pc, machine>>
  <2>1. UNCHANGED <<arr, head, tail, count, waiting, pc, machine>>
    BY <1>4 DEF ring, sems
  <2>2. TypeOK'
    BY <1>1, <1>2, <1>3, <2>1 DEF IInv, TypeOK
  <2>3. Alone' /\ Queued' /\ Filled'
    BY <1>1, <2>1 DEF IInv, Alone, Queued, Filled, Stored
  <2> QED BY <2>2, <2>3 DEF IInv
<1>5. CASE ~ UNCHANGED <<ring, sems, pc, machine>>
  <2>1. PICK c \in Char : Put(c)
    BY <1>5 DEF Handler, Chars
  <2>2. /\ arr' \in [0..(N - 1) -> Char \cup {NoChar}]
        /\ tail' \in 0..(N - 1) /\ head' = head
        /\ count' \in [Semaphore -> 0..N + 1]
        /\ waiting' \in [Semaphore -> BoundedSeq(Reader, Cardinality(Reader))]
        /\ pc' \in [Reader -> Steps]
        /\ machine' \in {"nEmpty", "mutex", machine}
        /\ Alone' /\ Queued' /\ Filled'
    BY <1>1, <2>1, PutFacts
  <2>3. TypeOK'
    BY <1>1, <1>2, <1>3, <2>2 DEF IInv, TypeOK
  <2> QED BY <2>2, <2>3 DEF IInv
<1> QED BY <1>4, <1>5
-----------------------------------------------------------------------------
(* The invariant holds.                                                    *)

LEMMA InitIInv ==
  ASSUME Init
  PROVE  IInv
<1>1. N \in Nat /\ N > 0
  BY BufferAssumption
<1>2. /\ OneAt(pc, InGet) = 0 /\ OneAt(pc, {"copy", "unlock"}) = 0
      /\ OneAt(pc, {"lock", "copy"}) = 0 /\ OneAt(pc, {"unlock", "release"}) = 0
  BY NobodyIn DEF Init
<1>3. /\ Stored = 0 /\ head = 0 /\ tail = 0
      /\ count["nEmpty"] = N /\ count["console"] = 1 /\ count["mutex"] = 1
  BY <1>2 DEF Init, Stored, StoredIn
<1>4. \A s \in Semaphore : waiting[s] = << >>
  BY DEF Init
<1>5. TypeOK
  <2>1. << >> \in BoundedSeq(Reader, Cardinality(Reader))
    BY QueueEmpty, QueueBound
  <2>2. waiting \in [Semaphore -> BoundedSeq(Reader, Cardinality(Reader))]
    BY <2>1 DEF Init
  <2>3. count \in [Semaphore -> 0..N + 1]
    BY <1>1 DEF Init, Semaphore
  <2>4. wire \in BoundedSeq(Code, 2)
    BY WireFacts DEF Init
  <2>5. arr \in [0..(N - 1) -> Char \cup {NoChar}] /\ head \in 0..(N - 1) /\ tail \in 0..(N - 1)
    BY <1>1 DEF Init
  <2>6. /\ pressed \subseteq Key /\ held \subseteq Modifier /\ direction \in BOOLEAN
        /\ pc \in [Reader -> Steps] /\ ch \in [Reader -> Char \cup {NoChar}]
        /\ machine \in {"up", "nEmpty", "mutex"}
    BY DEF Init, Steps
  <2> QED BY <2>2, <2>3, <2>4, <2>5, <2>6 DEF TypeOK
<1>6. Alone
  BY <1>2, <1>3 DEF Init, Alone
<1>7. Queued
  BY <1>4, QueueEmpty DEF Queued, Semaphore
<1>8. Filled
  BY <1>1, <1>2, <1>3 DEF Init, Filled, Place
<1> QED BY <1>5, <1>6, <1>7, <1>8 DEF IInv

\* Every step keeps the invariant.
LEMMA StepIInv ==
  ASSUME IInv, [Next]_vars
  PROVE  IInv'
<1>1. CASE UNCHANGED vars
  <2>1. /\ UNCHANGED <<wire, pressed, held, direction, arr, head, tail, count, waiting>>
        /\ UNCHANGED <<pc, ch, machine>>
    BY <1>1 DEF vars, keyVars, ring, sems
  <2>2. TypeOK'
    BY <2>1 DEF IInv, TypeOK
  <2>3. Alone' /\ Queued' /\ Filled'
    BY <2>1 DEF IInv, Alone, Queued, Filled, Stored
  <2> QED BY <2>2, <2>3 DEF IInv
<1>2. ASSUME NEW k \in Key, Press(k) \/ Release(k)
      PROVE  IInv'
  BY <1>2, SendStep
<1>3. CASE Handler
  BY <1>3, HandlerStep
<1>4. ASSUME NEW r \in Reader, GetConsole(r) \/ Step(r)
      PROVE  IInv'
  BY <1>4, GetConsoleStep, GetFullStep, GetLockStep, GetCopyStep, GetUnlockStep,
     GetReleaseStep, GetLeaveStep DEF Step
<1> QED BY <1>1, <1>2, <1>3, <1>4 DEF Next

\* The invariant of the buffer and its readers.
THEOREM Inductive == Spec => []IInv
BY InitIInv, StepIInv, PTL DEF Spec

ReadersAt(p, steps) == {r \in Reader : p[r] \in steps}

\* At most one reader is in get, so the readers at these steps are counted by
\* OneAt.
LEMMA CountedOne ==
  ASSUME NEW p, \A r, q \in Reader : p[r] # "out" /\ p[q] # "out" => r = q,
         NEW steps, "out" \notin steps
  PROVE  Cardinality(ReadersAt(p, steps)) = OneAt(p, steps)
<1>1. CASE \E r \in Reader : p[r] \in steps
  <2>1. PICK r \in Reader : p[r] \in steps
    BY <1>1
  <2>2. ReadersAt(p, steps) = {r}
    BY <2>1 DEF ReadersAt
  <2> QED BY <1>1, <2>2, FS_Singleton DEF OneAt
<1>2. CASE ~ \E r \in Reader : p[r] \in steps
  <2>1. ReadersAt(p, steps) = {}
    BY <1>2 DEF ReadersAt
  <2> QED BY <1>2, <2>1, FS_EmptySet DEF OneAt
<1> QED BY <1>1, <1>2

\* What semaphores and readers say of the buffer, in numbers.
LEMMA UsedIsStored ==
  ASSUME NEW c, NEW p, \A r, q \in Reader : p[r] # "out" /\ p[q] # "out" => r = q
  PROVE  /\ c["nFull"] + Cardinality(ReadersAt(p, {"lock", "copy"})) = StoredIn(c, p)
         /\ Cardinality(ReadersAt(p, {"unlock", "release"})) = OneAt(p, {"unlock", "release"})
<1>1. /\ Cardinality(ReadersAt(p, {"lock", "copy"})) = OneAt(p, {"lock", "copy"})
      /\ Cardinality(ReadersAt(p, {"unlock", "release"})) = OneAt(p, {"unlock", "release"})
  BY CountedOne
<1> QED BY <1>1 DEF StoredIn

\* Two semaphores and two indices that no common lock protects agree on the
\* buffer at every step of readers and handler, so no slot of it is ever lost
\* and no character overwritten.
THEOREM SlotsAreAccounted == Spec => []SlotsAccounted
<1>1. IInv => SlotsAccounted
  <2>1. SUFFICES ASSUME IInv PROVE SlotsAccounted
    OBVIOUS
  <2>2. Claimed = ReadersAt(pc, {"lock", "copy"}) /\ Returning = ReadersAt(pc, {"unlock", "release"})
    BY DEF Claimed, Returning, ReadersAt
  <2>3. Used = Stored /\ Cardinality(Returning) = OneAt(pc, {"unlock", "release"})
    BY <2>1, <2>2, UsedIsStored DEF IInv, Alone, Used, Stored
  <2>4. count["nEmpty"] + Used + Cardinality(Returning) = N /\ tail = Place(head + Used)
    BY <2>1, <2>3 DEF IInv, Filled
  <2>5. head + Used \in 0..(2 * N - 1)
    BY <2>1, <2>3, CountFacts
  <2>6. (head + Used) % N = tail
    BY <2>4, <2>5, PlaceMod
  <2> QED BY <2>1, <2>4, <2>6 DEF SlotsAccounted, IInv
<1> QED BY <1>1, Inductive, PTL
-----------------------------------------------------------------------------
(* The buffer is a stream.                                                 *)

StreamOf(a, h, n) == [i \in 1..n |-> a[(h + i - 1) % N]]

\* A function on 1..n is a sequence.
LEMMA FunctionIsSeq ==
  ASSUME NEW S, NEW n \in Nat, NEW f \in [1..n -> S]
  PROVE  f \in Seq(S) /\ Len(f) = n
OBVIOUS

\* Where the characters of the stream are.
LEMMA StreamFacts ==
  ASSUME NEW h \in 0..(N - 1), NEW n \in 0..N, NEW a,
         \A i \in 0..(n - 1) : a[Place(h + i)] \in Char
  PROVE  /\ StreamOf(a, h, n) \in Seq(Char)
         /\ Len(StreamOf(a, h, n)) = n
         /\ \A i \in 1..n : StreamOf(a, h, n)[i] = a[Place(h + (i - 1))]
<1>1. N \in Nat /\ N > 0 /\ n \in Nat
  BY BufferAssumption
<1>2. ASSUME NEW i \in 1..n
      PROVE  (h + i - 1) % N = Place(h + (i - 1)) /\ a[Place(h + (i - 1))] \in Char
  <2>1. h + (i - 1) \in 0..(2 * N - 1) /\ h + i - 1 = h + (i - 1) /\ i - 1 \in 0..(n - 1)
    BY <1>1
  <2> QED BY <2>1, PlaceMod
<1>3. StreamOf(a, h, n) \in [1..n -> Char]
      /\ \A i \in 1..n : StreamOf(a, h, n)[i] = a[Place(h + (i - 1))]
  BY <1>2 DEF StreamOf
<1> QED BY <1>1, <1>3, FunctionIsSeq

\* A character that is put behind the stream is its last.
LEMMA StreamPut ==
  ASSUME NEW h \in 0..(N - 1), NEW n \in 0..N, n < N, NEW c \in Char,
         NEW a \in [0..(N - 1) -> Char \cup {NoChar}],
         \A i \in 0..(n - 1) : a[Place(h + i)] \in Char
  PROVE  /\ StreamOf([a EXCEPT ![Place(h + n)] = c], h, n + 1) = Append(StreamOf(a, h, n), c)
         /\ Len(StreamOf(a, h, n)) = n
<1> DEFINE b == [a EXCEPT ![Place(h + n)] = c]
           s == StreamOf(a, h, n)
           u == StreamOf(b, h, n + 1)
<1>1. N \in Nat /\ N > 0 /\ n + 1 \in 0..N /\ n \in Nat
  BY BufferAssumption
<1>2. Place(h + n) \in 0..(N - 1) /\ b[Place(h + n)] = c
  BY <1>1 DEF Place
<1>3. ASSUME NEW i \in 0..(n - 1)
      PROVE  b[Place(h + i)] = a[Place(h + i)]
  <2>1. Place(h + i) # Place(h + n) /\ Place(h + i) \in 0..(N - 1)
    BY <1>1 DEF Place
  <2> QED BY <2>1
<1>4. \A i \in 0..n : b[Place(h + i)] \in Char
  <2>1. \A i \in 0..n : i = n \/ i \in 0..(n - 1)
    BY <1>1
  <2> QED BY <1>2, <1>3, <2>1
<1> HIDE DEF b
<1>5. /\ s \in Seq(Char) /\ Len(s) = n
      /\ \A i \in 1..n : s[i] = a[Place(h + (i - 1))]
  BY StreamFacts
<1>6. /\ u \in Seq(Char) /\ Len(u) = n + 1
      /\ \A i \in 1..(n + 1) : u[i] = b[Place(h + (i - 1))]
  <2>1. \A i \in 0..((n + 1) - 1) : b[Place(h + i)] \in Char
    BY <1>1, <1>4
  <2> QED BY <1>1, <2>1, StreamFacts
<1> HIDE DEF s, u
<1>7. /\ Append(s, c) \in Seq(Char) /\ Len(Append(s, c)) = n + 1
      /\ \A i \in 1..n : Append(s, c)[i] = s[i]
      /\ Append(s, c)[n + 1] = c
  BY <1>5, AppendProperties
<1>8. ASSUME NEW i \in 1..(n + 1)
      PROVE  u[i] = Append(s, c)[i]
  <2>1. CASE i = n + 1
    <3>1. i - 1 = n
      BY <1>1, <2>1
    <3> QED BY <1>2, <1>6, <1>7, <2>1, <3>1
  <2>2. CASE i # n + 1
    <3>1. i \in 1..n /\ i - 1 \in 0..(n - 1)
      BY <1>1, <2>2
    <3> QED BY <1>3, <1>5, <1>6, <1>7, <3>1
  <2> QED BY <2>1, <2>2
<1>9. u = Append(s, c)
  BY <1>6, <1>7, <1>8, SeqEqual
<1> QED BY <1>5, <1>9 DEF b, s, u

\* The character at head is the first of the stream.
LEMMA StreamTake ==
  ASSUME NEW h \in 0..(N - 1), NEW n \in 0..N, n > 0,
         NEW a, \A i \in 0..(n - 1) : a[Place(h + i)] \in Char
  PROVE  /\ StreamOf(a, h, n) # << >>
         /\ Head(StreamOf(a, h, n)) = a[h]
         /\ Tail(StreamOf(a, h, n)) = StreamOf(a, Place(h + 1), n - 1)
<1> DEFINE s == StreamOf(a, h, n)
           t == StreamOf(a, Place(h + 1), n - 1)
<1>1. N \in Nat /\ N > 0 /\ n \in Nat /\ n - 1 \in 0..N /\ Place(h + 1) \in 0..(N - 1)
  BY BufferAssumption DEF Place
<1>2. /\ s \in Seq(Char) /\ Len(s) = n
      /\ \A i \in 1..n : s[i] = a[Place(h + (i - 1))]
  BY StreamFacts
<1>3. ASSUME NEW i \in 0..(n - 2)
      PROVE  Place(Place(h + 1) + i) = Place(h + (i + 1)) /\ a[Place(h + (i + 1))] \in Char
  <2>1. i + 1 \in 0..(n - 1)
    BY <1>1
  <2>2. Place(Place(h + 1) + i) = Place(h + (i + 1))
    BY <1>1, <2>1 DEF Place
  <2> QED BY <2>1, <2>2
<1>4. /\ t \in Seq(Char) /\ Len(t) = n - 1
      /\ \A i \in 1..(n - 1) : t[i] = a[Place(Place(h + 1) + (i - 1))]
  <2>1. \A i \in 0..((n - 1) - 1) : a[Place(Place(h + 1) + i)] \in Char
    BY <1>1, <1>3
  <2> QED BY <1>1, <2>1, StreamFacts
<1> HIDE DEF s, t
<1>5. s # << >>
  BY <1>2
<1>6. /\ Tail(s) \in Seq(Char) /\ Len(Tail(s)) = n - 1
      /\ \A i \in 1..(n - 1) : Tail(s)[i] = s[i + 1]
  BY <1>2, <1>5, HeadTailProperties
<1>7. ASSUME NEW i \in 1..(n - 1)
      PROVE  t[i] = Tail(s)[i]
  <2>1. i - 1 \in 0..(n - 2) /\ i + 1 \in 1..n /\ (i - 1) + 1 = i /\ (i + 1) - 1 = i
    BY <1>1
  <2>2. t[i] = a[Place(Place(h + 1) + (i - 1))] /\ Tail(s)[i] = a[Place(h + i)]
    BY <1>2, <1>4, <1>6, <2>1
  <2> QED BY <1>3, <2>1, <2>2
<1>8. t = Tail(s)
  BY <1>4, <1>6, <1>7, SeqEqual
<1>9. Head(s) = a[h]
  <2>1. Head(s) = s[1] /\ 1 \in 1..n /\ s[1] = a[Place(h + (1 - 1))]
    BY <1>1, <1>2, <1>5
  <2>2. Place(h + (1 - 1)) = h
    BY <1>1 DEF Place
  <2> QED BY <2>1, <2>2
<1> QED BY <1>5, <1>8, <1>9 DEF s, t

\* The abstract stream, before and after a step.
LEMMA ContentsIs ==
  ASSUME IInv, IInv'
  PROVE  /\ Contents = StreamOf(arr, head, Stored)
         /\ Contents' = StreamOf(arr', head', StoredIn(count', pc'))
<1>1. /\ Claimed = ReadersAt(pc, {"lock", "copy"})
      /\ Claimed' = ReadersAt(pc', {"lock", "copy"})
  BY DEF Claimed, ReadersAt
<1>2. Used = StoredIn(count, pc) /\ Used' = StoredIn(count', pc')
  BY <1>1, UsedIsStored DEF IInv, Alone, Used
<1> QED BY <1>2 DEF Contents, StreamOf, Stored

\* The kernel's buffer starts empty, with nobody in get.
LEMMA InitRefines ==
  ASSUME Init
  PROVE  Buffer!Init
<1>1. Claimed = {} /\ Asking = {}
  BY QueueEmpty DEF Init, Claimed, Asking, Semaphore
<1>2. Used = 0
  BY <1>1, FS_EmptySet DEF Init, Used
<1>3. Contents = << >>
  BY <1>2 DEF Contents
<1> QED BY <1>1, <1>3 DEF Buffer!Init, Init

\* The handler puts the character behind the stream, or does nothing to it.
LEMMA HandlerRefines ==
  ASSUME IInv, IInv', Handler
  PROVE  \/ \E c \in Char : Buffer!Put(c)
         \/ UNCHANGED Buffer!vars
<1>1. ch' = ch
  BY DEF Handler
<1>2. CASE UNCHANGED <<ring, sems, pc, machine>>
  BY <1>1, <1>2 DEF ring, sems, Buffer!vars, Contents, Used, Claimed, Asking
<1>3. CASE ~ UNCHANGED <<ring, sems, pc, machine>>
  <2>1. PICK c \in Char : Put(c)
    BY <1>3 DEF Handler, Chars
  <2>2. /\ waiting'["console"] = waiting["console"] /\ head' = head
        /\ \A r \in Reader : pc'[r] = pc[r] \/ (pc[r] = "full" /\ pc'[r] = "lock")
        /\ \/ UNCHANGED <<arr, tail, StoredIn(count, pc)>>
           \/ /\ Stored < N /\ StoredIn(count', pc') = Stored + 1
              /\ arr' = [arr EXCEPT ![tail] = c]
    BY <1>1, <2>1, PutFacts
  <2>3. Asking' = Asking
    BY <2>2 DEF Asking
  <2>4. /\ Contents = StreamOf(arr, head, Stored)
        /\ Contents' = StreamOf(arr', head', StoredIn(count', pc'))
    BY ContentsIs
  <2>5. CASE UNCHANGED <<arr, tail, StoredIn(count, pc)>>
    <3>1. Contents' = Contents
      BY <2>2, <2>4, <2>5 DEF Stored
    <3> QED BY <1>1, <2>3, <3>1 DEF Buffer!vars
  <2>6. CASE /\ Stored < N /\ StoredIn(count', pc') = Stored + 1
             /\ arr' = [arr EXCEPT ![tail] = c]
    <3>1. /\ head \in 0..(N - 1) /\ Stored \in 0..N
          /\ arr \in [0..(N - 1) -> Char \cup {NoChar}]
          /\ \A i \in 0..(Stored - 1) : arr[Place(head + i)] \in Char
          /\ tail = Place(head + Stored)
      BY CountFacts DEF IInv, TypeOK, Filled
    <3>2. /\ StreamOf([arr EXCEPT ![Place(head + Stored)] = c], head, Stored + 1)
               = Append(StreamOf(arr, head, Stored), c)
          /\ Len(StreamOf(arr, head, Stored)) = Stored
      BY <2>6, <3>1, StreamPut
    <3>3. Contents' = Append(Contents, c) /\ Len(Contents) < N
      BY <2>2, <2>4, <2>6, <3>1, <3>2
    <3> QED BY <1>1, <2>3, <3>3 DEF Buffer!Put
  <2> QED BY <2>2, <2>5, <2>6
<1> QED BY <1>2, <1>3

\* A reader that comes asks.
LEMMA GetConsoleRefines ==
  ASSUME IInv, IInv', NEW r \in Reader, GetConsole(r)
  PROVE  Buffer!Ask(r)
<1>1. /\ pc[r] = "out" /\ \A s \in Semaphore : r \notin Range(waiting[s])
      /\ UNCHANGED <<arr, head, ch>>
  BY DEF GetConsole, At, Down, ring
<1>2. /\ DOMAIN count = Semaphore /\ DOMAIN waiting = Semaphore /\ DOMAIN pc = Reader
      /\ "console" \in Semaphore /\ "nFull" \in Semaphore
  BY CountFacts
<1>3. r \notin Asking /\ ch[r] = NoChar
  BY <1>1, <1>2 DEF Asking, IInv, Filled
<1>4. CASE count["console"] = 0
  <2>1. waiting' = [waiting EXCEPT !["console"] = Append(@, r)] /\ UNCHANGED <<count, pc>>
    BY <1>4 DEF GetConsole, Down
  <2>2. Range(waiting'["console"]) = Range(waiting["console"]) \cup {r}
    BY <1>2, <2>1, QueueAppend DEF IInv, Queued
  <2>3. Asking' = Asking \cup {r}
    BY <2>1, <2>2 DEF Asking
  <2>4. Contents' = Contents
    BY <1>1, <2>1 DEF Contents, Used, Claimed
  <2> QED BY <1>1, <1>3, <2>3, <2>4 DEF Buffer!Ask
<1>5. CASE count["console"] # 0
  <2>1. /\ count' = [count EXCEPT !["console"] = @ - 1]
        /\ pc' = [pc EXCEPT ![r] = "full"]
        /\ UNCHANGED waiting
    BY <1>5 DEF GetConsole, Down, After
  <2>2. Asking' = Asking \cup {r}
    BY <1>2, <2>1 DEF Asking
  <2>3. Claimed' = Claimed /\ count'["nFull"] = count["nFull"]
    BY <1>1, <1>2, <2>1 DEF Claimed
  <2>4. Contents' = Contents
    BY <1>1, <2>3 DEF Contents, Used
  <2> QED BY <1>1, <1>3, <2>2, <2>4 DEF Buffer!Ask
<1> QED BY <1>4, <1>5

\* A reader takes the oldest character when it copies it.
LEMMA GetCopyRefines ==
  ASSUME IInv, IInv', NEW r \in Reader, GetCopy(r)
  PROVE  Buffer!Take(r)
<1>1. /\ pc[r] = "copy"
      /\ ch' = [ch EXCEPT ![r] = arr[head]]
      /\ head' = Wrap(head + 1)
      /\ pc' = [pc EXCEPT ![r] = "unlock"]
      /\ UNCHANGED <<arr, count, waiting>>
  BY DEF GetCopy, At, sems
<1>2. /\ N \in Nat /\ N > 0 /\ head \in 0..(N - 1) /\ DOMAIN pc = Reader
      /\ Stored \in 0..N /\ count["nFull"] \in Nat
  BY CountFacts DEF Semaphore
<1>3. Stored = count["nFull"] + 1
  BY <1>1, InGetFacts
<1>4. OneAt(pc', {"lock", "copy"}) = 0
  BY <1>1, GoesOn DEF Steps
<1>5. StoredIn(count', pc') = Stored - 1 /\ Stored > 0
  BY <1>1, <1>2, <1>3, <1>4 DEF StoredIn
<1> HIDE DEF Stored
<1>6. head' = Place(head + 1)
  BY <1>1, <1>2 DEF Wrap, Place
<1>7. \A i \in 0..(Stored - 1) : arr[Place(head + i)] \in Char
  BY DEF IInv, Filled
<1>8. /\ StreamOf(arr, head, Stored) # << >>
      /\ Head(StreamOf(arr, head, Stored)) = arr[head]
      /\ Tail(StreamOf(arr, head, Stored)) = StreamOf(arr, Place(head + 1), Stored - 1)
  BY <1>2, <1>5, <1>7, StreamTake
<1>9. /\ Contents # << >> /\ Head(Contents) = arr[head]
      /\ Contents' = Tail(Contents)
  BY <1>1, <1>5, <1>6, <1>8, ContentsIs
<1>10. r \notin Range(waiting["console"])
  BY <1>1 DEF IInv, Queued
<1>11. r \in Asking /\ Asking' = Asking \ {r}
  BY <1>1, <1>2, <1>10 DEF Asking
<1> QED BY <1>1, <1>9, <1>11 DEF Buffer!Take

\* A reader returns with its character when it leaves the console.
LEMMA GetLeaveRefines ==
  ASSUME IInv, IInv', NEW r \in Reader, GetLeave(r)
  PROVE  Buffer!Return(r)
<1>1. /\ pc[r] = "leave" /\ ch' = [ch EXCEPT ![r] = NoChar]
      /\ UNCHANGED <<arr, head>>
  BY DEF GetLeave, At, UpTo, ring
<1>2. /\ DOMAIN count = Semaphore /\ DOMAIN waiting = Semaphore /\ DOMAIN pc = Reader
      /\ "console" \in Semaphore /\ "nFull" \in Semaphore
  BY CountFacts
<1>3. ch[r] # NoChar
  BY <1>1 DEF IInv, Filled
<1>4. CASE waiting["console"] = << >>
  <2>1. /\ count' = [count EXCEPT !["console"] = @ + 1]
        /\ pc' = [pc EXCEPT ![r] = "out"]
        /\ UNCHANGED waiting
    BY <1>4 DEF GetLeave, UpTo, Up
  <2>2. Claimed' = Claimed /\ count'["nFull"] = count["nFull"] /\ Asking' = Asking
    BY <1>1, <1>2, <2>1 DEF Claimed, Asking
  <2>3. Contents' = Contents
    BY <1>1, <2>2 DEF Contents, Used
  <2> QED BY <1>1, <1>3, <2>2, <2>3 DEF Buffer!Return
<1>5. CASE waiting["console"] # << >>
  <2> PICK h : h = Head(waiting["console"])
    OBVIOUS
  <2>1. /\ waiting' = [waiting EXCEPT !["console"] = Tail(@)]
        /\ pc' = [pc EXCEPT ![r] = "out", ![h] = "full"]
        /\ UNCHANGED count
    BY <1>5 DEF GetLeave, UpTo, Up, After
  <2>2. /\ h \in Reader /\ h \in Range(waiting["console"])
        /\ Range(Tail(waiting["console"])) = Range(waiting["console"]) \ {h}
    BY <1>5, QueueTail DEF IInv, Queued
  <2>3. pc[h] = "out" /\ h # r
    BY <1>1, <2>2 DEF IInv, Queued
  <2>4. Range(waiting'["console"]) = Range(waiting["console"]) \ {h}
    BY <1>2, <2>1, <2>2
  <2>5. \A q \in Reader : pc'[q] = IF q = h THEN "full" ELSE IF q = r THEN "out" ELSE pc[q]
    BY <1>2, <2>1, <2>2, <2>3
  <2>6. Asking' = Asking
    BY <1>1, <2>2, <2>4, <2>5 DEF Asking
  <2>7. Claimed' = Claimed
    BY <1>1, <2>3, <2>5 DEF Claimed
  <2>8. Contents' = Contents
    BY <1>1, <2>1, <2>7 DEF Contents, Used
  <2> QED BY <1>1, <1>3, <2>6, <2>8 DEF Buffer!Return
<1> QED BY <1>4, <1>5

\* The other steps of get are not seen: a character that is stored and one that
\* is promised are both in the stream.
LEMMA OtherUnseen ==
  ASSUME IInv, IInv', NEW r \in Reader,
         GetFull(r) \/ GetLock(r) \/ GetUnlock(r) \/ GetRelease(r)
  PROVE  UNCHANGED Buffer!vars
<1>1. /\ DOMAIN count = Semaphore /\ DOMAIN waiting = Semaphore /\ DOMAIN pc = Reader
      /\ Semaphore = {"console", "nFull", "nEmpty", "mutex"}
      /\ \A s \in Semaphore : count[s] \in Nat
  BY CountFacts
<1>2. UNCHANGED <<arr, head, ch>>
  BY DEF GetFull, GetLock, GetUnlock, GetRelease, Down, UpTo, ring
<1>3. CASE UNCHANGED <<count, pc>>
  <2>1. waiting' = [waiting EXCEPT !["nFull"] = Append(@, r)]
        \/ waiting' = [waiting EXCEPT !["mutex"] = Append(@, r)]
        \/ waiting' = waiting
    BY <1>3 DEF GetFull, GetLock, GetUnlock, GetRelease, Down, UpTo, Up, IInv, Queued
  <2>2. waiting'["console"] = waiting["console"]
    BY <1>1, <2>1
  <2> QED BY <1>2, <1>3, <2>2 DEF Buffer!vars, Contents, Used, Claimed, Asking
<1>4. CASE ~ UNCHANGED <<count, pc>>
  <2>1. /\ waiting' = waiting
        /\ \/ /\ pc[r] = "full" /\ pc' = [pc EXCEPT ![r] = "lock"]
              /\ count["nFull"] # 0 /\ count' = [count EXCEPT !["nFull"] = @ - 1]
           \/ /\ pc[r] = "lock" /\ pc' = [pc EXCEPT ![r] = "copy"]
              /\ count' = [count EXCEPT !["mutex"] = @ - 1]
           \/ /\ pc[r] = "unlock" /\ pc' = [pc EXCEPT ![r] = "release"]
              /\ count' = [count EXCEPT !["mutex"] = @ + 1]
           \/ /\ pc[r] = "release" /\ pc' = [pc EXCEPT ![r] = "leave"]
              /\ count' = [count EXCEPT !["nEmpty"] = @ + 1]
    BY <1>4 DEF GetFull, GetLock, GetUnlock, GetRelease, At, Down, UpTo, Up, After, IInv, Queued
  <2>2. Asking' = Asking
    BY <1>1, <2>1 DEF Asking
  <2>3. OneAt(pc, {"lock", "copy"}) = IF pc[r] \in {"lock", "copy"} THEN 1 ELSE 0
    BY <2>1, InGetFacts
  <2>4. PICK l \in Steps : pc' = [pc EXCEPT ![r] = l]
    BY <2>1 DEF Steps
  <2>5. pc'[r] = l /\ OneAt(pc', {"lock", "copy"}) = IF l \in {"lock", "copy"} THEN 1 ELSE 0
    BY <2>1, <2>4, GoesOn
  <2>6. StoredIn(count', pc') = Stored
    BY <1>1, <2>1, <2>3, <2>5 DEF Stored, StoredIn
  <2>7. Contents' = Contents
    BY <1>2, <2>6, ContentsIs
  <2> QED BY <1>2, <2>2, <2>7 DEF Buffer!vars
<1> QED BY <1>3, <1>4

\* Every step is a step of InputStream, or none.
LEMMA StepRefines ==
  ASSUME IInv, IInv', [Next]_vars
  PROVE  [Buffer!Next]_(Buffer!vars)
<1>1. CASE UNCHANGED vars
  BY <1>1 DEF vars, ring, sems, Buffer!vars, Contents, Used, Claimed, Asking
<1>2. ASSUME NEW k \in Key, Press(k) \/ Release(k)
      PROVE  UNCHANGED Buffer!vars
  BY <1>2 DEF Press, Release, Send, ring, sems, Buffer!vars, Contents, Used, Claimed, Asking
<1>3. CASE Handler
  BY <1>3, HandlerRefines DEF Buffer!Next
<1>4. ASSUME NEW r \in Reader, GetConsole(r) \/ GetCopy(r) \/ GetLeave(r)
      PROVE  Buffer!Next
  BY <1>4, GetConsoleRefines, GetCopyRefines, GetLeaveRefines DEF Buffer!Next
<1>5. ASSUME NEW r \in Reader, GetFull(r) \/ GetLock(r) \/ GetUnlock(r) \/ GetRelease(r)
      PROVE  UNCHANGED Buffer!vars
  BY <1>5, OtherUnseen
<1> QED BY <1>1, <1>2, <1>3, <1>4, <1>5 DEF Next, Step

\* Each character goes to one reader, in the order they were typed, whatever
\* the steps of readers and of the handler run into each other, and whether or
\* not the machine stops in the handler.
THEOREM KeyboardIsStream == Spec => ImplementsStream
<1>1. Init => Buffer!Init
  BY InitRefines
<1>2. IInv /\ IInv' /\ [Next]_vars => [Buffer!Next]_(Buffer!vars)
  BY StepRefines
<1> QED BY <1>1, <1>2, Inductive, PTL DEF Spec, ImplementsStream, Buffer!Spec
=============================================================================
