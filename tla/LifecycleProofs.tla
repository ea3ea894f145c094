-------------------------- MODULE LifecycleProofs --------------------------
(***************************************************************************)
(* For any number of processes, handles, files and semaphores: every       *)
(* reference count is the number of references there are, and a process    *)
(* that has terminated holds nothing.                                      *)
(*                                                                         *)
(* Neither is inductive alone.  That a count is right after a handle has   *)
(* been dropped needs to know what is in the slot that a process waits to  *)
(* close while others run (Control), that it alone is at the head of the   *)
(* queue for openFilesMutex (Queued), and that the last reference to a     *)
(* process is never dropped before it has been reaped (Referenced).  That  *)
(* exit() leaves no handle needs to know what closeAll has still to do     *)
(* when the process is killed between two of its steps (ControlOf).        *)
(***************************************************************************)
EXTENDS Lifecycle, QueueLemmas, FiniteSetTheorems, WellFoundedInduction

Locking == {"closing", "wait", "file", "stuck"}
Filing == {"opening", "wait", "file", "stuck"}

\* What the place where a process is says of its table and of what it is
\* about to do with it, whatever the other processes do meanwhile.
ControlOf(p) ==
  /\ held[p] <=> pc[p] \in Locking
  /\ pc[p] = "opening" => target[p] \in File
  /\ pc[p] = "join" => target[p] \in Slot /\ table[p][target[p]] \in Entry
                         /\ table[p][target[p]].type = "process"
  /\ pc[p] \in {"wait", "file", "stuck"} =>
        todo[p] \intersect Full(p) # {} /\ table[p][Current(p)].type = "file"
  /\ pc[p] \in Locking /\ then[p] = "exit" => todo[p] = Slot
  /\ pc[p] \in {"signal", "unborn"} => Full(p) = {}
  /\ pc[p] \in Terminated \cup {"park"} => done[p]
  /\ done[p] => /\ Full(p) = {}
                /\ \/ pc[p] \in {"exit", "signal", "park"} \cup Terminated
                   \/ pc[p] = "closing" /\ then[p] = "exit"

Control == \A p \in Proc : ControlOf(p)

\* openFilesMutex: who is in its queue, each once, and who has it.
Queued ==
  /\ IsInjective(files)
  /\ \A p \in Proc : p \in Range(files) <=> pc[p] \in Filing
  /\ \A p \in Proc : pc[p] \in {"file", "stuck"} => p = Head(files)

\* The slots that hold a handle, and their number.
Where(t, h) == {s \in Proc \X Slot : t[s[1]][s[2]] = h}
Count(t, h) == Cardinality(Where(t, h))
Finite(t) == \A h \in Entry : IsFiniteSet(Where(t, h))

\* The counts, and that the counted slots are finitely many.
Counted ==
  /\ Finite(table)
  /\ \A q \in Proc : refs[q] = Count(table, Handle("process", q))
                        + IF pc[q] \in {"unborn", "reaped", "gone"} THEN 0 ELSE 1
  /\ \A s \in Sem : sem[s] = Count(table, Handle("semaphore", s))
  /\ \A f \in File : open[f] = Count(table, Handle("file", f)) + leak[f]

\* Nobody has a handle on a process that does not exist, or no longer.
Referenced ==
  \A q \in Proc : pc[q] \in {"unborn", "gone"} => Count(table, Handle("process", q)) = 0

IInv == TypeOK /\ Control /\ Queued /\ Counted /\ Referenced
-----------------------------------------------------------------------------
Tables == [Proc -> [Slot -> Entry \cup {None}]]
Put(t, p, i, e) == [t EXCEPT ![p][i] = e]
Holds(t, p, h) == {i \in Slot : t[p][i] = h}
Inherit(t, p, c) == [t EXCEPT ![c] = [i \in Slot |-> Inherited(t[p][i])]]

\* The first free slot, and the next one to close, is one of the slots.
LEMMA MinSlot ==
  ASSUME NEW S \in SUBSET Slot, S # {}
  PROVE  Min(S) \in S
<1>1. S \subseteq Nat
  BY LifecycleAssumption DEF Slot
<1>2. PICK x \in S : \A y \in S : ~ (<<y, x>> \in OpToRel(<, Nat))
  BY <1>1, WFMin, NatLessThanWellFounded, Zenon
<1>3. \A y \in S : ~ (y < x)
  BY <1>1, <1>2, Zenon DEF OpToRel
<1>4. \A y \in S : x <= y
  BY <1>1, <1>3
<1> QED BY <1>4 DEF Min

\* A handle put in a free slot is one more slot with that handle.
LEMMA WherePut ==
  ASSUME NEW t \in Tables, NEW p \in Proc, NEW i \in Slot, t[p][i] = None,
         NEW h \in Entry, NEW u, u = Put(t, p, i, h)
  PROVE  /\ u \in Tables
         /\ <<p, i>> \notin Where(t, h)
         /\ Where(u, h) = Where(t, h) \cup {<<p, i>>}
         /\ \A g \in Entry \ {h} : Where(u, g) = Where(t, g)
<1>1. u \in Tables
  BY DEF Tables, Put
<1>2. u[p][i] = h /\ \A q \in Proc, j \in Slot : <<q, j>> # <<p, i>> => u[q][j] = t[q][j]
  BY DEF Tables, Put
<1>3. None \notin Entry
  BY EmptySlot
<1>4. <<p, i>> \notin Where(t, h)
  BY <1>3 DEF Where
<1>5. Where(u, h) = Where(t, h) \cup {<<p, i>>}
  BY <1>2 DEF Where
<1>6. ASSUME NEW g \in Entry \ {h}
      PROVE  Where(u, g) = Where(t, g)
  BY <1>2, <1>3, <1>6 DEF Where
<1> QED BY <1>1, <1>4, <1>5, <1>6

\* A slot that is emptied is one slot less with the handle that was in it.
LEMMA WhereEmptied ==
  ASSUME NEW t \in Tables, NEW p \in Proc, NEW i \in Slot, NEW h \in Entry,
         t[p][i] = h, NEW u, u = Put(t, p, i, None)
  PROVE  /\ u \in Tables
         /\ <<p, i>> \in Where(t, h)
         /\ Where(u, h) = Where(t, h) \ {<<p, i>>}
         /\ \A g \in Entry \ {h} : Where(u, g) = Where(t, g)
<1>1. u \in Tables
  BY DEF Tables, Put
<1>2. u[p][i] = None /\ \A q \in Proc, j \in Slot : <<q, j>> # <<p, i>> => u[q][j] = t[q][j]
  BY DEF Tables, Put
<1>3. None \notin Entry
  BY EmptySlot
<1>4. <<p, i>> \in Where(t, h)
  BY <1>3 DEF Where
<1>5. Where(u, h) = Where(t, h) \ {<<p, i>>}
  BY <1>2, <1>3 DEF Where
<1>6. ASSUME NEW g \in Entry \ {h}
      PROVE  Where(u, g) = Where(t, g)
  BY <1>2, <1>3, <1>6 DEF Where
<1> QED BY <1>1, <1>4, <1>5, <1>6

\* Handles of different types, or on different objects, are different, and a
\* slot that is not empty holds one of the three types.
LEMMA HandleFacts ==
  /\ \A q \in Proc : Handle("process", q) \in Entry
  /\ \A s \in Sem : Handle("semaphore", s) \in Entry
  /\ \A f \in File : Handle("file", f) \in Entry
  /\ \A e \in Entry : \/ e.type = "process" /\ e.of \in Proc
                      \/ e.type = "semaphore" /\ e.of \in Sem
                      \/ e.type = "file" /\ e.of \in File
  /\ \A e \in Entry : e = Handle(e.type, e.of)
  /\ \A a, b, x, y : Handle(a, x) = Handle(b, y) => a = b /\ x = y
  /\ \A a, x : Handle(a, x).type = a /\ Handle(a, x).of = x
<1>1. /\ \A q \in Proc : Handle("process", q) \in Entry
      /\ \A s \in Sem : Handle("semaphore", s) \in Entry
      /\ \A f \in File : Handle("file", f) \in Entry
  BY DEF Handle, Entry
<1>2. \A a, x : Handle(a, x).type = a /\ Handle(a, x).of = x
  BY DEF Handle
<1>3. \A a, b, x, y : Handle(a, x) = Handle(b, y) => a = b /\ x = y
  BY <1>2
<1>4. ASSUME NEW e \in Entry
      PROVE  /\ \/ e.type = "process" /\ e.of \in Proc
                \/ e.type = "semaphore" /\ e.of \in Sem
                \/ e.type = "file" /\ e.of \in File
             /\ e = Handle(e.type, e.of)
  BY DEF Handle, Entry
<1> QED BY <1>1, <1>2, <1>3, <1>4

\* The number of handles is a natural number.
LEMMA CountType ==
  ASSUME NEW t, Finite(t)
  PROVE  \A h \in Entry : Count(t, h) \in Nat
BY FS_CardinalityType DEF Finite, Count

\* WherePut, in numbers.
LEMMA CountPut ==
  ASSUME NEW t \in Tables, Finite(t), NEW p \in Proc, NEW i \in Slot, t[p][i] = None,
         NEW h \in Entry, NEW u, u = Put(t, p, i, h)
  PROVE  /\ u \in Tables /\ Finite(u)
         /\ Count(u, h) = Count(t, h) + 1
         /\ \A g \in Entry : g # h => Count(u, g) = Count(t, g)
<1>1. /\ u \in Tables
      /\ <<p, i>> \notin Where(t, h)
      /\ Where(u, h) = Where(t, h) \cup {<<p, i>>}
      /\ \A g \in Entry \ {h} : Where(u, g) = Where(t, g)
  BY WherePut
<1>2. IsFiniteSet(Where(t, h))
  BY DEF Finite
<1>3. IsFiniteSet(Where(u, h)) /\ Cardinality(Where(u, h)) = Cardinality(Where(t, h)) + 1
  <2>1. \A S, x : IsFiniteSet(S) /\ x \notin S =>
            IsFiniteSet(S \cup {x}) /\ Cardinality(S \cup {x}) = Cardinality(S) + 1
    BY FS_AddElement
  <2> QED BY <1>1, <1>2, <2>1, Zenon
<1>4. \A g \in Entry : g # h => Where(u, g) = Where(t, g)
  BY <1>1
<1>5. Finite(u)
  BY <1>3, <1>4 DEF Finite
<1> QED BY <1>1, <1>3, <1>4, <1>5 DEF Count

\* WhereEmptied, in numbers.
LEMMA CountEmptied ==
  ASSUME NEW t \in Tables, Finite(t), NEW p \in Proc, NEW i \in Slot, NEW h \in Entry,
         t[p][i] = h, NEW u, u = Put(t, p, i, None)
  PROVE  /\ u \in Tables /\ Finite(u)
         /\ Count(t, h) \in Nat \ {0}
         /\ Count(u, h) = Count(t, h) - 1
         /\ \A g \in Entry : g # h => Count(u, g) = Count(t, g)
<1>1. /\ u \in Tables
      /\ <<p, i>> \in Where(t, h)
      /\ Where(u, h) = Where(t, h) \ {<<p, i>>}
      /\ \A g \in Entry \ {h} : Where(u, g) = Where(t, g)
  BY WhereEmptied
<1>2. IsFiniteSet(Where(t, h))
  BY DEF Finite
<1>3. IsFiniteSet(Where(u, h)) /\ Cardinality(Where(u, h)) = Cardinality(Where(t, h)) - 1
  <2>1. \A S, x : IsFiniteSet(S) /\ x \in S =>
            IsFiniteSet(S \ {x}) /\ Cardinality(S \ {x}) = Cardinality(S) - 1
    BY FS_RemoveElement
  <2> DEFINE W == Where(t, h)
             x == <<p, i>>
  <2>2. x \in W /\ Where(u, h) = W \ {x} /\ IsFiniteSet(W)
    BY <1>1, <1>2
  <2> HIDE DEF W, x
  <2>3. IsFiniteSet(Where(u, h)) /\ Cardinality(Where(u, h)) = Cardinality(W) - 1
    BY <2>1, <2>2
  <2> QED BY <2>3 DEF W
<1>4. Cardinality(Where(t, h)) \in Nat \ {0}
  BY <1>1, <1>2, FS_EmptySet, FS_CardinalityType
<1>5. \A g \in Entry : g # h => Where(u, g) = Where(t, g)
  BY <1>1
<1>6. Finite(u)
  BY <1>3, <1>5 DEF Finite
<1> QED BY <1>1, <1>3, <1>4, <1>5, <1>6 DEF Count

\* A child's table adds as many handles as its parent has, except those on
\* processes, of which it adds none.
LEMMA CountInherit ==
  ASSUME NEW t \in Tables, Finite(t), NEW p \in Proc, NEW c \in Proc, p # c,
         \A i \in Slot : t[c][i] = None,
         NEW u, u = Inherit(t, p, c)
  PROVE  /\ u \in Tables /\ Finite(u)
         /\ \A h \in Entry :
               /\ h.type = "process" => Count(u, h) = Count(t, h)
               /\ h.type # "process" =>
                     Count(u, h) = Count(t, h) + Cardinality(Holds(t, p, h))
<1>1. \A i \in Slot : Inherited(t[p][i]) \in Entry \cup {None}
  BY DEF Tables, Inherited
<1>2. u \in Tables
  BY <1>1 DEF Tables, Inherit
<1>3. /\ \A i \in Slot : u[c][i] = Inherited(t[p][i])
      /\ \A q \in Proc \ {c} : u[q] = t[q]
  BY DEF Tables, Inherit
<1>4. None \notin Entry
  BY EmptySlot
<1>5. IsFiniteSet(Slot)
  BY FS_Interval, LifecycleAssumption DEF Slot
<1>6. ASSUME NEW h \in Entry
      PROVE  /\ IsFiniteSet(Where(u, h))
             /\ h.type = "process" => Count(u, h) = Count(t, h)
             /\ h.type # "process" =>
                   Count(u, h) = Count(t, h) + Cardinality(Holds(t, p, h))
  <2>1. CASE h.type = "process"
    <3>1. Where(u, h) = Where(t, h)
      <4>1. \A i \in Slot : Inherited(t[p][i]) # h
        BY <1>4, <2>1 DEF Inherited
      <4> QED BY <1>3, <1>4, <4>1 DEF Where
    <3> QED BY <2>1, <3>1, CountType DEF Count, Finite
  <2>2. CASE h.type # "process"
    <3> DEFINE W == Where(t, h)
               S == Holds(t, p, h)
               C == {c} \X S
    <3>1. \A i \in Slot : Inherited(t[p][i]) = h <=> t[p][i] = h
      BY <1>4, <2>2 DEF Inherited
    <3>2. Where(u, h) = W \cup C
      BY <1>3, <1>4, <3>1 DEF Where, Holds
    <3>3. W \cap C = {}
      BY <1>4 DEF Where
    <3>4. IsFiniteSet(W)
      BY DEF Finite
    <3>5. IsFiniteSet(S)
      BY <1>5, FS_Subset DEF Holds
    <3>6. IsFiniteSet({c}) /\ Cardinality({c}) = 1
      BY FS_Singleton
    <3>7. Cardinality(S) \in Nat /\ Cardinality(W) \in Nat /\ Cardinality({}) = 0
      BY <3>4, <3>5, FS_CardinalityType, FS_EmptySet
    <3> HIDE DEF W, S
    <3>8. IsFiniteSet(C) /\ Cardinality(C) = Cardinality(S)
      BY <3>5, <3>6, <3>7, FS_Product
    <3> HIDE DEF C
    <3>9. IsFiniteSet(W \cup C) /\ Cardinality(W \cup C) = Cardinality(W) + Cardinality(S)
      <4>1. /\ IsFiniteSet(W \cup C)
            /\ Cardinality(W \cup C) = Cardinality(W) + Cardinality(C) - Cardinality(W \cap C)
        BY <3>4, <3>8, FS_Union, Zenon
      <4>2. Cardinality(W \cap C) = 0
        BY <3>3, <3>7, Zenon
      <4> QED BY <3>7, <3>8, <4>1, <4>2
    <3> QED BY <2>2, <3>2, <3>9 DEF Count, W, S
  <2> QED BY <2>1, <2>2
<1> QED BY <1>2, <1>6 DEF Finite
-----------------------------------------------------------------------------
(* What the actions use of the invariant.                                  *)

\* Slots, free and full, and the first of each.
LEMMA SlotFacts ==
  ASSUME TypeOK, NEW p \in Proc
  PROVE  /\ table \in Tables
         /\ Free(p) \subseteq Slot /\ Full(p) \subseteq Slot
         /\ \A i \in Slot : i \in Full(p) <=> i \notin Free(p)
         /\ \A i \in Full(p) : table[p][i] \in Entry
         /\ \A i \in Free(p) : table[p][i] = None
         /\ Free(p) # {} => Min(Free(p)) \in Free(p)
         /\ todo[p] \intersect Full(p) # {} => Current(p) \in todo[p] \intersect Full(p)
<1>1. Free(p) \subseteq Slot /\ Full(p) \subseteq Slot
  BY DEF Free, Full
<1>2. table \in Tables /\ \A i \in Full(p) : table[p][i] \in Entry
  BY DEF TypeOK, Tables, Full, Free
<1>3. todo[p] \intersect Full(p) \in SUBSET Slot
  BY <1>1
<1> QED BY <1>1, <1>2, <1>3, MinSlot DEF Free, Full, Current

\* The handle that Drop takes out: it is counted, so the count it lowers is
\* not 0, and a process whose last reference it is has been reaped.
LEMMA DropFacts ==
  ASSUME IInv, NEW p \in Proc, todo[p] \intersect Full(p) # {},
         NEW e, e = table[p][Current(p)]
  PROVE  /\ Current(p) \in Slot /\ Current(p) \in Full(p) /\ e \in Entry
         /\ Count(table, e) \in Nat \ {0}
         /\ e.type = "process" =>
              /\ e.of \in Proc /\ e = Handle("process", e.of)
              /\ refs[e.of] \in Nat \ {0}
              /\ refs[e.of] = 1 => pc[e.of] = "reaped"
         /\ e.type = "semaphore" =>
              e.of \in Sem /\ e = Handle("semaphore", e.of) /\ sem[e.of] \in Nat \ {0}
         /\ e.type = "file" =>
              e.of \in File /\ e = Handle("file", e.of) /\ open[e.of] \in Nat \ {0}
<1>1. TypeOK /\ Counted /\ Referenced /\ Finite(table)
  BY DEF IInv, Counted
<1>2. Current(p) \in Slot /\ Current(p) \in Full(p) /\ e \in Entry /\ table \in Tables
  BY <1>1, SlotFacts
<1>3. Count(table, e) \in Nat \ {0}
  <2> DEFINE u == Put(table, p, Current(p), None)
  <2> HIDE DEF u
  <2> QED BY <1>1, <1>2, CountEmptied
<1>4. ASSUME e.type = "process"
      PROVE  /\ e.of \in Proc /\ e = Handle("process", e.of)
             /\ refs[e.of] \in Nat \ {0}
             /\ refs[e.of] = 1 => pc[e.of] = "reaped"
  <2>1. e.of \in Proc /\ e = Handle("process", e.of)
    BY <1>2, <1>4, HandleFacts
  <2>2. refs[e.of] = Count(table, e) + IF pc[e.of] \in {"unborn", "reaped", "gone"} THEN 0 ELSE 1
    BY <1>1, <2>1 DEF Counted
  <2>3. pc[e.of] \notin {"unborn", "gone"}
    BY <1>1, <1>3, <2>1 DEF Referenced
  <2> QED BY <1>3, <2>1, <2>2, <2>3
<1>5. ASSUME e.type = "semaphore"
      PROVE  e.of \in Sem /\ e = Handle("semaphore", e.of) /\ sem[e.of] \in Nat \ {0}
  <2>1. e.of \in Sem /\ e = Handle("semaphore", e.of)
    BY <1>2, <1>5, HandleFacts
  <2> QED BY <1>1, <1>3, <2>1 DEF Counted
<1>6. ASSUME e.type = "file"
      PROVE  e.of \in File /\ e = Handle("file", e.of) /\ open[e.of] \in Nat \ {0}
  <2>1. e.of \in File /\ e = Handle("file", e.of)
    BY <1>2, <1>6, HandleFacts
  <2>2. open[e.of] = Count(table, e) + leak[e.of] /\ leak[e.of] \in Nat
    BY <1>1, <2>1 DEF Counted, TypeOK
  <2> QED BY <1>3, <2>1, <2>2
<1> QED BY <1>2, <1>3, <1>4, <1>5, <1>6

\* PutHandle adds a handle if there is a free slot, and touches no other table.
LEMMA PutFacts ==
  ASSUME TypeOK, Finite(table), NEW p \in Proc, NEW h \in Entry, PutHandle(p, h)
  PROVE  /\ table' \in Tables /\ Finite(table')
         /\ Count(table', h) = Count(table, h) + Gets(p)
         /\ \A g \in Entry : g # h => Count(table', g) = Count(table, g)
         /\ \A q \in Proc \ {p} : table'[q] = table[q]
<1>1. table \in Tables /\ \A g \in Entry : Count(table, g) \in Nat
  BY SlotFacts, CountType
<1>2. CASE Free(p) = {}
  <2>1. table' = table /\ Gets(p) = 0
    BY <1>2 DEF PutHandle, Gets
  <2> QED BY <1>1, <2>1
<1>3. CASE Free(p) # {}
  <2>1. table' = Put(table, p, Min(Free(p)), h) /\ Gets(p) = 1
    BY <1>3 DEF PutHandle, Gets, Put
  <2>2. Min(Free(p)) \in Slot /\ table[p][Min(Free(p))] = None
    BY <1>3, SlotFacts
  <2>3. \A q \in Proc \ {p} : table'[q] = table[q]
    BY <1>1, <2>1 DEF Put, Tables
  <2> HIDE <1>3
  <2> DEFINE i == Min(Free(p))
  <2> HIDE DEF i
  <2>4. table' = Put(table, p, i, h) /\ i \in Slot /\ table[p][i] = None
    BY <2>1, <2>2 DEF i
  <2>5. /\ table' \in Tables /\ Finite(table')
        /\ Count(table', h) = Count(table, h) + 1
        /\ \A g \in Entry : g # h => Count(table', g) = Count(table, g)
    BY <1>1, <2>4, CountPut
  <2> QED BY <2>1, <2>3, <2>5
<1> QED BY <1>2, <1>3

\* Emptied takes out the handle that close() has come to, and no other.
LEMMA EmptiedFacts ==
  ASSUME IInv, NEW p \in Proc, todo[p] \intersect Full(p) # {}, Emptied(p),
         NEW e, e = table[p][Current(p)]
  PROVE  /\ table' \in Tables /\ Finite(table')
         /\ Count(table', e) = Count(table, e) - 1
         /\ \A g \in Entry : g # e => Count(table', g) = Count(table, g)
         /\ \A q \in Proc \ {p} : table'[q] = table[q]
         /\ \A i \in Slot : table'[p][i] \in {None, table[p][i]}
<1> DEFINE i == Current(p)
<1>1. TypeOK /\ Finite(table) /\ table \in Tables
  BY SlotFacts DEF IInv, Counted
<1>2. i \in Slot /\ e \in Entry /\ table[p][i] = e
  BY DropFacts
<1>3. table' = Put(table, p, i, None)
  BY DEF Emptied, Put
<1> HIDE DEF i
<1>4. /\ table' \in Tables /\ Finite(table')
      /\ Count(table', e) = Count(table, e) - 1
      /\ \A g \in Entry : g # e => Count(table', g) = Count(table, g)
  BY <1>1, <1>2, <1>3, CountEmptied
<1>5. /\ \A q \in Proc \ {p} : table'[q] = table[q]
      /\ \A j \in Slot : table'[p][j] \in {None, table[p][j]}
  BY <1>1, <1>2, <1>3 DEF Put, Tables
<1> QED BY <1>4, <1>5

\* The tables after fork: what the child inherits, and the parent's handle on
\* the child.
ForkTables(p, c) ==
  table' = [table EXCEPT
      ![c] = [i \in Slot |-> Inherited(table[p][i])],
      ![p] = [i \in Slot |-> IF Free(p) # {} /\ i = Min(Free(p))
                             THEN Handle("process", c) ELSE @[i]]]

\* fork adds a handle on the child, if there is a free slot for it, and a
\* handle on everything but a process that the parent has a handle on.
LEMMA ForkFacts ==
  ASSUME TypeOK, Finite(table), NEW p \in Proc, NEW c \in Proc, p # c, Full(c) = {},
         ForkTables(p, c)
  PROVE  /\ table' \in Tables /\ Finite(table')
         /\ \A q \in Proc : Count(table', Handle("process", q))
              = Count(table, Handle("process", q)) + IF q = c THEN Gets(p) ELSE 0
         /\ \A s \in Sem : Count(table', Handle("semaphore", s))
              = Count(table, Handle("semaphore", s)) + Copies(p, "semaphore", s)
         /\ \A f \in File : Count(table', Handle("file", f))
              = Count(table, Handle("file", f)) + Copies(p, "file", f)
         /\ \A q \in Proc \ {p, c} : table'[q] = table[q]
<1> DEFINE u == Inherit(table, p, c)
           h == Handle("process", c)
<1>1. table \in Tables /\ \A i \in Slot : table[c][i] = None
  BY SlotFacts
<1>2. h \in Entry
  BY HandleFacts
<1>3. u[p] = table[p] /\ \A q \in Proc \ {c} : u[q] = table[q]
  BY <1>1 DEF Inherit, Tables
<1> HIDE DEF u
<1>4. /\ u \in Tables /\ Finite(u)
      /\ \A g \in Entry :
            /\ g.type = "process" => Count(u, g) = Count(table, g)
            /\ g.type # "process" =>
                  Count(u, g) = Count(table, g) + Cardinality(Holds(table, p, g))
  BY <1>1, CountInherit DEF u
<1>5. /\ table' \in Tables /\ Finite(table')
      /\ Count(table', h) = Count(u, h) + Gets(p)
      /\ \A g \in Entry : g # h => Count(table', g) = Count(u, g)
      /\ \A q \in Proc \ {p, c} : table'[q] = table[q]
  <2>1. CASE Free(p) = {}
    <3>1. table' = u
      BY <1>1, <2>1 DEF ForkTables, Inherit, Tables, u
    <3>2. Gets(p) = 0 /\ Count(u, h) \in Nat
      BY <1>2, <1>4, <2>1, CountType DEF Gets
    <3> QED BY <1>3, <1>4, <3>1, <3>2
  <2>2. CASE Free(p) # {}
    <3> DEFINE i == Min(Free(p))
    <3>1. i \in Slot /\ u[p][i] = None /\ Gets(p) = 1
      BY <1>3, <2>2, SlotFacts DEF Gets
    <3>2. table' = Put(u, p, i, h)
      BY <1>1, <2>2, <3>1 DEF ForkTables, Inherit, Tables, u, Put
    <3> HIDE DEF i, h
    <3>3. /\ table' \in Tables /\ Finite(table')
          /\ Count(table', h) = Count(u, h) + 1
          /\ \A g \in Entry : g # h => Count(table', g) = Count(u, g)
      BY <1>2, <1>4, <3>1, <3>2, CountPut
    <3>4. \A q \in Proc \ {p, c} : table'[q] = table[q]
      BY <1>3, <1>4, <3>2 DEF Put, Tables
    <3> QED BY <3>1, <3>3, <3>4
  <2> QED BY <2>1, <2>2
<1>6. ASSUME NEW q \in Proc
      PROVE  Count(table', Handle("process", q))
               = Count(table, Handle("process", q)) + IF q = c THEN Gets(p) ELSE 0
  <2>1. Handle("process", q) \in Entry /\ Handle("process", q).type = "process"
    BY HandleFacts
  <2>2. q # c => Handle("process", q) # h
    BY HandleFacts
  <2>3. Count(table, Handle("process", q)) \in Nat
    BY <2>1, CountType
  <2>4. Count(u, Handle("process", q)) = Count(table, Handle("process", q))
    BY <1>4, <2>1, <2>3
  <2>5. CASE q = c
    BY <1>5, <2>4, <2>5 DEF h
  <2>6. CASE q # c
    BY <1>5, <2>1, <2>2, <2>3, <2>4, <2>6
  <2> QED BY <2>5, <2>6
<1>7. ASSUME NEW type \in {"semaphore", "file"}, NEW x, Handle(type, x) \in Entry
      PROVE  Count(table', Handle(type, x)) = Count(table, Handle(type, x)) + Copies(p, type, x)
  <2>1. Handle(type, x).type # "process" /\ Handle(type, x) # h
    BY HandleFacts
  <2> QED BY <1>4, <1>5, <1>7, <2>1 DEF Copies, Holds
<1>8. /\ \A s \in Sem : Handle("semaphore", s) \in Entry
      /\ \A f \in File : Handle("file", f) \in Entry
  BY HandleFacts
<1> QED BY <1>5, <1>6, <1>7, <1>8

\* A process that is in the queue for openFilesMutex makes it not empty.
LEMMA FilingFacts ==
  ASSUME IInv, NEW p \in Proc, pc[p] \in Filing
  PROVE  files # << >> /\ files \in Seq(Proc) /\ p \in Range(files)
BY QueueEmpty DEF IInv, Queued, TypeOK

-----------------------------------------------------------------------------
(* Every step keeps the types: no count falls below zero.                  *)

\* The last reference to a process deletes it; the count of references that
\* Unref lowers is not 0, and only a process that has been reaped is deleted.
LEMMA UnrefFacts ==
  ASSUME TypeOK, NEW q \in Proc, Unref(q), refs[q] \in Nat \ {0},
         refs[q] = 1 => pc[q] = "reaped"
  PROVE  /\ refs' \in [Proc -> Nat] /\ refs'[q] = refs[q] - 1
         /\ pc' \in [Proc -> Location]
         /\ \A x \in Proc : x # q => refs'[x] = refs[x]
         /\ \A x \in Proc : \/ pc'[x] = pc[x] /\ (x = q => refs[q] # 1)
                            \/ x = q /\ pc[x] = "reaped" /\ pc'[x] = "gone" /\ refs[q] = 1
BY DEF TypeOK, Unref, Location, Terminated

\* Every step keeps the types.
LEMMA TypeStep ==
  ASSUME IInv, [Next]_vars
  PROVE  TypeOK'
<1> DEFINE Typed == /\ pc' \in [Proc -> Location] /\ table' \in Tables
                    /\ held' \in [Proc -> BOOLEAN] /\ todo' \in [Proc -> SUBSET Slot]
                    /\ then' \in [Proc -> {"user", "exec", "exit"}]
                    /\ target' \in [Proc -> Slot \cup File \cup {None}]
                    /\ killed' \in [Proc -> BOOLEAN] /\ inIrq' \in [Proc -> BOOLEAN]
                    /\ panicked' \in BOOLEAN /\ done' \in [Proc -> BOOLEAN]
                    /\ refs' \in [Proc -> Nat] /\ sem' \in [Sem -> Nat]
                    /\ open' \in [File -> Nat] /\ leak' \in [File -> Nat]
                    /\ files' \in Seq(Proc)
<1> SUFFICES Typed
  BY DEF TypeOK, Tables
<1>1. /\ pc \in [Proc -> Location] /\ table \in Tables
      /\ held \in [Proc -> BOOLEAN] /\ todo \in [Proc -> SUBSET Slot]
      /\ then \in [Proc -> {"user", "exec", "exit"}]
      /\ target \in [Proc -> Slot \cup File \cup {None}]
      /\ killed \in [Proc -> BOOLEAN] /\ inIrq \in [Proc -> BOOLEAN]
      /\ panicked \in BOOLEAN /\ done \in [Proc -> BOOLEAN]
      /\ refs \in [Proc -> Nat] /\ sem \in [Sem -> Nat]
      /\ open \in [File -> Nat] /\ leak \in [File -> Nat]
      /\ files \in Seq(Proc)
  BY DEF IInv, TypeOK, Tables
<1>2. TypeOK /\ Finite(table) /\ Control
  BY DEF IInv, Counted
<1> USE DEF counts, flow, fate, Goto, Location, Exiting, Terminated
<1>3. CASE UNCHANGED vars
  BY <1>1, <1>3 DEF vars
<1>4. ASSUME NEW p \in Proc, Fork(p)
      PROVE  Typed
  <2>1. PICK c \in Proc : /\ pc[c] = "unborn" /\ ForkTables(p, c)
                          /\ refs' = [refs EXCEPT ![c] = 1 + Gets(p)] /\ Goto(c, "born")
    BY <1>4 DEF Fork, ForkTables
  <2>2. p # c /\ Full(c) = {}
    BY <1>2, <1>4, <2>1 DEF Fork, User, Control, ControlOf
  <2>3. table' \in Tables
    BY <1>2, <2>1, <2>2, ForkFacts
  <2>4. \A type, x : Copies(p, type, x) \in Nat
    <3>1. IsFiniteSet(Slot)
      BY FS_Interval, LifecycleAssumption DEF Slot
    <3>2. \A type, x : IsFiniteSet({i \in Slot : table[p][i] = Handle(type, x)})
      BY <3>1, FS_Subset
    <3> QED BY <3>2, FS_CardinalityType DEF Copies
  <2>5. Gets(p) \in Nat
    BY DEF Gets
  <2> QED BY <1>1, <1>4, <2>1, <2>3, <2>4, <2>5 DEF Fork
<1>5. ASSUME NEW p \in Proc, NewSemaphore(p)
      PROVE  Typed
  <2>1. PICK s \in Sem : PutHandle(p, Handle("semaphore", s)) /\ sem' = [sem EXCEPT ![s] = Gets(p)]
    BY <1>5 DEF NewSemaphore
  <2>2. table' \in Tables
    BY <1>2, <2>1, PutFacts, HandleFacts
  <2> QED BY <1>1, <1>5, <2>1, <2>2 DEF NewSemaphore, Gets
<1>6. ASSUME NEW p \in Proc, Opened(p)
      PROVE  Typed
  <2>1. target[p] \in File /\ files # << >>
    BY <1>2, <1>6, FilingFacts DEF Control, ControlOf, Opened, Obtained, Filing
  <2>2. table' \in Tables
    BY <1>2, <1>6, <2>1, PutFacts, HandleFacts DEF Opened
  <2>3. files' \in Seq(Proc)
    BY <1>1, <1>6, <2>1 DEF Opened, Obtained
  <2>4. open' \in [File -> Nat] /\ leak' \in [File -> Nat] /\ target' \in [Proc -> Slot \cup File \cup {None}]
    BY <1>1, <1>6, <2>1 DEF Opened, Obtained, Leak, Gets
  <2> QED BY <1>1, <1>6, <2>2, <2>3, <2>4 DEF Opened
<1>7. ASSUME NEW p \in Proc, Exec(p)
      PROVE  Typed
  <2>1. target[p] \in File /\ files # << >>
    BY <1>2, <1>7, FilingFacts DEF Control, ControlOf, Exec, Obtained, Filing
  <2>2. files' \in Seq(Proc)
    BY <1>1, <1>7, <2>1 DEF Exec, Obtained
  <2>3. open' \in [File -> Nat] /\ leak' \in [File -> Nat] /\ target' \in [Proc -> Slot \cup File \cup {None}]
    BY <1>1, <1>7, <2>1, SMTT(40) DEF Exec, Obtained, Leak
  <2> QED BY <1>1, <1>7, <2>2, <2>3 DEF Exec, LockTable
<1>8. ASSUME NEW p \in Proc, Drop(p)
      PROVE  Typed
  <2> DEFINE e == table[p][Current(p)]
  <2>1. todo[p] \intersect Full(p) # {}
    BY <1>8 DEF Drop
  <2>2. CASE e.type = "process" /\ Unref(e.of) /\ Emptied(p) /\ UNCHANGED <<sem, open, files, panicked>>
    <3>1. table' \in Tables
      BY <2>1, <2>2, EmptiedFacts
    <3>2. e.of \in Proc /\ refs[e.of] \in Nat \ {0} /\ (refs[e.of] = 1 => pc[e.of] = "reaped")
      BY <2>1, <2>2, DropFacts
    <3> HIDE DEF e
    <3>3. refs' \in [Proc -> Nat] /\ pc' \in [Proc -> Location]
      BY <1>2, <2>2, <3>2, UnrefFacts
    <3> QED BY <1>1, <1>8, <2>2, <3>1, <3>3 DEF Drop
  <2>3. CASE e.type = "semaphore" /\ sem' = [sem EXCEPT ![e.of] = @ - 1] /\ Emptied(p)
             /\ UNCHANGED <<pc, refs, open, files, panicked>>
    <3>1. table' \in Tables
      BY <2>1, <2>3, EmptiedFacts
    <3>2. e.of \in Sem /\ sem[e.of] \in Nat \ {0}
      BY <2>1, <2>3, DropFacts
    <3> HIDE DEF e
    <3> QED BY <1>1, <1>8, <2>3, <3>1, <3>2 DEF Drop
  <2>4. CASE /\ files' = Append(files, p) /\ Goto(p, IF files = << >> THEN "file" ELSE "wait")
             /\ UNCHANGED <<table, refs, sem, open, panicked>>
    BY <1>1, <1>8, <2>4 DEF Drop
  <2>5. CASE panicked' = TRUE /\ UNCHANGED <<pc, table, refs, sem, open, files>>
    BY <1>1, <1>8, <2>5 DEF Drop
  <2> QED BY <1>8, <2>2, <2>3, <2>4, <2>5 DEF Drop
<1>9. ASSUME NEW p \in Proc, CloseFile(p)
      PROVE  Typed
  <2> DEFINE e == table[p][Current(p)]
  <2>1. todo[p] \intersect Full(p) # {} /\ e.type = "file" /\ files # << >>
    BY <1>2, <1>9, FilingFacts DEF Control, ControlOf, CloseFile, Filing
  <2>2. table' \in Tables
    BY <1>9, <2>1, EmptiedFacts DEF CloseFile
  <2>3. e.of \in File /\ open[e.of] \in Nat \ {0}
    BY <2>1, DropFacts
  <2>4. open' = [open EXCEPT ![e.of] = @ - 1]
    BY <1>9 DEF CloseFile
  <2>5. files' \in Seq(Proc)
    BY <1>1, <1>9, <2>1 DEF CloseFile
  <2> HIDE DEF e
  <2>6. open' \in [File -> Nat]
    BY <1>1, <2>3, <2>4
  <2> QED BY <1>1, <1>9, <2>2, <2>5, <2>6 DEF CloseFile
<1>10. ASSUME NEW p \in Proc, Reap(p)
       PROVE  Typed
  <2>1. Count(table, Handle("process", p)) \in Nat
    BY <1>2, CountType, HandleFacts
  <2>2. refs[p] = Count(table, Handle("process", p)) + 1
    BY <1>10 DEF Reap, IInv, Counted
  <2> QED BY <1>1, <1>10, <2>1, <2>2 DEF Reap
<1>11. ASSUME NEW p \in Proc, Close(p)
       PROVE  Typed
  BY <1>1, <1>2, <1>11, SlotFacts DEF Close, LockTable
<1>12. ASSUME NEW p \in Proc, Join(p)
       PROVE  Typed
  BY <1>1, <1>2, <1>12, SlotFacts DEF Join
<1>13. ASSUME NEW p \in Proc, OpenCall(p) \/ ExecCall(p)
       PROVE  Typed
  <2>1. PICK f \in File, next \in {"user", "exec"} : LookupFile(p, f, next)
    BY <1>13 DEF OpenCall, ExecCall
  <2>2. files' = Append(files, p)
    BY <2>1 DEF LookupFile
  <2>3. files' \in Seq(Proc)
    BY <1>1, <2>2
  <2> QED BY <1>1, <2>1, <2>3 DEF LookupFile
<1>14. ASSUME NEW p \in Proc, JoinReturns(p)
       PROVE  Typed
  <2>1. target[p] \in Slot
    BY <1>2, <1>14 DEF Control, ControlOf, JoinReturns
  <2> QED BY <1>1, <1>14, <2>1 DEF JoinReturns, LockTable
<1>15. ASSUME NEW p \in Proc, Exit(p) \/ PageFault(p) \/ EmptyHandle(p) \/ Start(p)
       PROVE  Typed
  BY <1>1, <1>15 DEF Exit, PageFault, EmptyHandle, Kill, Start
<1>16. ASSUME NEW p \in Proc, CloseAll(p)
       PROVE  Typed
  BY <1>1, <1>16 DEF CloseAll, LockTable
<1>17. ASSUME NEW p \in Proc, Woken(p)
       PROVE  Typed
  BY <1>1, <1>17 DEF Woken
<1>18. ASSUME NEW p \in Proc, Closed(p)
       PROVE  Typed
  BY <1>1, <1>18 DEF Closed
<1>19. ASSUME NEW p \in Proc, Signal(p) \/ Park(p)
       PROVE  Typed
  BY <1>1, <1>19 DEF Signal, Park
<1>20. ASSUME NEW p \in Proc, Tick(p)
       PROVE  Typed
  BY <1>1, <1>20 DEF Tick
<1> QED BY <1>3, <1>4, <1>5, <1>6, <1>7, <1>8, <1>9, <1>10, <1>11, <1>12, <1>13, <1>14,
           <1>15, <1>16, <1>17, <1>18, <1>19, <1>20 DEF Next
-----------------------------------------------------------------------------
(* openFilesMutex: its queue and its holder.                               *)

\* Every step keeps the queue for openFilesMutex and its holder.
LEMMA QueuedStep ==
  ASSUME IInv, [Next]_vars
  PROVE  Queued'
<1>1. TypeOK /\ Control /\ pc \in [Proc -> Location] /\ files \in Seq(Proc)
  BY DEF IInv, TypeOK
<1>2. /\ IsInjective(files)
      /\ \A q \in Proc : q \in Range(files) <=> pc[q] \in Filing
      /\ \A q \in Proc : pc[q] \in {"file", "stuck"} => q = Head(files)
  BY DEF IInv, Queued
<1> USE DEF Goto, Filing, counts, flow, fate
<1>3. ASSUME files' = files,
             \A q \in Proc : \/ pc'[q] = pc[q]
                             \/ pc[q] \notin Filing /\ pc'[q] \notin Filing
      PROVE  Queued'
  BY <1>2, <1>3 DEF Queued
<1>4. ASSUME NEW p \in Proc, pc[p] \notin Filing, files' = Append(files, p),
             \/ pc' = [pc EXCEPT ![p] = "opening"] \/ pc' = [pc EXCEPT ![p] = "wait"]
             \/ files = << >> /\ pc' = [pc EXCEPT ![p] = "file"]
      PROVE  Queued'
  <2>1. p \notin Range(files)
    BY <1>2, <1>4
  <2>2. IsInjective(files') /\ Range(files') = Range(files) \cup {p}
    BY <1>1, <1>2, <1>4, <2>1, QueueAppend
  <2>3. Head(files') = IF files = << >> THEN p ELSE Head(files)
    BY <1>1, <1>4
  <2>4. files = << >> => \A q \in Proc : pc[q] \notin Filing
    BY <1>2, QueueEmpty
  <2>5. \A q \in Proc : pc'[q] = IF q = p THEN pc'[p] ELSE pc[q]
    BY <1>1, <1>4
  <2>6. \A q \in Proc : q \in Range(files') <=> pc'[q] \in Filing
    BY <1>1, <1>2, <1>4, <2>2, <2>5
  <2>7. \A q \in Proc : pc'[q] \in {"file", "stuck"} => q = Head(files')
    BY <1>1, <1>2, <1>4, <2>3, <2>4, <2>5
  <2> QED BY <2>2, <2>6, <2>7 DEF Queued
<1>5. ASSUME NEW p \in Proc, pc[p] \in Filing, Head(files) = p, files' = Tail(files),
             NEW l, l \notin Filing, pc' = [pc EXCEPT ![p] = l]
      PROVE  Queued'
  <2>1. files # << >>
    BY <1>5, FilingFacts
  <2>2. IsInjective(files') /\ Range(files') = Range(files) \ {p}
    BY <1>1, <1>2, <1>5, <2>1, QueueTail
  <2>3. \A q \in Proc : pc'[q] = IF q = p THEN l ELSE pc[q]
    BY <1>1, <1>5
  <2> QED BY <1>2, <1>5, <2>2, <2>3 DEF Queued
<1>6. CASE UNCHANGED vars
  BY <1>3, <1>6 DEF vars
<1>7. ASSUME NEW p \in Proc, Fork(p)
      PROVE  Queued'
  BY <1>1, <1>3, <1>7 DEF Fork, User
<1>8. ASSUME NEW p \in Proc, NewSemaphore(p)
      PROVE  Queued'
  BY <1>3, <1>8 DEF NewSemaphore
<1>9. ASSUME NEW p \in Proc, OpenCall(p) \/ ExecCall(p)
      PROVE  Queued'
  BY <1>4, <1>9 DEF OpenCall, ExecCall, LookupFile, User
<1>10. ASSUME NEW p \in Proc, Opened(p) \/ Exec(p)
       PROVE  Queued'
  <2>1. /\ pc[p] \in Filing /\ Head(files) = p /\ files' = Tail(files)
        /\ pc' = [pc EXCEPT ![p] = "user"] \/ pc' = [pc EXCEPT ![p] = "closing"]
    BY <1>10 DEF Opened, Exec, Obtained, LockTable
  <2> QED BY <1>5, <2>1
<1>11. ASSUME NEW p \in Proc, Close(p) \/ Join(p) \/ JoinReturns(p) \/ CloseAll(p)
       PROVE  Queued'
  BY <1>1, <1>3, <1>11 DEF Close, Join, JoinReturns, CloseAll, LockTable, User
<1>12. ASSUME NEW p \in Proc, Exit(p) \/ PageFault(p) \/ EmptyHandle(p) \/ Start(p)
       PROVE  Queued'
  BY <1>1, <1>3, <1>12 DEF Exit, PageFault, EmptyHandle, Kill, Start, User
<1>13. ASSUME NEW p \in Proc, Drop(p)
       PROVE  Queued'
  <2> DEFINE e == table[p][Current(p)]
  <2>1. pc[p] = "closing" /\ todo[p] \intersect Full(p) # {} /\ e = table[p][Current(p)]
    BY <1>13 DEF Drop
  <2> HIDE DEF e
  <2>2. CASE e.type = "process" /\ Unref(e.of) /\ files' = files
    <3>1. e.of \in Proc /\ refs[e.of] \in Nat \ {0} /\ (refs[e.of] = 1 => pc[e.of] = "reaped")
      BY <2>1, <2>2, DropFacts, Zenon
    <3>2. \A q \in Proc : pc'[q] = pc[q] \/ (pc[q] = "reaped" /\ pc'[q] = "gone")
      BY <1>1, <2>2, <3>1 DEF Unref
    <3> QED BY <1>3, <2>2, <3>2
  <2>3. CASE files' = files /\ pc' = pc
    BY <1>3, <2>3
  <2>4. CASE files' = Append(files, p) /\ Goto(p, IF files = << >> THEN "file" ELSE "wait")
    BY <1>4, <2>1, <2>4
  <2> QED BY <1>13, <2>2, <2>3, <2>4 DEF Drop, e
<1>14. ASSUME NEW p \in Proc, Woken(p)
       PROVE  Queued'
  <2>1. /\ pc[p] = "wait" /\ Head(files) = p /\ files' = files
        /\ \A q \in Proc : pc'[q] = IF q = p THEN pc'[p] ELSE pc[q]
        /\ pc'[p] \in {"stuck", "file"}
    BY <1>1, <1>14 DEF Woken
  <2> QED BY <1>2, <2>1 DEF Queued
<1>15. ASSUME NEW p \in Proc, CloseFile(p)
       PROVE  Queued'
  <2>1. /\ pc[p] \in Filing /\ Head(files) = p /\ files' = Tail(files)
        /\ pc' = [pc EXCEPT ![p] = "closing"]
    BY <1>2, <1>15 DEF CloseFile
  <2> QED BY <1>5, <2>1
<1>16. ASSUME NEW p \in Proc, Closed(p) \/ Signal(p) \/ Park(p) \/ Reap(p)
       PROVE  Queued'
  BY <1>1, <1>3, <1>16 DEF Closed, Signal, Park, Reap
<1>17. ASSUME NEW p \in Proc, Tick(p)
       PROVE  Queued'
  <2>1. ~held[p] => pc[p] \notin Filing
    BY <1>1, <1>17 DEF Tick, Exiting, Control, ControlOf, Locking
  <2> QED BY <1>1, <1>3, <1>17, <2>1 DEF Tick
<1> QED BY <1>6, <1>7, <1>8, <1>9, <1>10, <1>11, <1>12, <1>13, <1>14, <1>15, <1>16, <1>17 DEF Next
-----------------------------------------------------------------------------
(* What a process has still to do, from one of its steps to the next.      *)

\* Nothing that another process does, short of deleting a process that has
\* been reaped, disturbs what a process is about to do.
LEMMA ControlKept ==
  ASSUME NEW q \in Proc, ControlOf(q),
         table'[q] = table[q], held'[q] = held[q], todo'[q] = todo[q],
         then'[q] = then[q], target'[q] = target[q], done'[q] = done[q],
         pc'[q] = pc[q] \/ (pc[q] = "reaped" /\ pc'[q] = "gone")
  PROVE  ControlOf(q)'
<1>1. Full(q)' = Full(q)
  BY DEF Full, Free
<1>2. Current(q)' = Current(q)
  BY <1>1 DEF Current
<1> QED BY <1>1, <1>2 DEF ControlOf, Locking, Exiting, Terminated

\* Every step keeps what each process has still to do.
LEMMA ControlStep ==
  ASSUME IInv, [Next]_vars
  PROVE  Control'
<1>1. /\ TypeOK /\ Finite(table) /\ Control
      /\ pc \in [Proc -> Location] /\ table \in Tables
      /\ held \in [Proc -> BOOLEAN] /\ todo \in [Proc -> SUBSET Slot]
      /\ then \in [Proc -> {"user", "exec", "exit"}]
      /\ target \in [Proc -> Slot \cup File \cup {None}]
      /\ done \in [Proc -> BOOLEAN]
  BY DEF IInv, TypeOK, Counted, Tables
<1>2. \A q \in Proc : ControlOf(q)
  BY <1>1 DEF Control
<1> USE DEF Goto, counts, flow, fate
<1>3. ASSUME NEW p \in Proc, ControlOf(p)',
             \A q \in Proc \ {p} :
                /\ table'[q] = table[q] /\ held'[q] = held[q] /\ todo'[q] = todo[q]
                /\ then'[q] = then[q] /\ target'[q] = target[q] /\ done'[q] = done[q]
                /\ pc'[q] = pc[q] \/ (pc[q] = "reaped" /\ pc'[q] = "gone")
      PROVE  Control'
  BY <1>2, <1>3, ControlKept DEF Control
<1>4. ASSUME NEW p \in Proc, table' = table
      PROVE  Full(p)' = Full(p) /\ (todo'[p] = todo[p] => Current(p)' = Current(p))
  <2>1. Full(p)' = Full(p)
    BY <1>4 DEF Full, Free
  <2> QED BY <2>1 DEF Current
<1>5. CASE UNCHANGED vars
  BY <1>2, <1>5, ControlKept DEF Control, vars
<1>6. ASSUME NEW p \in Proc, Fork(p)
      PROVE  Control'
  <2>1. PICK c \in Proc : /\ pc[c] = "unborn" /\ ForkTables(p, c) /\ Goto(c, "born")
    BY <1>6 DEF Fork, ForkTables
  <2>2. p # c /\ Full(c) = {} /\ pc[p] = "user" /\ UNCHANGED <<held, todo, then, target, done>>
    BY <1>2, <1>6, <2>1 DEF Fork, User, ControlOf
  <2>3. pc'[c] = "born" /\ \A q \in Proc \ {c} : pc'[q] = pc[q]
    BY <1>1, <2>1
  <2>4. \A q \in Proc \ {p, c} : table'[q] = table[q]
    BY <1>1, <2>1, <2>2, ForkFacts
  <2>5. ~held[c] /\ ~held[p] /\ ~done[c] /\ ~done[p]
    BY <1>2, <2>1, <2>2 DEF ControlOf, Locking, Exiting, Terminated
  <2>6. ControlOf(c)' /\ ControlOf(p)'
    BY <2>2, <2>3, <2>5 DEF ControlOf, Locking, Terminated
  <2> QED BY <1>2, <2>2, <2>3, <2>4, <2>6, ControlKept DEF Control
<1>7. ASSUME NEW p \in Proc, NEW h \in Entry, PutHandle(p, h), pc[p] \in {"user", "opening"},
             pc' = [pc EXCEPT ![p] = "user"],
             \A q \in Proc \ {p} : target'[q] = target[q],
             UNCHANGED <<held, todo, then, done>>
      PROVE  Control'
  <2>1. pc'[p] = "user" /\ \A q \in Proc \ {p} : pc'[q] = pc[q]
    BY <1>1, <1>7
  <2>2. ~held[p] /\ ~done[p]
    BY <1>2, <1>7 DEF ControlOf, Locking, Exiting, Terminated
  <2>3. ControlOf(p)'
    BY <1>7, <2>1, <2>2 DEF ControlOf, Locking, Terminated
  <2>4. \A q \in Proc \ {p} : table'[q] = table[q]
    BY <1>1, <1>7, PutFacts
  <2> QED BY <1>3, <1>7, <2>1, <2>3, <2>4
<1>8. ASSUME NEW p \in Proc, NewSemaphore(p)
      PROVE  Control'
  <2>1. PICK s \in Sem : PutHandle(p, Handle("semaphore", s))
    BY <1>8 DEF NewSemaphore
  <2>2. pc' = [pc EXCEPT ![p] = "user"]
    BY <1>1, <1>8 DEF NewSemaphore, User
  <2>3. pc[p] = "user" /\ UNCHANGED <<held, todo, then, target, done>>
    BY <1>8 DEF NewSemaphore, User
  <2> QED BY <1>7, <2>1, <2>2, <2>3, HandleFacts
<1>9. ASSUME NEW p \in Proc, Opened(p)
      PROVE  Control'
  <2>1. target[p] \in File
    BY <1>2, <1>9 DEF Opened, Obtained, ControlOf
  <2>2. /\ PutHandle(p, Handle("file", target[p])) /\ pc[p] = "opening"
        /\ pc' = [pc EXCEPT ![p] = "user"] /\ target' = [target EXCEPT ![p] = None]
        /\ UNCHANGED <<held, todo, then, done>>
    BY <1>9 DEF Opened, Obtained
  <2>3. \A q \in Proc \ {p} : target'[q] = target[q]
    BY <1>1, <2>2
  <2>4. Handle("file", target[p]) \in Entry
    BY <2>1, HandleFacts
  <2> QED BY <1>7, <2>2, <2>3, <2>4
\* A step of p that takes p's table mutex.
<1>10. ASSUME NEW p \in Proc, NEW S \in SUBSET Slot, NEW next \in {"user", "exit"},
              LockTable(p, S, next), next = "exit" => S = Slot, done[p] => next = "exit",
              table' = table, done' = done,
              \A q \in Proc \ {p} : target'[q] = target[q]
       PROVE  Control'
  <2>1. /\ pc'[p] = "closing" /\ held'[p] /\ todo'[p] = S /\ then'[p] = next
        /\ \A q \in Proc \ {p} : /\ pc'[q] = pc[q] /\ held'[q] = held[q] /\ todo'[q] = todo[q]
                                 /\ then'[q] = then[q]
    BY <1>1, <1>10 DEF LockTable
  <2>2. done[p] => Full(p) = {}
    BY <1>2 DEF ControlOf
  <2>3. ControlOf(p)'
    BY <1>4, <1>10, <2>1, <2>2 DEF ControlOf, Locking, Terminated
  <2> QED BY <1>3, <1>10, <2>1, <2>3
<1>11. ASSUME NEW p \in Proc, Exec(p) \/ Close(p) \/ JoinReturns(p) \/ CloseAll(p)
       PROVE  Control'
  <2>1. CASE Exec(p)
    <3>1. LockTable(p, Slot, "user") /\ UNCHANGED <<table, done>> /\ pc[p] = "opening"
          /\ target' = [target EXCEPT ![p] = None]
      BY <2>1 DEF Exec, Obtained
    <3>2. ~done[p]
      BY <1>2, <3>1 DEF ControlOf, Terminated
    <3>3. \A q \in Proc \ {p} : target'[q] = target[q]
      BY <1>1, <3>1
    <3> QED BY <1>10, <3>1, <3>2, <3>3
  <2>2. CASE Close(p)
    <3>1. PICK i \in Full(p) : LockTable(p, {i}, "user")
      BY <2>2 DEF Close
    <3>2. UNCHANGED <<table, target, done>> /\ pc[p] = "user" /\ {i} \in SUBSET Slot
      BY <1>1, <2>2, SlotFacts DEF Close, User
    <3>3. ~done[p]
      BY <1>2, <3>2 DEF ControlOf, Terminated
    <3> QED BY <1>10, <3>1, <3>2, <3>3
  <2>3. CASE JoinReturns(p)
    <3>1. LockTable(p, {target[p]}, "user") /\ UNCHANGED <<table, done>> /\ pc[p] = "join"
          /\ target' = [target EXCEPT ![p] = None]
      BY <2>3 DEF JoinReturns
    <3>2. ~done[p] /\ {target[p]} \in SUBSET Slot
      BY <1>2, <3>1 DEF ControlOf, Terminated
    <3>3. \A q \in Proc \ {p} : target'[q] = target[q]
      BY <1>1, <3>1
    <3> QED BY <1>10, <3>1, <3>2, <3>3
  <2>4. CASE CloseAll(p)
    BY <1>10, <2>4 DEF CloseAll
  <2> QED BY <1>11, <2>1, <2>2, <2>3, <2>4
\* A step of p that changes nothing but where p is, and done.
<1>12. ASSUME NEW p \in Proc, NEW l, NEW d \in BOOLEAN, pc' = [pc EXCEPT ![p] = l],
              done' = [done EXCEPT ![p] = d],
              held[p] <=> l \in Locking,
              l \notin {"opening", "join", "closing", "signal", "unborn"},
              l \in {"file", "wait", "stuck"} => pc[p] \in {"file", "wait", "stuck"},
              l \in Terminated \cup {"park"} => d,
              d => Full(p) = {} /\ l \in {"exit", "park"} \cup Terminated,
              UNCHANGED <<table, held, todo, then, target>>
       PROVE  Control'
  <2>1. /\ pc'[p] = l /\ done'[p] = d
        /\ \A q \in Proc \ {p} : pc'[q] = pc[q] /\ done'[q] = done[q]
    BY <1>1, <1>12
  <2>2. ControlOf(p)'
    BY <1>2, <1>4, <1>12, <2>1 DEF ControlOf, Locking, Terminated
  <2> QED BY <1>3, <1>12, <2>1, <2>2
<1>13. ASSUME NEW p \in Proc, OpenCall(p) \/ ExecCall(p)
       PROVE  Control'
  <2>1. PICK f \in File, next \in {"user", "exec"} : LookupFile(p, f, next)
    BY <1>13 DEF OpenCall, ExecCall
  <2>2. /\ pc[p] = "user" /\ pc'[p] = "opening" /\ target'[p] = f /\ UNCHANGED <<table, held, todo, done>>
        /\ \A q \in Proc \ {p} : pc'[q] = pc[q] /\ target'[q] = target[q] /\ then'[q] = then[q]
    BY <1>1, <2>1 DEF LookupFile, User
  <2>3. ControlOf(p)'
    BY <1>2, <2>2 DEF ControlOf, Locking, Terminated
  <2> QED BY <1>3, <2>2, <2>3
<1>14. ASSUME NEW p \in Proc, Join(p)
       PROVE  Control'
  <2>1. PICK i \in Full(p) : table[p][i].type = "process" /\ target' = [target EXCEPT ![p] = i]
    BY <1>14 DEF Join
  <2>2. /\ pc[p] = "user" /\ pc'[p] = "join" /\ target'[p] = i /\ UNCHANGED <<table, held, todo, then, done>>
        /\ \A q \in Proc \ {p} : pc'[q] = pc[q] /\ target'[q] = target[q]
    BY <1>1, <1>14, <2>1 DEF Join, User
  <2>3. i \in Slot /\ table[p][i] \in Entry
    BY <1>1, SlotFacts
  <2>4. ControlOf(p)'
    BY <1>2, <2>1, <2>2, <2>3 DEF ControlOf, Locking, Terminated
  <2> QED BY <1>3, <2>2, <2>4
\* A step of p that empties the next slot to be closed.
<1>15. ASSUME NEW p \in Proc, pc[p] \in {"closing", "file"}, todo[p] \intersect Full(p) # {},
              Emptied(p), pc'[p] = "closing", UNCHANGED <<held, todo, then, target, done>>,
              \A q \in Proc \ {p} : pc'[q] = pc[q] \/ (pc[q] = "reaped" /\ pc'[q] = "gone")
       PROVE  Control'
  <2>1. \A q \in Proc \ {p} : table'[q] = table[q]
    BY <1>15, EmptiedFacts DEF IInv
  <2>2. ~done[p]
    BY <1>2, <1>15 DEF ControlOf
  <2>3. ControlOf(p)'
    BY <1>2, <1>15, <2>2 DEF ControlOf, Locking, Terminated
  <2> QED BY <1>3, <1>15, <2>1, <2>3
<1>16. ASSUME NEW p \in Proc, Drop(p)
       PROVE  Control'
  <2> DEFINE e == table[p][Current(p)]
  <2>1. /\ pc[p] = "closing" /\ todo[p] \intersect Full(p) # {} /\ e = table[p][Current(p)]
        /\ UNCHANGED <<held, todo, then, target, done>>
    BY <1>16 DEF Drop
  <2> HIDE DEF e
  <2>2. CASE e.type = "process" /\ Unref(e.of) /\ Emptied(p)
    <3>1. e.of \in Proc /\ (refs[e.of] = 1 => pc[e.of] = "reaped")
      BY <2>1, <2>2, DropFacts, Zenon
    <3>2. \A q \in Proc : pc'[q] = pc[q] \/ (pc[q] = "reaped" /\ pc'[q] = "gone")
      BY <1>1, <2>2, <3>1 DEF Unref
    <3> QED BY <1>15, <2>1, <2>2, <3>2
  <2>3. CASE Emptied(p) /\ pc' = pc
    BY <1>15, <2>1, <2>3
  <2>4. CASE e.type = "file" /\ table' = table /\ Goto(p, IF files = << >> THEN "file" ELSE "wait")
    <3>1. pc'[p] \in {"file", "wait"} /\ \A q \in Proc \ {p} : pc'[q] = pc[q]
      BY <1>1, <2>4
    <3>2. ~done[p]
      BY <1>2, <2>1 DEF ControlOf
    <3>3. ControlOf(p)'
      BY <1>2, <1>4, <2>1, <2>4, <3>1, <3>2 DEF ControlOf, Locking, Terminated
    <3> QED BY <1>3, <2>1, <2>4, <3>1, <3>3
  <2>5. CASE UNCHANGED <<pc, table>>
    BY <1>2, <2>1, <2>5, ControlKept DEF Control
  <2> QED BY <1>16, <2>2, <2>3, <2>4, <2>5 DEF Drop, e
<1>17. ASSUME NEW p \in Proc, CloseFile(p)
       PROVE  Control'
  <2>1. todo[p] \intersect Full(p) # {}
    BY <1>2, <1>17 DEF CloseFile, ControlOf
  <2>2. /\ pc[p] = "file" /\ pc'[p] = "closing" /\ Emptied(p) /\ UNCHANGED <<held, todo, then, target, done>>
        /\ \A q \in Proc \ {p} : pc'[q] = pc[q]
    BY <1>1, <1>17 DEF CloseFile
  <2> QED BY <1>15, <2>1, <2>2
<1>18. ASSUME NEW p \in Proc, Closed(p)
       PROVE  Control'
  <2>1. /\ pc[p] = "closing" /\ todo[p] \intersect Full(p) = {}
        /\ UNCHANGED <<table, target, done>>
        /\ ~held'[p] /\ pc'[p] = IF then[p] = "exit" THEN "signal" ELSE "user"
        /\ \A q \in Proc \ {p} : /\ pc'[q] = pc[q] /\ held'[q] = held[q] /\ todo'[q] = todo[q]
                                 /\ then'[q] = then[q]
    BY <1>1, <1>18 DEF Closed
  <2>2. then[p] = "exit" => Full(p) = {}
    BY <1>1, <1>2, <2>1, SlotFacts DEF ControlOf, Locking
  <2>3. ControlOf(p)'
    BY <1>2, <1>4, <2>1, <2>2 DEF ControlOf, Locking, Terminated
  <2> QED BY <1>3, <2>1, <2>3
<1>19. ASSUME NEW p \in Proc, Woken(p) \/ Signal(p) \/ Park(p) \/ Reap(p) \/ Tick(p)
       PROVE  Control'
  <2>1. \A q \in Proc : done[q] \in BOOLEAN /\ done = [done EXCEPT ![q] = done[q]]
    BY <1>1
  <2>2. CASE Woken(p)
    <3>1. ~done[p] /\ held[p]
      BY <1>2, <2>2 DEF ControlOf, Woken, Locking, Terminated
    <3>2. /\ pc' = [pc EXCEPT ![p] = IF killed[p] THEN "stuck" ELSE "file"]
          /\ pc[p] = "wait" /\ done' = done /\ UNCHANGED <<table, held, todo, then, target>>
      BY <2>2 DEF Woken
    <3> QED BY <1>12, <2>1, <3>1, <3>2 DEF Locking, Terminated
  <2>3. CASE Signal(p)
    <3>1. Full(p) = {} /\ ~held[p]
      BY <1>2, <2>3 DEF ControlOf, Signal, Locking
    <3> QED BY <1>12, <2>3, <3>1 DEF Signal, Locking, Terminated
  <2>4. CASE Park(p) \/ Reap(p)
    <3>1. Full(p) = {} /\ ~held[p] /\ done[p]
      BY <1>2, <2>4 DEF ControlOf, Park, Reap, Locking, Terminated
    <3>2. PICK l \in Terminated : pc' = [pc EXCEPT ![p] = l]
      BY <2>4 DEF Park, Reap, Terminated
    <3>3. done' = done /\ UNCHANGED <<table, held, todo, then, target>>
      BY <2>4 DEF Park, Reap
    <3> QED BY <1>12, <2>1, <3>1, <3>2, <3>3 DEF Locking, Terminated
  <2>5. CASE Tick(p) /\ pc' = pc
    BY <1>2, <2>5, ControlKept DEF Control, Tick
  <2>6. CASE Tick(p) /\ Goto(p, "exit") /\ ~held[p]
    <3>1. done[p] => Full(p) = {}
      BY <1>2 DEF ControlOf
    <3>2. done' = done /\ UNCHANGED <<table, held, todo, then, target>>
      BY <2>6 DEF Tick
    <3> QED BY <1>12, <2>1, <2>6, <3>1, <3>2 DEF Locking, Terminated
  <2> QED BY <1>19, <2>2, <2>3, <2>4, <2>5, <2>6 DEF Tick
<1>20. ASSUME NEW p \in Proc, Exit(p) \/ PageFault(p) \/ EmptyHandle(p) \/ Start(p)
       PROVE  Control'
  <2>1. done = [done EXCEPT ![p] = done[p]] /\ done[p] \in BOOLEAN
    BY <1>1
  <2>2. pc[p] \in {"user", "born"}
    BY <1>20 DEF Exit, PageFault, EmptyHandle, Start, User
  <2>3. ~done[p] /\ ~held[p]
    BY <1>2, <2>2 DEF ControlOf, Locking, Terminated
  <2>4. PICK l \in {"user", "exit"} : pc' = [pc EXCEPT ![p] = l]
    BY <1>20 DEF Exit, PageFault, EmptyHandle, Start, Kill
  <2>5. done' = done /\ UNCHANGED <<table, held, todo, then, target>>
    BY <1>20 DEF Exit, PageFault, EmptyHandle, Start, Kill
  <2> QED BY <1>12, <2>1, <2>3, <2>4, <2>5 DEF Locking, Terminated
<1> QED BY <1>5, <1>6, <1>8, <1>9, <1>11, <1>13, <1>14, <1>16, <1>17, <1>18, <1>19, <1>20 DEF Next
-----------------------------------------------------------------------------
(* The counts.                                                             *)

\* Every step keeps the counts, and deletes no process that has references.
LEMMA CountedStep ==
  ASSUME IInv, [Next]_vars, TypeOK'
  PROVE  Counted' /\ Referenced'
<1> DEFINE N(type, x) == Count(table, Handle(type, x))
           M(type, x) == Count(table', Handle(type, x))
           Off(l) == IF l \in {"unborn", "reaped", "gone"} THEN 0 ELSE 1
           Agree == /\ Finite(table')
                    /\ \A q \in Proc : refs'[q] = M("process", q) + Off(pc'[q])
                    /\ \A s \in Sem : sem'[s] = M("semaphore", s)
                    /\ \A f \in File : open'[f] = M("file", f) + leak'[f]
                    /\ \A q \in Proc : pc'[q] \in {"unborn", "gone"} => M("process", q) = 0
<1> SUFFICES Agree
  BY DEF Counted, Referenced
<1>1. /\ TypeOK /\ Finite(table) /\ Control /\ table \in Tables
      /\ pc \in [Proc -> Location] /\ refs \in [Proc -> Nat] /\ sem \in [Sem -> Nat]
      /\ open \in [File -> Nat] /\ leak \in [File -> Nat]
  BY DEF IInv, TypeOK, Counted, Tables
<1>2. /\ \A q \in Proc : refs[q] = N("process", q) + Off(pc[q])
      /\ \A s \in Sem : sem[s] = N("semaphore", s)
      /\ \A f \in File : open[f] = N("file", f) + leak[f]
      /\ \A q \in Proc : pc[q] \in {"unborn", "gone"} => N("process", q) = 0
  BY DEF IInv, Counted, Referenced
<1>3. /\ \A q \in Proc : Handle("process", q) \in Entry /\ N("process", q) \in Nat
      /\ \A s \in Sem : Handle("semaphore", s) \in Entry /\ N("semaphore", s) \in Nat
      /\ \A f \in File : Handle("file", f) \in Entry /\ N("file", f) \in Nat
  BY <1>1, HandleFacts, CountType
<1>4. \A a, b, x, y : Handle(a, x) = Handle(b, y) => a = b /\ x = y
  BY HandleFacts
<1> USE DEF Goto, counts, flow, fate
\* A step that changes no table and no count.
<1>5. ASSUME UNCHANGED <<table, counts>>,
             \A q \in Proc : \/ pc'[q] = pc[q]
                             \/ /\ pc[q] \notin {"unborn", "reaped", "gone"}
                                /\ pc'[q] \notin {"unborn", "reaped", "gone"}
      PROVE  Agree
  BY <1>1, <1>2, <1>5
<1>6. CASE UNCHANGED vars
  BY <1>5, <1>6 DEF vars
<1>7. ASSUME NEW p \in Proc, Fork(p)
      PROVE  Agree
  <2>1. PICK c \in Proc : /\ pc[c] = "unborn" /\ ForkTables(p, c)
                          /\ refs' = [refs EXCEPT ![c] = 1 + Gets(p)] /\ Goto(c, "born")
    BY <1>7 DEF Fork, ForkTables
  <2>2. p # c /\ Full(c) = {}
    BY <1>1, <1>7, <2>1 DEF Fork, User, Control, ControlOf
  <2>3. /\ Finite(table')
        /\ \A q \in Proc : M("process", q) = N("process", q) + IF q = c THEN Gets(p) ELSE 0
        /\ \A s \in Sem : M("semaphore", s) = N("semaphore", s) + Copies(p, "semaphore", s)
        /\ \A f \in File : M("file", f) = N("file", f) + Copies(p, "file", f)
    BY <1>1, <2>1, <2>2, ForkFacts
  <2>4. /\ \A s \in Sem : sem'[s] = sem[s] + Copies(p, "semaphore", s)
        /\ \A f \in File : open'[f] = open[f] + Copies(p, "file", f)
        /\ leak' = leak
    BY <1>7 DEF Fork
  <2>5. IsFiniteSet(Slot) /\ Gets(p) \in Nat
    BY FS_Interval, LifecycleAssumption DEF Slot, Gets
  <2>6. \A type, x : Copies(p, type, x) \in Nat
    <3>1. \A type, x : IsFiniteSet({i \in Slot : table[p][i] = Handle(type, x)})
      BY <2>5, FS_Subset
    <3> QED BY <3>1, FS_CardinalityType DEF Copies
  <2>7. \A q \in Proc : /\ refs'[q] = IF q = c THEN 1 + Gets(p) ELSE refs[q]
                        /\ pc'[q] = IF q = c THEN "born" ELSE pc[q]
    BY <1>1, <2>1
  <2> HIDE DEF N, M
  <2>8. \A q \in Proc : refs'[q] = M("process", q) + Off(pc'[q])
    BY <1>1, <1>2, <1>3, <2>1, <2>3, <2>5, <2>7
  <2>9. \A s \in Sem : sem'[s] = M("semaphore", s)
    BY <1>2, <2>3, <2>4
  <2>10. \A f \in File : open'[f] = M("file", f) + leak'[f]
    BY <1>1, <1>2, <1>3, <2>3, <2>4, <2>6
  <2>11. \A q \in Proc : pc'[q] \in {"unborn", "gone"} => M("process", q) = 0
    BY <1>2, <2>1, <2>3, <2>7
  <2> QED BY <2>3, <2>8, <2>9, <2>10, <2>11
\* Putting handle h on x in p's table.
<1>8. ASSUME NEW p \in Proc, NEW type, NEW x, Handle(type, x) \in Entry,
             PutHandle(p, Handle(type, x))
      PROVE  /\ Finite(table') /\ M(type, x) = N(type, x) + Gets(p) /\ Gets(p) \in {0, 1}
             /\ \A b, y : Handle(b, y) \in Entry /\ (b # type \/ y # x) => M(b, y) = N(b, y)
  <2>1. /\ Finite(table') /\ M(type, x) = N(type, x) + Gets(p)
        /\ \A g \in Entry : g # Handle(type, x) => Count(table', g) = Count(table, g)
    BY <1>1, <1>8, PutFacts
  <2> QED BY <1>4, <2>1 DEF Gets
<1>9. ASSUME NEW p \in Proc, NewSemaphore(p)
      PROVE  Agree
  <2>1. PICK s \in Sem : /\ sem[s] = 0 /\ PutHandle(p, Handle("semaphore", s))
                         /\ sem' = [sem EXCEPT ![s] = Gets(p)]
    BY <1>9 DEF NewSemaphore
  <2>2. /\ Finite(table') /\ M("semaphore", s) = N("semaphore", s) + Gets(p) /\ Gets(p) \in {0, 1}
        /\ \A b, y : Handle(b, y) \in Entry /\ (b # "semaphore" \/ y # s) => M(b, y) = N(b, y)
    BY <1>3, <1>8, <2>1
  <2>3. UNCHANGED <<pc, refs, open, leak>>
    BY <1>9 DEF NewSemaphore
  <2> HIDE DEF N, M
  <2>4. \A r \in Sem : sem'[r] = M("semaphore", r)
    BY <1>1, <1>2, <1>3, <2>1, <2>2
  <2> QED BY <1>2, <1>3, <2>2, <2>3, <2>4
<1>10. ASSUME NEW p \in Proc, Opened(p)
       PROVE  Agree
  <2>1. target[p] \in File
    BY <1>1, <1>10 DEF Opened, Obtained, Control, ControlOf
  <2>2. /\ pc[p] = "opening" /\ pc' = [pc EXCEPT ![p] = "user"] /\ UNCHANGED <<refs, sem>>
        /\ PutHandle(p, Handle("file", target[p]))
        /\ open' = [open EXCEPT ![target[p]] = @ + 1]
        /\ leak' = [leak EXCEPT ![target[p]] = @ + (1 - Gets(p))]
    BY <1>10 DEF Opened, Obtained, Leak
  <2>3. /\ Finite(table') /\ M("file", target[p]) = N("file", target[p]) + Gets(p)
        /\ Gets(p) \in {0, 1}
        /\ \A b, y : Handle(b, y) \in Entry /\ (b # "file" \/ y # target[p]) => M(b, y) = N(b, y)
    BY <1>3, <1>8, <2>1, <2>2
  <2> HIDE DEF N, M
  <2>4. \A f \in File : open'[f] = M("file", f) + leak'[f]
    BY <1>1, <1>2, <1>3, <2>1, <2>2, <2>3
  <2>5. \A q \in Proc : Off(pc'[q]) = Off(pc[q]) /\ (pc'[q] \in {"unborn", "gone"} => pc'[q] = pc[q])
    BY <1>1, <2>2
  <2> HIDE DEF Off
  <2> QED BY <1>2, <1>3, <2>2, <2>3, <2>4, <2>5
<1>11. ASSUME NEW p \in Proc, Exec(p)
       PROVE  Agree
  <2>1. target[p] \in File
    BY <1>1, <1>11 DEF Exec, Obtained, Control, ControlOf
  <2>2. /\ pc[p] = "opening" /\ pc' = [pc EXCEPT ![p] = "closing"] /\ UNCHANGED <<table, refs, sem>>
        /\ open' = [open EXCEPT ![target[p]] = @ + 1]
        /\ leak' = [leak EXCEPT ![target[p]] = @ + 1]
    BY <1>11 DEF Exec, Obtained, Leak, LockTable
  <2> HIDE DEF N
  <2>3. \A f \in File : open'[f] = N("file", f) + leak'[f]
    BY <1>1, <1>2, <1>3, <2>1, <2>2
  <2>4. \A q \in Proc : Off(pc'[q]) = Off(pc[q]) /\ (pc'[q] \in {"unborn", "gone"} => pc'[q] = pc[q])
    BY <1>1, <2>2
  <2> HIDE DEF Off
  <2> QED BY <1>1, <1>2, <2>2, <2>3, <2>4 DEF N
<1>12. ASSUME NEW p \in Proc, Drop(p)
       PROVE  Agree
  <2> DEFINE e == table[p][Current(p)]
             x == e.of
  <2>1. todo[p] \intersect Full(p) # {} /\ e = table[p][Current(p)] /\ leak' = leak /\ x = e.of
    BY <1>12 DEF Drop
  <2> HIDE DEF e, x
  <2>2. CASE e.type = "process" /\ Unref(x) /\ Emptied(p) /\ UNCHANGED <<sem, open>>
    <3>1. /\ x \in Proc /\ e = Handle("process", x)
          /\ refs[x] \in Nat \ {0} /\ (refs[x] = 1 => pc[x] = "reaped")
      BY <2>1, <2>2, DropFacts, Zenon
    <3>2. /\ Finite(table') /\ M("process", x) = N("process", x) - 1
          /\ \A b, y : Handle(b, y) \in Entry /\ (b # "process" \/ y # x) => M(b, y) = N(b, y)
      <4>1. /\ Finite(table') /\ Count(table', e) = Count(table, e) - 1
            /\ \A g \in Entry : g # e => Count(table', g) = Count(table, g)
        BY <2>1, <2>2, EmptiedFacts
      <4> QED BY <1>4, <3>1, <4>1
    <3>3. /\ refs'[x] = refs[x] - 1 /\ \A q \in Proc : q # x => refs'[q] = refs[q] /\ pc'[q] = pc[q]
          /\ pc'[x] = IF refs[x] = 1 THEN "gone" ELSE pc[x]
      BY <1>1, <2>2, <3>1 DEF Unref
    <3> HIDE DEF N, M
    <3>4. \A q \in Proc : q # x => M("process", q) = N("process", q)
      BY <1>3, <3>2
    <3>5. \A q \in Proc : refs'[q] = M("process", q) + Off(pc'[q])
      BY <1>2, <1>3, <3>1, <3>2, <3>3, <3>4
    <3>6. \A q \in Proc : pc'[q] \in {"unborn", "gone"} => M("process", q) = 0
      BY <1>2, <1>3, <3>1, <3>2, <3>3, <3>4
    <3> QED BY <1>2, <1>3, <2>1, <2>2, <3>2, <3>5, <3>6
  <2>3. CASE e.type = "semaphore" /\ sem' = [sem EXCEPT ![x] = @ - 1] /\ Emptied(p)
             /\ UNCHANGED <<pc, refs, open>>
    <3>1. x \in Sem /\ e = Handle("semaphore", x)
      BY <2>1, <2>3, DropFacts, Zenon
    <3>2. /\ Finite(table') /\ M("semaphore", x) = N("semaphore", x) - 1
          /\ \A b, y : Handle(b, y) \in Entry /\ (b # "semaphore" \/ y # x) => M(b, y) = N(b, y)
      <4>1. /\ Finite(table') /\ Count(table', e) = Count(table, e) - 1
            /\ \A g \in Entry : g # e => Count(table', g) = Count(table, g)
        BY <2>1, <2>3, EmptiedFacts
      <4> QED BY <1>4, <3>1, <4>1
    <3> HIDE DEF N, M
    <3>3. \A s \in Sem : sem'[s] = M("semaphore", s)
      BY <1>1, <1>2, <1>3, <2>3, <3>1, <3>2
    <3> QED BY <1>2, <1>3, <2>1, <2>3, <3>2, <3>3
  <2>4. CASE UNCHANGED <<table, refs, sem, open>> /\ Goto(p, IF files = << >> THEN "file" ELSE "wait")
    <3>1. pc[p] = "closing"
      BY <1>12 DEF Drop
    <3> QED BY <1>1, <1>5, <2>1, <2>4, <3>1
  <2>5. CASE UNCHANGED <<pc, table, refs, sem, open>>
    BY <1>5, <2>1, <2>5
  <2> QED BY <1>12, <2>2, <2>3, <2>4, <2>5 DEF Drop, e, x
<1>13. ASSUME NEW p \in Proc, CloseFile(p)
       PROVE  Agree
  <2> DEFINE e == table[p][Current(p)]
             x == e.of
  <2>1. /\ e = table[p][Current(p)] /\ x = e.of /\ UNCHANGED <<refs, sem, leak>>
        /\ pc[p] = "file" /\ pc' = [pc EXCEPT ![p] = "closing"] /\ Emptied(p)
        /\ open' = [open EXCEPT ![x] = @ - 1]
    BY <1>13 DEF CloseFile
  <2>2. todo[p] \intersect Full(p) # {} /\ e.type = "file"
    BY <1>1, <1>13 DEF CloseFile, Control, ControlOf
  <2> HIDE DEF e, x
  <2>3. x \in File /\ e = Handle("file", x)
    BY <2>1, <2>2, DropFacts, Zenon
  <2>4. /\ Finite(table') /\ M("file", x) = N("file", x) - 1
        /\ \A b, y : Handle(b, y) \in Entry /\ (b # "file" \/ y # x) => M(b, y) = N(b, y)
    <3>1. /\ Finite(table') /\ Count(table', e) = Count(table, e) - 1
          /\ \A g \in Entry : g # e => Count(table', g) = Count(table, g)
      BY <2>1, <2>2, EmptiedFacts
    <3> QED BY <1>4, <2>3, <3>1
  <2> HIDE DEF N, M
  <2>5. \A f \in File : open'[f] = M("file", f) + leak'[f]
    BY <1>1, <1>2, <1>3, <2>1, <2>3, <2>4, SMTT(40)
  <2>6. \A q \in Proc : Off(pc'[q]) = Off(pc[q]) /\ (pc'[q] \in {"unborn", "gone"} => pc'[q] = pc[q])
    BY <1>1, <2>1
  <2> HIDE DEF Off
  <2> QED BY <1>2, <1>3, <2>1, <2>4, <2>5, <2>6
<1>14. ASSUME NEW p \in Proc, Reap(p)
       PROVE  Agree
  <2>1. /\ pc[p] = "zombie" /\ UNCHANGED <<table, sem, open, leak>>
        /\ refs'[p] = refs[p] - 1 /\ pc'[p] = IF refs[p] = 1 THEN "gone" ELSE "reaped"
        /\ \A q \in Proc : q # p => refs'[q] = refs[q] /\ pc'[q] = pc[q]
    BY <1>1, <1>14 DEF Reap
  <2> HIDE DEF N
  <2>2. \A q \in Proc : refs'[q] = N("process", q) + Off(pc'[q])
    BY <1>2, <1>3, <2>1
  <2>3. \A q \in Proc : pc'[q] \in {"unborn", "gone"} => N("process", q) = 0
    BY <1>2, <1>3, <2>1
  <2> QED BY <1>1, <1>2, <2>1, <2>2, <2>3 DEF N
<1>15. ASSUME NEW p \in Proc,
              \/ Close(p) \/ Join(p) \/ JoinReturns(p) \/ CloseAll(p) \/ OpenCall(p) \/ ExecCall(p)
              \/ Exit(p) \/ PageFault(p) \/ EmptyHandle(p) \/ Start(p)
       PROVE  Agree
  <2>1. UNCHANGED <<table, counts>>
    BY <1>15 DEF Close, Join, JoinReturns, CloseAll, OpenCall, ExecCall, LookupFile, Exit,
                 PageFault, EmptyHandle, Kill, Start
  <2>2. pc[p] \notin {"unborn", "reaped", "gone"}
    BY <1>15 DEF Close, Join, JoinReturns, CloseAll, OpenCall, ExecCall, LookupFile, Exit,
                 PageFault, EmptyHandle, Start, User
  <2>3. \/ pc' = [pc EXCEPT ![p] = "closing"] \/ pc' = [pc EXCEPT ![p] = "join"]
        \/ pc' = [pc EXCEPT ![p] = "opening"] \/ pc' = [pc EXCEPT ![p] = "exit"]
        \/ pc' = [pc EXCEPT ![p] = "user"]
    BY <1>15 DEF Close, Join, JoinReturns, CloseAll, OpenCall, ExecCall, LookupFile, Exit,
                 PageFault, EmptyHandle, Kill, Start, LockTable
  <2> QED BY <1>1, <1>5, <2>1, <2>2, <2>3
<1>16. ASSUME NEW p \in Proc, Woken(p) \/ Closed(p) \/ Signal(p) \/ Park(p) \/ Tick(p)
       PROVE  Agree
  <2>1. UNCHANGED <<table, counts>> /\ pc[p] \notin {"unborn", "reaped", "gone"}
    BY <1>16 DEF Woken, Closed, Signal, Park, Tick, Exiting
  <2>2. pc' = pc \/ \E l : pc' = [pc EXCEPT ![p] = l] /\ l \notin {"unborn", "reaped", "gone"}
    BY <1>16 DEF Woken, Closed, Signal, Park, Tick
  <2> QED BY <1>1, <1>5, <2>1, <2>2
<1> QED BY <1>6, <1>7, <1>9, <1>10, <1>11, <1>12, <1>13, <1>14, <1>15, <1>16 DEF Next

-----------------------------------------------------------------------------

\* The initial state satisfies the invariant: no handles, no counts.
LEMMA InitIInv == Init => IInv
<1> SUFFICES ASSUME Init PROVE IInv
  OBVIOUS
<1>1. TypeOK
  <2>1. files \in Seq(Proc)
    BY QueueOne, LifecycleAssumption DEF Init
  <2>2. pc \in [Proc -> Location] /\ then \in [Proc -> {"user", "exec", "exit"}]
    BY DEF Init, Location
  <2>3. target \in [Proc -> Slot \cup File \cup {None}]
    BY LifecycleAssumption DEF Init
  <2>4. table \in [Proc -> [Slot -> Entry \cup {None}]]
    BY DEF Init
  <2>5. todo \in [Proc -> SUBSET Slot] /\ refs \in [Proc -> Nat]
    BY DEF Init
  <2> QED BY <2>1, <2>2, <2>3, <2>4, <2>5 DEF Init, TypeOK
<1>2. \A p \in Proc : Full(p) = {} /\ ~done[p] /\ ~held[p]
  BY DEF Init, Full, Free
<1>3. Control
  BY <1>2, LifecycleAssumption DEF Init, Control, ControlOf, Locking, Terminated
<1>4. Queued
  <2>1. Range(files) = {First} /\ IsInjective(files) /\ Head(files) = First
    BY QueueOne, LifecycleAssumption DEF Init
  <2> QED BY <2>1, LifecycleAssumption DEF Init, Queued, Filing
<1>5. \A h \in Entry : Where(table, h) = {}
  BY EmptySlot DEF Init, Where
<1>6. Finite(table) /\ \A h \in Entry : Count(table, h) = 0
  BY <1>5, FS_EmptySet DEF Finite, Count
<1>7. Counted /\ Referenced
  <2>1. \A q \in Proc : refs[q] = IF pc[q] \in {"unborn", "reaped", "gone"} THEN 0 ELSE 1
    BY DEF Init
  <2>2. (\A s \in Sem : sem[s] = 0) /\ (\A f \in File : open[f] = 0 /\ leak[f] = 0)
    BY DEF Init
  <2> QED BY <1>6, <2>1, <2>2, HandleFacts DEF Counted, Referenced
<1> QED BY <1>1, <1>3, <1>4, <1>7 DEF IInv

\* Every step keeps the invariant.
LEMMA StepIInv == IInv /\ [Next]_vars => IInv'
BY TypeStep, ControlStep, QueuedStep, CountedStep DEF IInv

\* IInv holds in every reachable state, for every value of the constants.
THEOREM Inductive == Spec => []IInv
BY InitIInv, StepIInv, PTL DEF Spec

\* Every count is the number of references there are, and nothing is deleted
\* while it can still be used (resource.h:17-32, table.cc, process.cc:68-79).
THEOREM ReferencesCounted == Spec => []CountsAgree
<1>1. IInv => CountsAgree
  <2> SUFFICES ASSUME IInv PROVE CountsAgree
    OBVIOUS
  <2>1. TypeOK /\ Control /\ Counted /\ Referenced
    BY DEF IInv
  <2>2. \A type, x : Handles(type, x) = Count(table, Handle(type, x))
    BY DEF Handles, Count, Where
  <2> HIDE DEF Handles
  <2>3. \A q \in Proc : pc[q] = "gone" => done[q]
    BY <2>1 DEF Control, ControlOf, Terminated
  <2> QED BY <2>1, <2>2, <2>3 DEF CountsAgree, Counted, Referenced
<1> QED BY <1>1, Inductive, PTL

\* A process that has terminated has left its handles, its table's mutex and
\* openFilesMutex, and has closed its handles before it wakes who joins it
\* (process.cc:316-334, table.cc:45-53).
THEOREM ExitLeavesNothing == Spec => []TerminatedHoldsNothing
<1>1. IInv => TerminatedHoldsNothing
  <2> SUFFICES ASSUME IInv, NEW q \in Proc
               PROVE  /\ done[q] => Full(q) = {}
                      /\ pc[q] \in Terminated =>
                            done[q] /\ ~held[q] /\ \A i \in 1 .. Len(files) : files[i] # q
    BY DEF TerminatedHoldsNothing
  <2>1. ControlOf(q) /\ files \in Seq(Proc)
    BY DEF IInv, Control, TypeOK
  <2>2. q \in Range(files) <=> pc[q] \in Filing
    BY DEF IInv, Queued
  <2>3. \A i \in 1 .. Len(files) : files[i] \in Range(files)
    BY <2>1 DEF Range
  <2> QED BY <2>1, <2>2, <2>3 DEF ControlOf, Locking, Filing, Terminated
<1> QED BY <1>1, Inductive, PTL

\* The child that a process waits for in join().
JoinsTheLiving ==
  \A p \in Proc : pc[p] = "join" => Child(p) \in Proc /\ pc[Child(p)] \notin {"unborn", "gone"}

\* join() waits on a process that exists and has not been deleted: the parent's
\* handle keeps it, reaped or not, until join() has read its exit code
\* (syscall.cc:61-70, resource.h:17-32).
THEOREM JoinedLives == Spec => []JoinsTheLiving
<1>1. ASSUME IInv, NEW p \in Proc, pc[p] = "join"
      PROVE  Child(p) \in Proc /\ pc[Child(p)] \notin {"unborn", "gone"}
  <2> DEFINE i == target[p]
             e == table[p][i]
  <2>1. i \in Slot /\ e \in Entry /\ e.type = "process" /\ Finite(table) /\ Referenced
    BY <1>1 DEF IInv, Control, ControlOf, Counted
  <2>2. e.of \in Proc /\ e = Handle("process", e.of)
    BY <2>1, HandleFacts
  <2>3. <<p, i>> \in Where(table, e)
    BY <2>1 DEF Where
  <2>4. IsFiniteSet(Where(table, e)) /\ Where(table, e) # {}
    BY <2>1, <2>3 DEF Finite
  <2>5. Count(table, e) # 0
    BY <2>4, FS_EmptySet DEF Count
  <2>6. Child(p) = e.of
    BY DEF Child
  <2> HIDE DEF e
  <2>7. Count(table, Handle("process", e.of)) # 0
    BY <2>2, <2>5
  <2>8. pc[e.of] \notin {"unborn", "gone"}
    BY <2>1, <2>2, <2>7 DEF Referenced
  <2> QED BY <2>2, <2>6, <2>8
<1>2. IInv => JoinsTheLiving
  BY <1>1 DEF JoinsTheLiving
<1> QED BY <1>2, Inductive, PTL
=============================================================================
