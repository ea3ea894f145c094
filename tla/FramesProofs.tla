---------------------------- MODULE FramesProofs ---------------------------
(***************************************************************************)
(* For any number of processes, frames and pages: no frame is lost or used *)
(* twice, the TLB never disagrees with the tables of the running process,  *)
(* and address spaces are memory of the process's own (PrivateMemory).     *)
(*                                                                         *)
(* Cardinalities are not inductive; that each frame has one place is said  *)
(* by Placed instead.  A frame would be lost if a slot were overwritten:   *)
(* that it never is follows from what a process in the middle of a page    *)
(* fault, a fork or an exec knows of the two address spaces it is working  *)
(* on while others run (Working).  That fork copies, and that a new page   *)
(* is blank, depends on what is in the frames that are on their way        *)
(* (Contents).  Any thread deletes any dead process, in the middle of what *)
(* it does itself and of other deletions: its own TLB and tables are not   *)
(* concerned because a process that is being deleted never runs, and no    *)
(* frame is given back twice because one thread deletes it (Deletion).     *)
(***************************************************************************)
EXTENDS Frames, FiniteSetTheorems, WellFoundedInduction, TLAPS

Forking == {"forkPd", "forkLow", "fork", "forkMap"}

\* Each frame is in one place, and in some place.
PlacedIn(fr, ow, fm) ==
  /\ \A f \in 1..limit : fr[f] \in {0, 1}
  /\ \A f \in Frame \ 1..limit : fr[f] = 0
  /\ \A p, q \in Proc, s, t \in Slot :
        ow[p][s] # NoFrame /\ ow[p][s] = ow[q][t] => p = q /\ s = t
  /\ \A p, q \in Proc : fm[p] # NoFrame /\ fm[p] = fm[q] => p = q
  /\ \A p, q \in Proc, s \in Slot : fm[p] # NoFrame => fm[p] # ow[q][s]
  /\ \A p \in Proc : fm[p] # NoFrame => fm[p] \in 1..limit /\ fr[fm[p]] = 0
  /\ \A p \in Proc, s \in Slot : ow[p][s] # NoFrame => ow[p][s] \in 1..limit /\ fr[ow[p][s]] = 0
  /\ \A f \in 1..limit : fr[f] = 0 =>
        (\E p \in Proc, s \in Slot : ow[p][s] = f) \/ (\E p \in Proc : fm[p] = f)

Placed == PlacedIn(free, own, frame)

\* What a process in the middle of a fault, a fork or an exec finds in its own
\* address space and in its child's.
WorkingOf(p) ==
  /\ frame[p] # NoFrame <=> pc[p] \in {"map", "forkMap", "execFree"}
  /\ pc[p] = "absent" => own[p] = Empty
  /\ pc[p] = "map" => own[p][PG(fault[p])] = NoFrame
  /\ pc[p] \in Forking =>
        child[p] \in Proc /\ child[p] # p /\ pc[child[p]] = "building"
  /\ pc[p] = "forkPd" => own[child[p]] = Empty
  /\ pc[p] = "forkLow" => \A s \in Slot \ {PD} : own[child[p]][s] = NoFrame
  /\ pc[p] \in {"fork", "forkMap"} => \A v \in todo[p] : own[child[p]][PG(v)] = NoFrame
  /\ pc[p] \in {"fork", "forkMap", "exec", "execFree"} => todo[p] \subseteq Mapped(p)
  /\ pc[p] = "forkMap" => todo[p] # {}

Working ==
  /\ \A p \in Proc : WorkingOf(p)
  /\ \A p, q \in Proc : pc[p] \in Forking /\ pc[q] \in Forking /\ child[p] = child[q] => p = q

\* What is in the frames that are on their way, and in the pages that a fork
\* has already copied.
ContentsOf(p) ==
  /\ pc[p] = "map" => content[frame[p]] = "blank"
  /\ pc[p] = "forkMap" => content[frame[p]] = content[own[p][PG(Min(todo[p]))]]
  /\ pc[p] \in {"fork", "forkMap"} => \A v \in Page \ todo[p] :
        /\ own[p][PG(v)] = NoFrame <=> own[child[p]][PG(v)] = NoFrame
        /\ own[p][PG(v)] # NoFrame =>
              content[own[child[p]][PG(v)]] = content[own[p][PG(v)]]

Contents == \A p \in Proc : ContentsOf(p)

\* Who is being deleted does not run, and one thread deletes it.
Deletion ==
  /\ current # Idle => pc[current] \notin Gone
  /\ \A t \in Thread : victim[t] # Idle => victim[t] \in Proc /\ pc[victim[t]] = "dying"
  /\ \A t, u \in Thread : victim[t] # Idle /\ victim[t] = victim[u] => t = u

IInv == TypeOK /\ Placed /\ Working /\ TlbCoherent /\ Contents
-----------------------------------------------------------------------------
(* Numbers, slots and frames.                                              *)

\* Min finds the least element.
LEMMA MinNat ==
  ASSUME NEW S \in SUBSET Nat, S # {}
  PROVE  Min(S) \in S /\ \A x \in S : Min(S) <= x
<1>1. PICK x \in S : \A y \in S : ~ (<<y, x>> \in OpToRel(<, Nat))
  BY WFMin, NatLessThanWellFounded, Zenon
<1>2. \A y \in S : ~ (y < x)
  BY <1>1, Zenon DEF OpToRel
<1>3. \A y \in S : x <= y
  BY <1>2
<1> QED BY <1>3 DEF Min

\* Max finds the greatest element of a finite set: a smallest set without one
\* would have one more element than a set with one.
LEMMA MaxNat ==
  ASSUME NEW S \in SUBSET Nat, S # {}, IsFiniteSet(S)
  PROVE  Max(S) \in S /\ \A x \in S : x <= Max(S)
<1> DEFINE HasMax(T) == \E x \in T : \A y \in T : y <= x
           Bad == {n \in Nat : \E T \in SUBSET Nat : /\ T # {} /\ IsFiniteSet(T)
                                                     /\ Cardinality(T) = n /\ ~HasMax(T)}
<1>1. Bad = {}
  <2>1. SUFFICES ASSUME Bad # {} PROVE FALSE
    OBVIOUS
  <2>2. Min(Bad) \in Bad /\ \A n \in Bad : Min(Bad) <= n
    BY <2>1, MinNat
  <2>3. PICK T \in SUBSET Nat : /\ T # {} /\ IsFiniteSet(T)
                                /\ Cardinality(T) = Min(Bad) /\ ~HasMax(T)
    BY <2>2
  <2>4. PICK x \in T : TRUE
    BY <2>3
  <2> DEFINE U == T \ {x}
  <2>5. IsFiniteSet(U) /\ Cardinality(U) = Cardinality(T) - 1 /\ Cardinality(U) \in Nat
        /\ Cardinality(T) \in Nat
    BY <2>3, FS_RemoveElement, FS_CardinalityType
  <2>6. U # {}
    BY <2>3
  <2>7. HasMax(U)
    <3>1. CASE ~HasMax(U)
      <4>1. Cardinality(U) \in Bad
        BY <2>5, <2>6, <3>1
      <4>2. Min(Bad) <= Cardinality(U)
        BY <2>2, <4>1
      <4> HIDE DEF Bad, U
      <4> QED BY <2>3, <2>5, <4>2
    <3> QED BY <3>1
  <2>8. PICK m \in U : \A y \in U : y <= m
    BY <2>7
  <2>9. m \in T /\ m \in Nat /\ x \in Nat /\ \A y \in T : y = x \/ y <= m
    BY <2>8
  <2>10. HasMax(T)
    <3>1. CASE m <= x
      <4>1. \A y \in T : y <= x
        BY <2>3, <2>9, <3>1
      <4> QED BY <4>1
    <3>2. CASE ~(m <= x)
      <4>1. \A y \in T : y <= m
        BY <2>3, <2>9, <3>2
      <4> QED BY <2>9, <4>1
    <3> QED BY <3>1, <3>2
  <2> QED BY <2>3, <2>10
<1>2. HasMax(S)
  <2>1. Cardinality(S) \in Nat
    BY FS_CardinalityType
  <2> QED BY <1>1, <2>1
<1>3. \E x \in S : \A y \in S : x >= y
  BY <1>2
<1>4. Max(S) \in S /\ \A y \in S : Max(S) >= y
  BY <1>3, Zenon DEF Max
<1> QED BY <1>4

\* The slots of an address space are different.
LEMMA SlotNames ==
  /\ PD \in Slot /\ Low \in Slot /\ PD # Low
  /\ \A v \in Page : PG(v) \in Slot /\ PT(TableOf(v)) \in Slot
  /\ \A x : PD # PT(x) /\ PD # PG(x) /\ Low # PT(x) /\ Low # PG(x)
  /\ \A x, y : PT(x) # PG(y)
  /\ \A x, y : PG(x) = PG(y) => x = y
  /\ \A x, y : PT(x) = PT(y) => x = y
BY DEF PD, Low, PT, PG, Slot

\* The frames there are have numbers of frames; 0 is none.
LEMMA FrameNumbers ==
  ASSUME TypeOK
  PROVE  /\ limit \in Nat /\ limit > 1 /\ 1..limit \subseteq Frame
         /\ NoFrame \notin Frame /\ Frame \subseteq Nat
<1>1. Max(Limits) \in Nat /\ \A l \in Limits : l <= Max(Limits)
  BY LimitsAssumption, MaxNat
<1>2. limit \in Limits /\ limit \in Nat /\ limit > 1
  BY LimitsAssumption DEF TypeOK
<1> QED BY <1>1, <1>2 DEF Frame, NoFrame
-----------------------------------------------------------------------------
(* Frames on their way: from the pool, to a slot, and back.                *)

\* One slot, what one process holds, and the pool change as given.
SlotSet(gw, ow, p, s, f) ==
  \A q \in Proc, t \in Slot : gw[q][t] = IF q = p /\ t = s THEN f ELSE ow[q][t]
HandSet(gm, fm, p, f) == \A q \in Proc : gm[q] = IF q = p THEN f ELSE fm[q]
PoolTakes(gr, fr, f) == \A g \in Frame : gr[g] = IF g = f THEN 0 ELSE fr[g]
PoolGets(gr, fr, f) == \A g \in Frame : gr[g] = IF g = f THEN fr[g] + 1 ELSE fr[g]

\* alloc, for a process that will hold the frame.
LEMMA PoolToHand ==
  ASSUME NEW fr, NEW ow, NEW fm, PlacedIn(fr, ow, fm), 1..limit \subseteq Frame,
         NEW p \in Proc, fm[p] = NoFrame, NEW f \in 1..limit, fr[f] = 1,
         NEW gr, PoolTakes(gr, fr, f),
         NEW gm, HandSet(gm, fm, p, f)
  PROVE  PlacedIn(gr, ow, gm)
BY DEF PlacedIn, NoFrame, SlotSet, HandSet, PoolTakes, PoolGets

\* alloc, for a slot that is not in use.
LEMMA PoolToSlot ==
  ASSUME NEW fr, NEW ow, NEW fm, PlacedIn(fr, ow, fm), 1..limit \subseteq Frame,
         NEW p \in Proc, NEW s \in Slot, ow[p][s] = NoFrame, NEW f \in 1..limit, fr[f] = 1,
         NEW gr, PoolTakes(gr, fr, f),
         NEW gw, SlotSet(gw, ow, p, s, f)
  PROVE  PlacedIn(gr, gw, fm)
BY DEF PlacedIn, NoFrame, SlotSet, HandSet, PoolTakes, PoolGets

\* A frame that was held is put in a slot that is not in use.
LEMMA HandToSlot ==
  ASSUME NEW fr, NEW ow, NEW fm, PlacedIn(fr, ow, fm), 1..limit \subseteq Frame,
         NEW p \in Proc, fm[p] # NoFrame,
         NEW c \in Proc, NEW s \in Slot, ow[c][s] = NoFrame,
         NEW gm, HandSet(gm, fm, p, NoFrame),
         NEW gw, SlotSet(gw, ow, c, s, fm[p])
  PROVE  PlacedIn(fr, gw, gm)
BY DEF PlacedIn, NoFrame, SlotSet, HandSet, PoolTakes, PoolGets

\* A frame is taken out of a slot and held.
LEMMA SlotToHand ==
  ASSUME NEW fr, NEW ow, NEW fm, PlacedIn(fr, ow, fm), 1..limit \subseteq Frame,
         NEW p \in Proc, fm[p] = NoFrame, NEW s \in Slot, ow[p][s] # NoFrame,
         NEW gm, HandSet(gm, fm, p, ow[p][s]),
         NEW gw, SlotSet(gw, ow, p, s, NoFrame)
  PROVE  PlacedIn(fr, gw, gm)
BY DEF PlacedIn, NoFrame, SlotSet, HandSet, PoolTakes, PoolGets

\* free, of a frame that was held.
LEMMA HandToPool ==
  ASSUME NEW fr, NEW ow, NEW fm, PlacedIn(fr, ow, fm), 1..limit \subseteq Frame,
         NEW p \in Proc, fm[p] # NoFrame,
         NEW gr, PoolGets(gr, fr, fm[p]),
         NEW gm, HandSet(gm, fm, p, NoFrame)
  PROVE  PlacedIn(gr, ow, gm)
BY DEF PlacedIn, NoFrame, SlotSet, HandSet, PoolTakes, PoolGets

\* free, of a frame in a slot.
LEMMA SlotToPool ==
  ASSUME NEW fr, NEW ow, NEW fm, PlacedIn(fr, ow, fm), 1..limit \subseteq Frame,
         NEW p \in Proc, NEW s \in Slot, ow[p][s] # NoFrame,
         NEW gr, PoolGets(gr, fr, ow[p][s]),
         NEW gw, SlotSet(gw, ow, p, s, NoFrame)
  PROVE  PlacedIn(gr, gw, fm)
BY DEF PlacedIn, NoFrame, SlotSet, HandSet, PoolTakes, PoolGets
-----------------------------------------------------------------------------
(* What the parts of the actions do.                                       *)

Spaces == [Proc -> [Slot -> 1..limit \cup {NoFrame}]]

\* alloc takes a frame that is nowhere else.
LEMMA AllocFacts ==
  ASSUME TypeOK, Placed, CanAlloc, NEW data, Alloc(data)
  PROVE  /\ Taken \in 1..limit /\ Taken \in Frame /\ Taken # NoFrame /\ free[Taken] = 1
         /\ PoolTakes(free', free, Taken)
         /\ \A g \in Frame : content'[g] = IF g = Taken THEN data ELSE content[g]
         /\ \A p \in Proc : frame[p] # Taken /\ \A s \in Slot : own[p][s] # Taken
         /\ free' \in [Frame -> Nat] /\ limit' = limit /\ machine' = machine
<1>1. 1..limit \subseteq Frame /\ NoFrame \notin Frame /\ Frame \subseteq Nat
  BY FrameNumbers
<1>2. Available \in SUBSET Nat /\ Available # {}
  BY <1>1 DEF CanAlloc, Available
<1>3. Taken \in Available
  BY <1>2, MinNat DEF Taken
<1>4. Taken \in 1..limit /\ free[Taken] = 1
  BY <1>3 DEF Available, Placed, PlacedIn, TypeOK
<1> HIDE DEF Taken
<1>5. \A p \in Proc : frame[p] # Taken /\ \A s \in Slot : own[p][s] # Taken
  BY <1>1, <1>4 DEF Placed, PlacedIn
<1>6. /\ free \in [Frame -> Nat] /\ DOMAIN content = Frame
      /\ free' = [free EXCEPT ![Taken] = @ - 1] /\ content' = [content EXCEPT ![Taken] = data]
      /\ limit' = limit /\ machine' = machine
  BY DEF TypeOK, Alloc, system
<1> QED BY <1>1, <1>4, <1>5, <1>6 DEF PoolTakes

\* free puts the frame into the pool.
LEMMA FreeFacts ==
  ASSUME TypeOK, NEW f \in 1..limit, FreeFrame(f)
  PROVE  /\ PoolGets(free', free, f)
         /\ \A g \in Frame : content'[g] = IF g = f THEN "link" ELSE content[g]
         /\ free' \in [Frame -> Nat] /\ limit' = limit /\ machine' = machine
         /\ content' \in [Frame -> Proc \cup {"blank", "link"}]
<1>1. f \in Frame
  BY FrameNumbers
<1> QED BY <1>1 DEF TypeOK, FreeFrame, system, PoolGets

\* pmap maps the page, by a table that it has to allocate or not, and changes
\* no other page, no other address space and no frame that is in use.
LEMMA PmapFacts ==
  ASSUME TypeOK, Placed, NEW p \in Proc, frame[p] # NoFrame,
         NEW q \in Proc, NEW v \in Page, own[q][PG(v)] = NoFrame, Pmap(q, v, frame[p]),
         frame' = [frame EXCEPT ![p] = NoFrame]
  PROVE  /\ limit' = limit /\ machine' = machine
         /\ own' \in Spaces /\ free' \in [Frame -> Nat]
         /\ content' \in [Frame -> Proc \cup {"blank", "link"}]
         /\ \A x \in Proc \ {q} : own'[x] = own[x]
         /\ own'[q][PG(v)] = frame[p]
         /\ \A w \in Page \ {v} : own'[q][PG(w)] = own[q][PG(w)]
         /\ \A g \in Frame : free[g] = 0 => content'[g] = content[g]
         /\ PlacedIn(free', own', frame')
<1> DEFINE t == PT(TableOf(v))
           f == frame[p]
           w1 == [own EXCEPT ![q][PG(v)] = f]
<1>1. /\ t \in Slot /\ PG(v) \in Slot /\ \A w \in Page : PG(w) \in Slot /\ PG(w) # t
      /\ \A w \in Page : PG(w) = PG(v) => w = v
  BY SlotNames
<1>2. f \in 1..limit /\ own \in Spaces /\ frame \in [Proc -> Frame \cup {NoFrame}]
      /\ 1..limit \subseteq Frame
      /\ content \in [Frame -> Proc \cup {"blank", "link"}] /\ free \in [Frame -> Nat]
  BY FrameNumbers DEF Placed, PlacedIn, TypeOK, Spaces
<1>3. Pmap(q, v, f) /\ f # NoFrame /\ frame' = [frame EXCEPT ![p] = NoFrame]
      /\ own[q][PG(v)] = NoFrame /\ f = frame[p]
  OBVIOUS
<1>4. w1 \in Spaces /\ SlotSet(w1, own, q, PG(v), frame[p])
  BY <1>1, <1>2 DEF Spaces, SlotSet
<1>5. HandSet(frame', frame, p, NoFrame)
  BY <1>2 DEF HandSet
<1> HIDE DEF t, f, w1
<1>6. PlacedIn(free, w1, frame')
  <2>1. PlacedIn(free, own, frame) /\ frame[p] # NoFrame /\ own[q][PG(v)] = NoFrame
        /\ PG(v) \in Slot /\ 1..limit \subseteq Frame
    BY <1>1, <1>2 DEF Placed
  <2> QED BY <1>4, <1>5, <2>1, HandToSlot
<1>7. CASE own[q][t] # NoFrame
  <2>1. own' = w1 /\ UNCHANGED <<free, content, limit, machine>>
    BY <1>3, <1>7 DEF Pmap, t, w1, pool, system
  <2>2. /\ \A x \in Proc \ {q} : own'[x] = own[x]
        /\ \A w \in Page \ {v} : own'[q][PG(w)] = own[q][PG(w)]
    BY <1>1, <1>2, <2>1 DEF w1, Spaces
  <2>3. own'[q][PG(v)] = frame[p]
    BY <1>1, <1>4, <2>1 DEF SlotSet
  <2> QED BY <1>2, <1>4, <1>6, <2>1, <2>2, <2>3
<1>8. CASE own[q][t] = NoFrame
  <2>1. CanAlloc /\ Alloc("blank") /\ own' = [own EXCEPT ![q][PG(v)] = f, ![q][t] = Taken]
    BY <1>3, <1>8 DEF Pmap, t
  <2>2. /\ Taken \in 1..limit /\ free[Taken] = 1
        /\ PoolTakes(free', free, Taken)
        /\ \A g \in Frame : content'[g] = IF g = Taken THEN "blank" ELSE content[g]
        /\ free' \in [Frame -> Nat] /\ limit' = limit /\ machine' = machine
    BY <2>1, AllocFacts
  <2> HIDE DEF Taken
  <2>3. SlotSet(own', w1, q, t, Taken)
    BY <1>1, <1>2, <2>1 DEF w1, Spaces, SlotSet
  <2>4. w1[q][t] = NoFrame
    BY <1>1, <1>4, <1>8 DEF SlotSet
  <2>5. PlacedIn(free', own', frame')
    BY <1>1, <1>2, <1>6, <2>2, <2>3, <2>4, PoolToSlot
  <2>6. own' \in Spaces /\ \A x \in Proc \ {q} : own'[x] = own[x]
    BY <1>1, <1>2, <2>1, <2>2 DEF Spaces
  <2>7. /\ own'[q][PG(v)] = frame[p]
        /\ \A w \in Page \ {v} : own'[q][PG(w)] = own[q][PG(w)]
    BY <1>1, <1>4, <2>3 DEF SlotSet
  <2>8. content' \in [Frame -> Proc \cup {"blank", "link"}]
    BY <1>2, <2>1, <2>2 DEF Alloc
  <2> QED BY <2>2, <2>5, <2>6, <2>7, <2>8
<1> QED BY <1>7, <1>8
-----------------------------------------------------------------------------
(* A step of p works on its own address space and on that of c, which is p *)
(* itself, the child it is building, or one that does not exist yet.       *)

Kept(q) == UNCHANGED <<own[q], pc[q], child[q], todo[q], frame[q], fault[q]>>

Partner(p, c) == /\ pc[p] # "building"
                 /\ c = p \/ pc[c] = "absent" \/ (pc[p] \in Forking /\ c = child[p])

\* Nobody else works on these two address spaces.
LEMMA PartnersAlone ==
  ASSUME Working, NEW p \in Proc, NEW c \in Proc, Partner(p, c),
         NEW q \in Proc \ {p, c}, pc[q] \in Forking
  PROVE  child[q] \in Proc \ {p, c}
BY DEF Working, WorkingOf, Partner, Forking

\* What everybody else finds stays true.
LEMMA WorkingKept ==
  ASSUME Working, NEW p \in Proc, NEW c \in Proc, Partner(p, c),
         \A q \in Proc \ {p, c} : Kept(q),
         WorkingOf(p)', WorkingOf(c)',
         c # p => pc'[c] \notin Forking,
         pc'[p] \in Forking => child'[p] = c
  PROVE  Working'
<1>1. ASSUME NEW q \in Proc \ {p, c}
      PROVE  WorkingOf(q)'
  <2>1. WorkingOf(q) /\ Kept(q)
    BY <1>1 DEF Working
  <2>2. CASE pc[q] \in Forking
    <3>1. Kept(child[q])
      BY <2>2, PartnersAlone
    <3> QED BY <2>1, <2>2, <3>1 DEF WorkingOf, Kept, Mapped
  <2>3. CASE pc[q] \notin Forking
    BY <2>1, <2>3 DEF WorkingOf, Kept, Mapped, Forking
  <2> QED BY <2>2, <2>3
<1>2. ASSUME NEW q \in Proc, NEW r \in Proc, pc'[q] \in Forking, pc'[r] \in Forking,
             child'[q] = child'[r]
      PROVE  q = r
  <2>1. ASSUME NEW x \in Proc \ {p, c}, pc'[x] \in Forking
        PROVE  pc[x] \in Forking /\ child'[x] = child[x] /\ child[x] \in Proc \ {p, c}
    BY <2>1, PartnersAlone DEF Kept
  <2>2. CASE q \in {p, c}
    BY <1>2, <2>1, <2>2
  <2>3. CASE q \notin {p, c}
    BY <1>2, <2>1, <2>3 DEF Working
  <2> QED BY <2>2, <2>3
<1> QED BY <1>1, <1>2 DEF Working

\* A step of p writes to frames of the pool and to its own.
OwnWrites(p) ==
  \A g \in Frame : \/ content'[g] = content[g] \/ free[g] # 0 \/ g = frame[p]
                   \/ \E s \in Slot : g = own[p][s]

\* What the frames of everybody else hold stays the same.
LEMMA ContentsKept ==
  ASSUME TypeOK, Placed, Working, Contents, NEW p \in Proc, NEW c \in Proc, Partner(p, c),
         \A q \in Proc \ {p, c} : Kept(q), OwnWrites(p),
         ContentsOf(p)',
         c # p => pc'[c] \in {"absent", "building", "user"}
  PROVE  Contents'
<1>0. 1..limit \subseteq Frame
  BY FrameNumbers
<1>1. ASSUME NEW q \in Proc \ {p}, NEW s \in Slot, own[q][s] # NoFrame
      PROVE  content'[own[q][s]] = content[own[q][s]]
  BY <1>0, <1>1 DEF Placed, PlacedIn, OwnWrites
<1>2. ASSUME NEW q \in Proc \ {p}, frame[q] # NoFrame
      PROVE  content'[frame[q]] = content[frame[q]]
  BY <1>0, <1>2 DEF Placed, PlacedIn, OwnWrites
<1>3. ASSUME NEW q \in Proc \ {p, c}
      PROVE  ContentsOf(q)'
  <2>1. ContentsOf(q) /\ Kept(q) /\ WorkingOf(q)
    BY <1>3 DEF Contents, Working
  <2>2. CASE pc[q] \in {"fork", "forkMap"}
    <3>1. child[q] \in Proc \ {p, c} /\ Kept(child[q])
      BY <2>2, PartnersAlone DEF Forking
    <3>2. \A v \in Page : PG(v) \in Slot
      BY SlotNames
    <3>3. \A v \in Page \ todo[q] :
            /\ own'[q][PG(v)] = NoFrame <=> own'[child'[q]][PG(v)] = NoFrame
            /\ own'[q][PG(v)] # NoFrame =>
                  content'[own'[child'[q]][PG(v)]] = content'[own'[q][PG(v)]]
      BY <1>1, <2>1, <2>2, <3>1, <3>2 DEF ContentsOf, Kept
    <3>4. pc[q] = "forkMap" => content'[frame'[q]] = content'[own'[q][PG(Min(todo'[q]))]]
      <4>1. SUFFICES ASSUME pc[q] = "forkMap"
                     PROVE  content'[frame'[q]] = content'[own'[q][PG(Min(todo'[q]))]]
        OBVIOUS
      <4>2. todo[q] # {} /\ todo[q] \subseteq Mapped(q) /\ frame[q] # NoFrame
        BY <2>1, <4>1 DEF WorkingOf
      <4>3. Min(todo[q]) \in todo[q]
        BY <4>2, MinNat DEF Mapped, Page
      <4>4. own[q][PG(Min(todo[q]))] # NoFrame /\ PG(Min(todo[q])) \in Slot
        BY <3>2, <4>2, <4>3 DEF Mapped
      <4> QED BY <1>1, <1>2, <2>1, <4>1, <4>2, <4>4 DEF ContentsOf, Kept
    <3> QED BY <2>1, <2>2, <3>3, <3>4 DEF ContentsOf, Kept
  <2>3. CASE pc[q] \notin {"fork", "forkMap"}
    BY <1>2, <2>1, <2>3 DEF ContentsOf, Kept, WorkingOf
  <2> QED BY <2>2, <2>3
<1>4. c # p => ContentsOf(c)'
  BY DEF ContentsOf
<1> QED BY <1>3, <1>4 DEF Contents
-----------------------------------------------------------------------------
(* The actions keep the invariant.                                         *)

\* The TLB may forget, and what it remembers stays in the tables.
LEMMA TlbKept ==
  ASSUME TlbCoherent, current' = current,
         \A v \in Page : \/ tlb'[v] = NoFrame
                         \/ /\ tlb'[v] = tlb[v]
                            /\ current \in Proc => own'[current][PG(v)] = own[current][PG(v)]
  PROVE  TlbCoherent'
BY DEF TlbCoherent

\* When alloc panics nothing changes but the machine.
LEMMA HaltStep ==
  ASSUME IInv, NoMoreFrames
  PROVE  IInv'
<1>1. /\ UNCHANGED <<limit, current, tlb, free, content, own, pc, child, todo, frame, fault, victim>>
      /\ machine' = "halted"
  BY DEF NoMoreFrames, pool, locals
<1>2. TypeOK'
  BY <1>1 DEF IInv, TypeOK
<1>3. Placed'
  BY <1>1 DEF IInv, Placed, PlacedIn
<1>4. Working' /\ Contents'
  BY <1>1 DEF IInv, Working, WorkingOf, Contents, ContentsOf, Mapped
<1>5. TlbCoherent'
  BY <1>1 DEF IInv, TlbCoherent
<1> QED BY <1>2, <1>3, <1>4, <1>5 DEF IInv

\* Only the running process writes, to its own page.
LEMMA AccessStep ==
  ASSUME IInv, NEW p \in Proc, NEW v \in Page, Access(p, v)
  PROVE  IInv'
<1> DEFINE f == own[p][PG(v)]
<1>0. 1..limit \subseteq Frame /\ PG(v) \in Slot
  BY FrameNumbers, SlotNames DEF IInv
<1>1. /\ current = p /\ pc[p] = "user" /\ f # NoFrame
      /\ tlb' = [tlb EXCEPT ![v] = f] /\ content' = [content EXCEPT ![f] = p]
      /\ UNCHANGED <<current, free, own, pc, child, todo, frame, fault, victim, limit, machine>>
  BY DEF IInv, TlbCoherent, Access, Runs, locals, system
<1>2. f \in 1..limit
  BY <1>0, <1>1 DEF IInv, Placed, PlacedIn
<1>3. TypeOK'
  BY <1>0, <1>1, <1>2 DEF IInv, TypeOK
<1>4. Placed'
  BY <1>1 DEF IInv, Placed, PlacedIn
<1>5. Working'
  BY <1>1 DEF IInv, Working, WorkingOf, Mapped
<1>6. TlbCoherent'
  BY <1>1 DEF IInv, TlbCoherent, TypeOK
<1>7. Contents'
  <2>1. OwnWrites(p)
    BY <1>0, <1>1 DEF OwnWrites, IInv, TypeOK
  <2>2. Partner(p, p) /\ \A q \in Proc \ {p} : Kept(q)
    BY <1>1 DEF Partner, Kept
  <2>3. ContentsOf(p)'
    BY <1>1 DEF ContentsOf
  <2> QED BY <2>1, <2>2, <2>3, ContentsKept DEF IInv
<1> QED BY <1>3, <1>4, <1>5, <1>6, <1>7 DEF IInv

\* The frame of a page fault comes from the pool, and is blank.
LEMMA FaultStep ==
  ASSUME IInv, NEW p \in Proc, NEW v \in Page, Fault(p, v)
  PROVE  IInv'
<1>0. 1..limit \subseteq Frame
  BY FrameNumbers DEF IInv
<1>1. CASE NoMoreFrames
  BY <1>1, HaltStep
<1>2. CASE ~NoMoreFrames
  <2>1. /\ current = p /\ pc[p] = "user" /\ own[p][PG(v)] = NoFrame
        /\ CanAlloc /\ Alloc("blank")
        /\ frame' = [frame EXCEPT ![p] = Taken]
        /\ fault' = [fault EXCEPT ![p] = v]
        /\ pc' = [pc EXCEPT ![p] = "map"]
        /\ UNCHANGED <<current, tlb, own, child, todo, victim>>
    BY <1>2 DEF Fault, Runs, Goto
  <2>2. /\ Taken \in 1..limit /\ Taken \in Frame /\ Taken # NoFrame /\ free[Taken] = 1
        /\ PoolTakes(free', free, Taken)
        /\ \A g \in Frame : content'[g] = IF g = Taken THEN "blank" ELSE content[g]
        /\ free' \in [Frame -> Nat] /\ limit' = limit /\ machine' = machine
    BY <2>1, AllocFacts DEF IInv
  <2> HIDE DEF Taken
  <2>3. TypeOK'
    BY <2>1, <2>2 DEF IInv, TypeOK, Alloc
  <2>4. Placed'
    <3>1. HandSet(frame', frame, p, Taken) /\ frame[p] = NoFrame
      BY <2>1 DEF IInv, TypeOK, Working, WorkingOf, HandSet
    <3>2. PlacedIn(free', own, frame')
      BY <1>0, <2>2, <3>1, PoolToHand DEF IInv, Placed
    <3> QED BY <2>1, <2>2, <3>2 DEF Placed, PlacedIn
  <2>5. Partner(p, p) /\ \A q \in Proc \ {p} : Kept(q)
    BY <2>1 DEF Partner, Kept, IInv, TypeOK
  <2>6. Working'
    <3>1. WorkingOf(p)'
      BY <2>1, <2>2 DEF IInv, TypeOK, WorkingOf, Forking
    <3>2. pc'[p] \notin Forking
      BY <2>1 DEF IInv, TypeOK, Forking
    <3> QED BY <2>5, <3>1, <3>2, WorkingKept DEF IInv
  <2>7. TlbCoherent'
    BY <2>1 DEF IInv, TlbCoherent
  <2>8. Contents'
    <3>1. OwnWrites(p)
      <4>1. free[Taken] # 0
        BY <2>2
      <4>2. \A g \in Frame : g # Taken => content'[g] = content[g]
        BY <2>2
      <4> QED BY <4>1, <4>2 DEF OwnWrites
    <3>2. ContentsOf(p)'
      BY <2>1, <2>2 DEF IInv, TypeOK, ContentsOf
    <3> QED BY <2>5, <3>1, <3>2, ContentsKept DEF IInv
  <2> QED BY <2>3, <2>4, <2>6, <2>7, <2>8 DEF IInv
<1> QED BY <1>1, <1>2

\* The page that is mapped has had no frame, so none is lost.
LEMMA MapStep ==
  ASSUME IInv, NEW p \in Proc, Map(p)
  PROVE  IInv'
<1> DEFINE v == fault[p]
<1>1. CASE NoMoreFrames
  BY <1>1, HaltStep
<1>2. CASE ~NoMoreFrames
  <2>1. /\ current = p /\ pc[p] = "map" /\ Pmap(p, v, frame[p])
        /\ tlb' = [tlb EXCEPT ![v] = NoFrame]
        /\ frame' = [frame EXCEPT ![p] = NoFrame]
        /\ fault' = [fault EXCEPT ![p] = 0]
        /\ pc' = [pc EXCEPT ![p] = "user"]
        /\ UNCHANGED <<current, child, todo, victim>>
    BY <1>2 DEF Map, Runs, Goto, Forget
  <2>2. v \in Page /\ 0 \in Page /\ own[p][PG(v)] = NoFrame /\ frame[p] # NoFrame
    BY <2>1, SizeAssumption DEF IInv, TypeOK, Working, WorkingOf, Page
  <2>3. /\ limit' = limit /\ machine' = machine
        /\ own' \in Spaces /\ free' \in [Frame -> Nat]
        /\ content' \in [Frame -> Proc \cup {"blank", "link"}]
        /\ \A x \in Proc \ {p} : own'[x] = own[x]
        /\ own'[p][PG(v)] = frame[p]
        /\ \A w \in Page \ {v} : own'[p][PG(w)] = own[p][PG(w)]
        /\ \A g \in Frame : free[g] = 0 => content'[g] = content[g]
        /\ PlacedIn(free', own', frame')
    BY <2>1, <2>2, PmapFacts DEF IInv
  <2>4. TypeOK'
    BY <2>1, <2>2, <2>3 DEF IInv, TypeOK, Spaces
  <2>5. Placed'
    BY <2>3 DEF Placed, PlacedIn
  <2>6. Partner(p, p) /\ \A q \in Proc \ {p} : Kept(q)
    BY <2>1, <2>3 DEF Partner, Kept, IInv, TypeOK
  <2>7. Working'
    <3>1. WorkingOf(p)'
      BY <2>1 DEF IInv, TypeOK, WorkingOf, Forking
    <3>2. pc'[p] \notin Forking
      BY <2>1 DEF IInv, TypeOK, Forking
    <3> QED BY <2>6, <3>1, <3>2, WorkingKept DEF IInv
  <2>8. TlbCoherent'
    BY <2>1, <2>3, TlbKept DEF IInv, TypeOK
  <2>9. Contents'
    <3>1. OwnWrites(p)
      BY <2>3 DEF OwnWrites
    <3>2. ContentsOf(p)'
      BY <2>1 DEF IInv, TypeOK, ContentsOf
    <3> QED BY <2>6, <3>1, <3>2, ContentsKept DEF IInv
  <2> QED BY <2>4, <2>5, <2>7, <2>8, <2>9 DEF IInv
<1> QED BY <1>1, <1>2

\* A process that does not exist yet is nobody's child.
LEMMA ForkStep ==
  ASSUME IInv, NEW p \in Proc, NEW c \in Proc, Fork(p, c)
  PROVE  IInv'
<1>1. /\ pc[p] = "user" /\ pc[c] = "absent" /\ c # p
      /\ pc' = [pc EXCEPT ![p] = "forkPd", ![c] = "building"]
      /\ child' = [child EXCEPT ![p] = c]
      /\ UNCHANGED <<current, tlb, free, content, own, todo, frame, fault, victim, limit, machine>>
  BY DEF Fork, Runs, pool, system
<1>2. TypeOK'
  BY <1>1 DEF IInv, TypeOK, Gone
<1>3. Placed'
  BY <1>1 DEF IInv, Placed, PlacedIn
<1>4. DOMAIN pc = Proc /\ DOMAIN child = Proc
  BY DEF IInv, TypeOK
<1>5. pc'[p] = "forkPd" /\ pc'[c] = "building" /\ child'[p] = c
  BY <1>1, <1>4
<1>6. Partner(p, c) /\ \A q \in Proc \ {p, c} : Kept(q)
  BY <1>1, <1>4 DEF Partner, Kept
<1>7. Working'
  <2>1. frame[p] = NoFrame /\ frame[c] = NoFrame /\ own[c] = Empty
    BY <1>1 DEF IInv, Working, WorkingOf
  <2>2. WorkingOf(p)'
    BY <1>1, <1>5, <2>1 DEF WorkingOf
  <2>3. WorkingOf(c)'
    BY <1>1, <1>5, <2>1 DEF WorkingOf, Forking
  <2> QED BY <1>5, <1>6, <2>2, <2>3, WorkingKept DEF IInv, Forking
<1>8. TlbCoherent'
  BY <1>1 DEF IInv, TlbCoherent
<1>9. Contents'
  <2>1. OwnWrites(p)
    BY <1>1 DEF OwnWrites
  <2>2. ContentsOf(p)'
    BY <1>5 DEF ContentsOf
  <2> QED BY <1>5, <1>6, <2>1, <2>2, ContentsKept DEF IInv
<1> QED BY <1>2, <1>3, <1>7, <1>8, <1>9 DEF IInv

\* The child's directory and kernel table go into slots that were empty.
LEMMA ForkTableStep ==
  ASSUME IInv, NEW p \in Proc,
         NEW l, NEW s, NEW next,
         \/ l = "forkPd" /\ s = PD /\ next = "forkLow"
         \/ l = "forkLow" /\ s = Low /\ next = "fork",
         ForkTable(p, l, s, next)
  PROVE  IInv'
<1>0. 1..limit \subseteq Frame
  BY FrameNumbers DEF IInv
<1>1. CASE NoMoreFrames
  BY <1>1, HaltStep
<1>2. CASE ~NoMoreFrames
  <2>1. /\ current = p /\ pc[p] = l /\ CanAlloc /\ Alloc("blank")
        /\ own' = [own EXCEPT ![child[p]][s] = Taken]
        /\ pc' = [pc EXCEPT ![p] = next]
        /\ todo' = [todo EXCEPT ![p] = Mapped(p)]
        /\ UNCHANGED <<current, tlb, child, frame, fault, victim>>
    BY <1>2 DEF ForkTable, Runs, Goto
  <2>2. /\ Taken \in 1..limit /\ Taken \in Frame /\ Taken # NoFrame /\ free[Taken] = 1
        /\ PoolTakes(free', free, Taken)
        /\ \A g \in Frame : content'[g] = IF g = Taken THEN "blank" ELSE content[g]
        /\ free' \in [Frame -> Nat] /\ limit' = limit /\ machine' = machine
    BY <2>1, AllocFacts DEF IInv
  <2> HIDE DEF Taken
  <2>3. /\ s \in Slot /\ PD \in Slot /\ Low \in Slot /\ PD # Low
        /\ \A w \in Page : PG(w) \in Slot /\ PG(w) # s
    BY SlotNames
  <2> PICK c : c = child[p]
    OBVIOUS
  <2>4. /\ c \in Proc /\ c # p /\ pc[c] = "building" /\ own[c][s] = NoFrame
        /\ l = "forkPd" => own[c] = Empty
        /\ \A w \in Page : own[c][PG(w)] = NoFrame
    <3>1. WorkingOf(p) /\ pc[p] \in Forking
      BY <2>1 DEF IInv, Working, Forking
    <3>2. c \in Proc /\ c # p /\ pc[c] = "building"
      BY <3>1 DEF WorkingOf
    <3>3. CASE l = "forkPd"
      BY <2>1, <2>3, <3>1, <3>2, <3>3 DEF WorkingOf, Empty
    <3>4. CASE l = "forkLow"
      <4>1. \A x \in Slot \ {PD} : own[c][x] = NoFrame
        BY <2>1, <3>1, <3>4 DEF WorkingOf
      <4>2. \A w \in Page : PG(w) \in Slot \ {PD}
        BY SlotNames
      <4> QED BY <2>3, <3>2, <3>4, <4>1, <4>2
    <3> QED BY <3>3, <3>4
  <2>5. /\ DOMAIN pc = Proc /\ own \in Spaces /\ todo \in [Proc -> SUBSET Page]
        /\ Mapped(p) \subseteq Page
    BY DEF IInv, TypeOK, Spaces, Mapped
  <2>6. /\ pc'[p] = next /\ pc'[c] = "building" /\ child'[p] = c /\ todo'[p] = Mapped(p)
        /\ SlotSet(own', own, c, s, Taken)
        /\ \A q \in Proc \ {c} : own'[q] = own[q]
    BY <2>1, <2>3, <2>4, <2>5 DEF SlotSet, Spaces
  <2>7. TypeOK'
    <3>1. own' \in Spaces
      BY <2>1, <2>2, <2>5 DEF Spaces
    <3> QED BY <2>1, <2>2, <2>5, <3>1 DEF IInv, TypeOK, Alloc, Spaces
  <2>8. Placed'
    <3>1. PlacedIn(free', own', frame)
      BY <1>0, <2>2, <2>3, <2>4, <2>6, PoolToSlot DEF IInv, Placed
    <3> QED BY <2>1, <2>2, <3>1 DEF Placed, PlacedIn
  <2>9. Partner(p, c) /\ \A q \in Proc \ {p, c} : Kept(q)
    BY <2>1, <2>4, <2>5, <2>6 DEF Partner, Kept, Forking
  <2>10. Working'
    <3>1. frame[p] = NoFrame /\ frame[c] = NoFrame
      BY <2>1, <2>4 DEF IInv, Working, WorkingOf
    <3>2. WorkingOf(c)'
      BY <2>1, <2>6, <3>1 DEF WorkingOf, Forking
    <3>3. next = "forkLow" => \A x \in Slot \ {PD} : own'[c][x] = NoFrame
      BY <2>4, <2>6 DEF SlotSet, Empty
    <3>4. \A w \in Page : own'[c][PG(w)] = NoFrame
      BY <2>3, <2>4, <2>6 DEF SlotSet
    <3>5. Mapped(p)' = Mapped(p)
      BY <2>4, <2>6 DEF Mapped
    <3>6. WorkingOf(p)'
      BY <2>1, <2>4, <2>5, <2>6, <3>1, <3>3, <3>4, <3>5 DEF WorkingOf
    <3>7. pc'[c] \notin Forking
      BY <2>6 DEF Forking
    <3> QED BY <2>4, <2>6, <2>9, <3>2, <3>6, <3>7, WorkingKept DEF IInv
  <2>11. TlbCoherent'
    BY <2>1, <2>4, <2>6, TlbKept DEF IInv
  <2>12. Contents'
    <3>1. OwnWrites(p)
      <4>1. \A g \in Frame : content'[g] = content[g] \/ free[g] # 0
        BY <2>2
      <4> QED BY <4>1, Zenon DEF OwnWrites
    <3>2. \A w \in Page : own'[c][PG(w)] = NoFrame
      BY <2>3, <2>4, <2>6 DEF SlotSet
    <3>3. \A w \in Page \ Mapped(p) : own'[p][PG(w)] = NoFrame
      BY <2>4, <2>6 DEF Mapped
    <3>4. ContentsOf(p)'
      BY <2>6, <3>2, <3>3 DEF ContentsOf
    <3> QED BY <2>4, <2>6, <2>9, <3>1, <3>4, ContentsKept DEF IInv
  <2> QED BY <2>7, <2>8, <2>10, <2>11, <2>12 DEF IInv
<1> QED BY <1>1, <1>2

\* The copy comes from the pool, and holds what the page holds.
LEMMA ForkCopyStep ==
  ASSUME IInv, NEW p \in Proc, ForkCopy(p)
  PROVE  IInv'
<1>0. 1..limit \subseteq Frame
  BY FrameNumbers DEF IInv
<1>1. CASE NoMoreFrames
  BY <1>1, HaltStep
<1>2. CASE ~NoMoreFrames
  <2> PICK v : v = Min(todo[p])
    OBVIOUS
  <2> PICK c : c = child[p]
    OBVIOUS
  <2>1. /\ current = p /\ pc[p] = "fork" /\ todo[p] # {}
        /\ CanAlloc /\ Alloc(content[own[p][PG(v)]])
        /\ frame' = [frame EXCEPT ![p] = Taken]
        /\ pc' = [pc EXCEPT ![p] = "forkMap"]
        /\ UNCHANGED <<current, tlb, own, child, todo, fault, victim>>
    BY <1>2 DEF ForkCopy, Runs, Goto
  <2>2. /\ Taken \in 1..limit /\ Taken \in Frame /\ Taken # NoFrame /\ free[Taken] = 1
        /\ PoolTakes(free', free, Taken)
        /\ \A g \in Frame : content'[g] = IF g = Taken THEN content[own[p][PG(v)]] ELSE content[g]
        /\ \A q \in Proc : \A s \in Slot : own[q][s] # Taken
        /\ free' \in [Frame -> Nat] /\ limit' = limit /\ machine' = machine
    BY <2>1, AllocFacts DEF IInv
  <2>3. /\ todo[p] \subseteq Mapped(p) /\ todo[p] \subseteq Page /\ frame[p] = NoFrame
        /\ c \in Proc /\ c # p /\ pc[c] = "building"
    BY <2>1 DEF IInv, Working, WorkingOf, TypeOK, Forking
  <2>4. v \in todo[p]
    BY <2>1, <2>3, MinNat DEF Page
  <2>5. v \in Page /\ PG(v) \in Slot /\ own[p][PG(v)] # NoFrame /\ own[p][PG(v)] \in Frame
    BY <1>0, <2>3, <2>4, SlotNames DEF Mapped, IInv, TypeOK
  <2>6. DOMAIN pc = Proc /\ frame \in [Proc -> Frame \cup {NoFrame}]
    BY DEF IInv, TypeOK
  <2>7. pc'[p] = "forkMap" /\ pc'[c] = "building" /\ frame'[p] = Taken /\ child'[p] = c
    BY <2>1, <2>3, <2>6
  <2> HIDE DEF Taken
  <2>8. TypeOK'
    BY <2>1, <2>2, <2>5 DEF IInv, TypeOK, Alloc
  <2>9. Placed'
    <3>1. HandSet(frame', frame, p, Taken)
      BY <2>1, <2>6 DEF HandSet
    <3>2. PlacedIn(free', own, frame')
      BY <1>0, <2>2, <2>3, <3>1, PoolToHand DEF IInv, Placed
    <3> QED BY <2>1, <2>2, <3>2 DEF Placed, PlacedIn
  <2>10. Partner(p, c) /\ \A q \in Proc \ {p, c} : Kept(q)
    BY <2>1, <2>6 DEF Partner, Kept, Forking
  <2>11. Working'
    <3>1. frame'[c] = NoFrame
      BY <2>1, <2>3, <2>6 DEF IInv, Working, WorkingOf
    <3>2. WorkingOf(c)'
      BY <2>7, <3>1 DEF WorkingOf, Forking
    <3>3. WorkingOf(p)'
      BY <2>1, <2>2, <2>3, <2>7 DEF WorkingOf, IInv, Working, Mapped
    <3> QED BY <2>3, <2>7, <2>10, <3>2, <3>3, WorkingKept DEF IInv, Forking
  <2>12. TlbCoherent'
    BY <2>1 DEF IInv, TlbCoherent
  <2>13. Contents'
    <3>1. OwnWrites(p)
      BY <2>2 DEF OwnWrites
    <3>2. content'[frame'[p]] = content'[own'[p][PG(v)]]
      BY <2>1, <2>2, <2>5, <2>7
    <3>3. ASSUME NEW w \in Page \ todo[p]
          PROVE  /\ own[p][PG(w)] = NoFrame <=> own[c][PG(w)] = NoFrame
                 /\ own[p][PG(w)] # NoFrame => content'[own[c][PG(w)]] = content'[own[p][PG(w)]]
      <4>1. /\ own[p][PG(w)] = NoFrame <=> own[c][PG(w)] = NoFrame
            /\ own[p][PG(w)] # NoFrame => content[own[c][PG(w)]] = content[own[p][PG(w)]]
        BY <2>1 DEF IInv, Contents, ContentsOf
      <4>2. PG(w) \in Slot /\ own \in Spaces
        BY SlotNames DEF IInv, TypeOK, Spaces
      <4> QED BY <1>0, <2>2, <2>3, <4>1, <4>2 DEF Spaces
    <3>4. ContentsOf(p)'
      BY <2>1, <2>7, <3>2, <3>3 DEF ContentsOf
    <3> QED BY <2>3, <2>7, <2>10, <3>1, <3>4, ContentsKept DEF IInv
  <2> QED BY <2>8, <2>9, <2>11, <2>12, <2>13 DEF IInv
<1> QED BY <1>1, <1>2

\* The child gets the copy under an address where it has had no frame.
LEMMA ForkMapStep ==
  ASSUME IInv, NEW p \in Proc, ForkMap(p)
  PROVE  IInv'
<1>0. 1..limit \subseteq Frame
  BY FrameNumbers DEF IInv
<1>1. CASE NoMoreFrames
  BY <1>1, HaltStep
<1>2. CASE ~NoMoreFrames
  <2> PICK v : v = Min(todo[p])
    OBVIOUS
  <2> PICK c : c = child[p]
    OBVIOUS
  <2>1. /\ current = p /\ pc[p] = "forkMap" /\ Pmap(c, v, frame[p])
        /\ tlb' = [tlb EXCEPT ![v] = NoFrame]
        /\ frame' = [frame EXCEPT ![p] = NoFrame]
        /\ todo' = [todo EXCEPT ![p] = @ \ {v}]
        /\ pc' = [pc EXCEPT ![p] = "fork"]
        /\ UNCHANGED <<current, child, fault, victim>>
    BY <1>2 DEF ForkMap, Runs, Goto, Forget
  <2>2. WorkingOf(p) /\ pc[p] \in Forking /\ ContentsOf(p)
    BY <2>1 DEF IInv, Working, Forking, Contents
  <2>3. /\ todo[p] \subseteq Mapped(p) /\ todo[p] \subseteq Page /\ todo[p] # {}
        /\ frame[p] # NoFrame /\ c \in Proc /\ c # p /\ pc[c] = "building"
        /\ \A w \in todo[p] : own[c][PG(w)] = NoFrame
    BY <2>1, <2>2 DEF WorkingOf, IInv, TypeOK
  <2>4. v \in todo[p]
    BY <2>3, MinNat DEF Page
  <2>5. v \in Page /\ own[c][PG(v)] = NoFrame /\ own[p][PG(v)] # NoFrame
    BY <2>3, <2>4 DEF Mapped
  <2>6. /\ limit' = limit /\ machine' = machine
        /\ own' \in Spaces /\ free' \in [Frame -> Nat]
        /\ content' \in [Frame -> Proc \cup {"blank", "link"}]
        /\ \A x \in Proc \ {c} : own'[x] = own[x]
        /\ own'[c][PG(v)] = frame[p]
        /\ \A w \in Page \ {v} : own'[c][PG(w)] = own[c][PG(w)]
        /\ \A g \in Frame : free[g] = 0 => content'[g] = content[g]
        /\ PlacedIn(free', own', frame')
    BY <2>1, <2>3, <2>5, PmapFacts, ZenonT(40) DEF IInv
  <2>7. DOMAIN pc = Proc /\ DOMAIN todo = Proc /\ DOMAIN frame = Proc /\ DOMAIN tlb = Page
    BY DEF IInv, TypeOK
  <2>8. /\ pc'[p] = "fork" /\ pc'[c] = "building" /\ child'[p] = c /\ frame'[p] = NoFrame
        /\ todo'[p] = todo[p] \ {v} /\ own'[p] = own[p]
    BY <2>1, <2>3, <2>6, <2>7
  <2>9. TypeOK'
    BY <2>1, <2>3, <2>6 DEF IInv, TypeOK, Spaces
  <2>10. Placed'
    BY <2>6 DEF Placed, PlacedIn
  <2>11. Partner(p, c) /\ \A q \in Proc \ {p, c} : Kept(q)
    BY <2>1, <2>2, <2>6, <2>7 DEF Partner, Kept, Forking
  <2>12. Working'
    <3>1. frame'[c] = NoFrame
      BY <2>1, <2>3, <2>7 DEF IInv, Working, WorkingOf
    <3>2. WorkingOf(c)'
      BY <2>8, <3>1 DEF WorkingOf, Forking
    <3>3. \A w \in todo'[p] : own'[c][PG(w)] = NoFrame
      BY <2>3, <2>6, <2>8
    <3>4. todo'[p] \subseteq Mapped(p)'
      BY <2>3, <2>8 DEF Mapped
    <3>5. WorkingOf(p)'
      BY <2>3, <2>8, <3>3, <3>4 DEF WorkingOf
    <3> QED BY <2>3, <2>8, <2>11, <3>2, <3>5, WorkingKept DEF IInv, Forking
  <2>13. TlbCoherent'
    <3>1. \A w \in Page : tlb'[w] = NoFrame \/ tlb'[w] = tlb[w]
      BY <2>1, <2>7
    <3> QED BY <2>1, <2>8, <3>1, TlbKept DEF IInv
  <2>14. Contents'
    <3>1. \A g \in Frame : content'[g] = content[g] \/ free[g] # 0
      BY <2>6
    <3>2. OwnWrites(p)
      BY <3>1, Zenon DEF OwnWrites
    <3>3. frame[p] \in Frame /\ free[frame[p]] = 0
      BY <1>0, <2>3 DEF IInv, Placed, PlacedIn
    <3>4. ASSUME NEW q \in Proc, NEW w \in Page, own[q][PG(w)] # NoFrame
          PROVE  content'[own[q][PG(w)]] = content[own[q][PG(w)]]
      <4>1. PG(w) \in Slot
        BY SlotNames
      <4> QED BY <1>0, <2>6, <3>4, <4>1 DEF IInv, Placed, PlacedIn
    <3>5. ASSUME NEW w \in Page \ todo'[p]
          PROVE  /\ own'[p][PG(w)] = NoFrame <=> own'[c][PG(w)] = NoFrame
                 /\ own'[p][PG(w)] # NoFrame => content'[own'[c][PG(w)]] = content'[own'[p][PG(w)]]
      <4>1. CASE w = v
        <5>1. content[frame[p]] = content[own[p][PG(v)]]
          BY <2>1, <2>2 DEF ContentsOf
        <5>2. content'[frame[p]] = content'[own[p][PG(v)]]
          BY <2>5, <2>6, <3>3, <3>4, <5>1
        <5> QED BY <2>3, <2>5, <2>6, <2>8, <4>1, <5>2
      <4>2. CASE w # v
        <5>1. /\ own[p][PG(w)] = NoFrame <=> own[c][PG(w)] = NoFrame
              /\ own[p][PG(w)] # NoFrame => content[own[c][PG(w)]] = content[own[p][PG(w)]]
          BY <2>1, <2>2, <2>8, <4>2 DEF ContentsOf
        <5> QED BY <2>3, <2>6, <2>8, <3>4, <4>2, <5>1
      <4> QED BY <4>1, <4>2
    <3>6. ContentsOf(p)'
      BY <2>8, <3>5 DEF ContentsOf
    <3> QED BY <2>3, <2>8, <2>11, <3>2, <3>6, ContentsKept DEF IInv
  <2> QED BY <2>9, <2>10, <2>12, <2>13, <2>14 DEF IInv
<1> QED BY <1>1, <1>2

\* The child runs when all has been copied.
LEMMA ForkEndStep ==
  ASSUME IInv, NEW p \in Proc, ForkEnd(p)
  PROVE  IInv'
<1> PICK c : c = child[p]
  OBVIOUS
<1>1. /\ pc[p] = "fork" /\ todo[p] = {}
      /\ pc' = [pc EXCEPT ![p] = "user", ![c] = "user"]
      /\ child' = [child EXCEPT ![p] = Idle]
      /\ UNCHANGED <<current, tlb, free, content, own, todo, frame, fault, victim, limit, machine>>
  BY DEF ForkEnd, Runs, pool, system
<1>2. WorkingOf(p) /\ pc[p] \in Forking
  BY <1>1 DEF IInv, Working, Forking
<1>3. c \in Proc /\ c # p /\ pc[c] = "building" /\ frame[p] = NoFrame
  BY <1>1, <1>2 DEF WorkingOf
<1>4. DOMAIN pc = Proc /\ DOMAIN child = Proc
  BY DEF IInv, TypeOK
<1>5. pc'[p] = "user" /\ pc'[c] = "user"
  BY <1>1, <1>3, <1>4
<1>6. TypeOK'
  BY <1>1, <1>3 DEF IInv, TypeOK, Gone
<1>7. Placed'
  BY <1>1 DEF IInv, Placed, PlacedIn
<1>8. Partner(p, c) /\ \A q \in Proc \ {p, c} : Kept(q)
  BY <1>1, <1>2, <1>4 DEF Partner, Kept, Forking
<1>9. Working'
  <2>1. frame'[p] = NoFrame /\ frame'[c] = NoFrame
    BY <1>1, <1>3 DEF IInv, Working, WorkingOf
  <2>2. WorkingOf(p)' /\ WorkingOf(c)'
    BY <1>5, <2>1 DEF WorkingOf, Forking
  <2> QED BY <1>3, <1>5, <1>8, <2>2, WorkingKept DEF IInv, Forking
<1>10. TlbCoherent'
  BY <1>1 DEF IInv, TlbCoherent
<1>11. Contents'
  <2>1. OwnWrites(p)
    BY <1>1 DEF OwnWrites
  <2>2. ContentsOf(p)'
    BY <1>5 DEF ContentsOf
  <2> QED BY <1>3, <1>5, <1>8, <2>1, <2>2, ContentsKept DEF IInv
<1> QED BY <1>6, <1>7, <1>9, <1>10, <1>11 DEF IInv

\* Only where the process is, and what its loop has to look at, changes.
LEMMA ExecStep ==
  ASSUME IInv, NEW p \in Proc, Exec(p) \/ ExecEnd(p)
  PROVE  IInv'
<1>1. /\ pc[p] \in {"user", "exec"}
      /\ \/ pc' = [pc EXCEPT ![p] = "exec"] /\ todo' = [todo EXCEPT ![p] = Mapped(p)]
         \/ pc' = [pc EXCEPT ![p] = "user"] /\ todo' = todo
      /\ UNCHANGED <<current, tlb, free, content, own, child, frame, fault, victim, limit, machine>>
  BY DEF Exec, ExecEnd, Runs, Goto, pool, system, locals
<1>2. DOMAIN pc = Proc /\ DOMAIN todo = Proc
  BY DEF IInv, TypeOK
<1>3. pc'[p] \in {"user", "exec"} /\ (pc'[p] = "exec" => todo'[p] = Mapped(p))
  BY <1>1, <1>2
<1>4. TypeOK'
  <2>1. Mapped(p) \subseteq Page
    BY DEF Mapped
  <2> QED BY <1>1, <2>1, ZenonT(40) DEF IInv, TypeOK
<1>5. Placed'
  BY <1>1 DEF IInv, Placed, PlacedIn
<1>6. Partner(p, p) /\ \A q \in Proc \ {p} : Kept(q)
  BY <1>1, <1>2 DEF Partner, Kept
<1>7. Working'
  <2>1. frame'[p] = NoFrame /\ Mapped(p)' = Mapped(p)
    BY <1>1 DEF IInv, Working, WorkingOf, Mapped
  <2>2. WorkingOf(p)'
    BY <1>3, <2>1 DEF WorkingOf, Forking
  <2> QED BY <1>3, <1>6, <2>2, WorkingKept DEF IInv, Forking
<1>8. TlbCoherent'
  BY <1>1 DEF IInv, TlbCoherent
<1>9. Contents'
  <2>1. OwnWrites(p)
    BY <1>1 DEF OwnWrites
  <2>2. ContentsOf(p)'
    BY <1>3 DEF ContentsOf
  <2> QED BY <1>6, <2>1, <2>2, ContentsKept DEF IInv
<1> QED BY <1>4, <1>5, <1>7, <1>8, <1>9 DEF IInv

\* A page that is unmapped is forgotten by the TLB, and its frame is held.
LEMMA ExecUnmapStep ==
  ASSUME IInv, NEW p \in Proc, ExecUnmap(p)
  PROVE  IInv'
<1> PICK v : v = Min(todo[p])
  OBVIOUS
<1>0. 1..limit \subseteq Frame
  BY FrameNumbers DEF IInv
<1>1. /\ current = p /\ pc[p] = "exec" /\ todo[p] # {}
      /\ frame' = [frame EXCEPT ![p] = own[p][PG(v)]]
      /\ own' = [own EXCEPT ![p][PG(v)] = NoFrame]
      /\ tlb' = [tlb EXCEPT ![v] = NoFrame]
      /\ todo' = [todo EXCEPT ![p] = @ \ {v}]
      /\ pc' = [pc EXCEPT ![p] = "execFree"]
      /\ UNCHANGED <<current, free, content, child, fault, victim, limit, machine>>
  BY DEF ExecUnmap, Runs, Goto, Forget, pool, system
<1>2. /\ todo[p] \subseteq Mapped(p) /\ todo[p] \subseteq Page /\ frame[p] = NoFrame
  BY <1>1 DEF IInv, TypeOK, Working, WorkingOf
<1>3. v \in todo[p]
  BY <1>1, <1>2, MinNat DEF Page
<1>4. v \in Page /\ PG(v) \in Slot /\ own[p][PG(v)] # NoFrame
  BY <1>2, <1>3, SlotNames DEF Mapped
<1>5. /\ DOMAIN pc = Proc /\ DOMAIN todo = Proc /\ DOMAIN frame = Proc /\ DOMAIN tlb = Page
      /\ own \in Spaces
  BY DEF IInv, TypeOK, Spaces
<1>6. /\ pc'[p] = "execFree" /\ todo'[p] = todo[p] \ {v} /\ frame'[p] = own[p][PG(v)]
      /\ own' \in Spaces /\ SlotSet(own', own, p, PG(v), NoFrame)
      /\ HandSet(frame', frame, p, own[p][PG(v)])
      /\ \A q \in Proc \ {p} : own'[q] = own[q]
  BY <1>1, <1>4, <1>5 DEF Spaces, SlotSet, HandSet
<1>7. \A w \in Page \ {v} : own'[p][PG(w)] = own[p][PG(w)]
  BY <1>6, SlotNames DEF SlotSet
<1>8. TypeOK'
  <2>1. own[p][PG(v)] \in Frame
    BY <1>0, <1>4, <1>5 DEF Spaces
  <2> QED BY <1>1, <1>2, <1>6, <2>1 DEF IInv, TypeOK, Spaces
<1>9. Placed'
  <2>1. PlacedIn(free, own', frame')
    BY <1>0, <1>2, <1>4, <1>6, SlotToHand DEF IInv, Placed
  <2> QED BY <1>1, <2>1 DEF Placed, PlacedIn
<1>10. Partner(p, p) /\ \A q \in Proc \ {p} : Kept(q)
  BY <1>1, <1>5, <1>6 DEF Partner, Kept
<1>11. Working'
  <2>1. todo'[p] \subseteq Mapped(p)'
    BY <1>2, <1>6, <1>7 DEF Mapped
  <2>2. WorkingOf(p)'
    BY <1>4, <1>6, <2>1 DEF WorkingOf, Forking
  <2> QED BY <1>6, <1>10, <2>2, WorkingKept DEF IInv, Forking
<1>12. TlbCoherent'
  <2>1. \A w \in Page : tlb'[w] = IF w = v THEN NoFrame ELSE tlb[w]
    BY <1>1, <1>5
  <2> QED BY <1>1, <1>7, <2>1, TlbKept DEF IInv
<1>13. Contents'
  <2>1. OwnWrites(p)
    BY <1>1 DEF OwnWrites
  <2>2. ContentsOf(p)'
    BY <1>6 DEF ContentsOf
  <2> QED BY <1>10, <2>1, <2>2, ContentsKept DEF IInv
<1> QED BY <1>8, <1>9, <1>11, <1>12, <1>13 DEF IInv

\* The frame that exec holds goes back to the pool.
LEMMA ExecFreeStep ==
  ASSUME IInv, NEW p \in Proc, ExecFree(p)
  PROVE  IInv'
<1>0. 1..limit \subseteq Frame
  BY FrameNumbers DEF IInv
<1>1. /\ current = p /\ pc[p] = "execFree" /\ FreeFrame(frame[p])
      /\ frame' = [frame EXCEPT ![p] = NoFrame]
      /\ pc' = [pc EXCEPT ![p] = "exec"]
      /\ UNCHANGED <<current, tlb, own, child, todo, fault, victim>>
  BY DEF ExecFree, Runs, Goto
<1>2. /\ frame[p] # NoFrame /\ todo[p] \subseteq Mapped(p)
  BY <1>1 DEF IInv, Working, WorkingOf
<1>3. frame[p] \in 1..limit
  BY <1>2 DEF IInv, Placed, PlacedIn
<1>4. /\ PoolGets(free', free, frame[p])
      /\ \A g \in Frame : content'[g] = IF g = frame[p] THEN "link" ELSE content[g]
      /\ free' \in [Frame -> Nat] /\ limit' = limit /\ machine' = machine
      /\ content' \in [Frame -> Proc \cup {"blank", "link"}]
  BY <1>1, <1>3, FreeFacts DEF IInv
<1>5. DOMAIN pc = Proc /\ DOMAIN frame = Proc
  BY DEF IInv, TypeOK
<1>6. pc'[p] = "exec" /\ frame'[p] = NoFrame /\ HandSet(frame', frame, p, NoFrame)
  BY <1>1, <1>5 DEF HandSet
<1>7. TypeOK'
  BY <1>1, <1>4 DEF IInv, TypeOK
<1>8. Placed'
  <2>1. PlacedIn(free', own, frame')
    BY <1>0, <1>2, <1>4, <1>6, HandToPool DEF IInv, Placed
  <2> QED BY <1>1, <1>4, <2>1 DEF Placed, PlacedIn
<1>9. Partner(p, p) /\ \A q \in Proc \ {p} : Kept(q)
  BY <1>1, <1>5 DEF Partner, Kept
<1>10. Working'
  <2>1. WorkingOf(p)'
    BY <1>1, <1>2, <1>6 DEF WorkingOf, Forking, Mapped
  <2> QED BY <1>6, <1>9, <2>1, WorkingKept DEF IInv, Forking
<1>11. TlbCoherent'
  BY <1>1 DEF IInv, TlbCoherent
<1>12. Contents'
  <2>1. OwnWrites(p)
    BY <1>4 DEF OwnWrites
  <2>2. ContentsOf(p)'
    BY <1>6 DEF ContentsOf
  <2> QED BY <1>9, <2>1, <2>2, ContentsKept DEF IInv
<1> QED BY <1>7, <1>8, <1>10, <1>11, <1>12 DEF IInv

\* The TLB is emptied when another address space is made active.
LEMMA SwitchStep ==
  ASSUME IInv, (\E p \in Proc : Exit(p)) \/ (\E q \in Thread : Dispatch(q))
  PROVE  IInv'
<1>1. /\ current' \in Thread /\ tlb' = NoTlb
      /\ UNCHANGED <<free, content, own, child, todo, frame, fault, victim, limit, machine>>
      /\ \/ pc' = pc
         \/ \E p \in Proc : pc[p] = "user" /\ pc' = [pc EXCEPT ![p] = "dead"]
  BY DEF Exit, Dispatch, SwitchTo, Runs, Goto, pool, system, locals
<1>2. TypeOK'
  BY <1>1 DEF IInv, TypeOK, NoTlb, Gone
<1>3. Placed'
  BY <1>1 DEF IInv, Placed, PlacedIn
<1>4. TlbCoherent'
  BY <1>1 DEF TlbCoherent, NoTlb
<1>5. CASE pc' = pc
  BY <1>1, <1>2, <1>3, <1>4, <1>5 DEF IInv, Working, WorkingOf, Contents, ContentsOf, Mapped
<1>6. ASSUME NEW p \in Proc, pc[p] = "user", pc' = [pc EXCEPT ![p] = "dead"]
      PROVE  Working' /\ Contents'
  <2>1. DOMAIN pc = Proc
    BY DEF IInv, TypeOK
  <2>2. pc'[p] = "dead"
    BY <1>6, <2>1
  <2>3. Partner(p, p) /\ \A q \in Proc \ {p} : Kept(q)
    BY <1>1, <1>6, <2>1 DEF Partner, Kept
  <2>4. frame'[p] = NoFrame
    BY <1>1, <1>6 DEF IInv, Working, WorkingOf
  <2>5. WorkingOf(p)'
    BY <2>2, <2>4 DEF WorkingOf, Forking
  <2>6. ContentsOf(p)'
    BY <2>2 DEF ContentsOf
  <2>7. OwnWrites(p)
    BY <1>1 DEF OwnWrites
  <2>8. Working'
    BY <2>2, <2>3, <2>5, WorkingKept DEF IInv, Forking
  <2>9. Contents'
    BY <2>3, <2>6, <2>7, ContentsKept DEF IInv
  <2> QED BY <2>8, <2>9
<1> QED BY <1>1, <1>2, <1>3, <1>4, <1>5, <1>6 DEF IInv

\* The destructor starts, in the middle of what the running thread does.
LEMMA DestroyStep ==
  ASSUME IInv, NEW t \in Thread, NEW p \in Proc, Destroy(t, p)
  PROVE  IInv'
<1>1. /\ pc[p] = "dead" /\ pc' = [pc EXCEPT ![p] = "dying"]
      /\ victim' = [victim EXCEPT ![t] = p]
      /\ UNCHANGED <<current, tlb, free, content, own, child, todo, frame, fault, limit, machine>>
  BY DEF Destroy, Goto, pool, system
<1>2. DOMAIN pc = Proc
  BY DEF IInv, TypeOK
<1>3. pc'[p] = "dying" /\ Partner(p, p) /\ \A q \in Proc \ {p} : Kept(q)
  BY <1>1, <1>2 DEF Partner, Kept
<1>4. TypeOK'
  BY <1>1 DEF IInv, TypeOK, Gone, Thread
<1>5. Placed' /\ TlbCoherent'
  BY <1>1 DEF IInv, Placed, PlacedIn, TlbCoherent
<1>6. Working'
  <2>1. WorkingOf(p)'
    BY <1>1, <1>3 DEF IInv, Working, WorkingOf, Forking
  <2> QED BY <1>3, <2>1, WorkingKept DEF IInv, Forking
<1>7. Contents'
  <2>1. ContentsOf(p)' /\ OwnWrites(p)
    BY <1>1, <1>3 DEF ContentsOf, OwnWrites
  <2> QED BY <1>3, <2>1, ContentsKept DEF IInv
<1> QED BY <1>4, <1>5, <1>6, <1>7 DEF IInv

\* The destructor frees what it finds in a slot; a process whose last frame
\* it has freed has no frame at all.  The process that runs is another one.
LEMMA GiveBackStep ==
  ASSUME IInv, Deletion, NEW t \in Thread, GiveBack(t)
  PROVE  IInv'
<1>. PICK p \in Proc : p = victim[t]
  BY DEF GiveBack, Deletion
<1>0. /\ 1..limit \subseteq Frame /\ pc[p] = "dying"
      /\ current # p /\ victim \in [Thread -> Thread] /\ p # Idle
  BY FrameNumbers, ProcAssumption DEF IInv, TypeOK, Deletion, GiveBack, Gone
<1>1. PICK s \in Left(p) :
        /\ FreeFrame(own[p][s])
        /\ own' = [own EXCEPT ![p][s] = NoFrame]
        /\ \/ /\ Left(p) = {s} /\ pc' = [pc EXCEPT ![p] = "absent"]
              /\ victim' = [victim EXCEPT ![t] = Idle]
           \/ Left(p) # {s} /\ pc' = pc /\ victim' = victim
  BY DEF GiveBack, Goto
<1>2. UNCHANGED <<current, tlb, child, todo, frame, fault>>
  BY DEF GiveBack
<1>3. s \in Slot /\ own[p][s] # NoFrame /\ own[p][s] \in 1..limit /\ frame[p] = NoFrame
  BY <1>0, <1>1 DEF Left, IInv, Placed, PlacedIn, Working, WorkingOf
<1>4. /\ PoolGets(free', free, own[p][s])
      /\ \A g \in Frame : content'[g] = IF g = own[p][s] THEN "link" ELSE content[g]
      /\ free' \in [Frame -> Nat] /\ limit' = limit /\ machine' = machine
      /\ content' \in [Frame -> Proc \cup {"blank", "link"}]
  BY <1>1, <1>3, FreeFacts DEF IInv
<1>5. DOMAIN pc = Proc /\ own \in Spaces
  BY DEF IInv, TypeOK, Spaces
<1>6. /\ pc'[p] = IF Left(p) = {s} THEN "absent" ELSE "dying"
      /\ SlotSet(own', own, p, s, NoFrame) /\ own' \in Spaces
      /\ \A q \in Proc \ {p} : own'[q] = own[q] /\ pc'[q] = pc[q]
  BY <1>0, <1>1, <1>3, <1>5 DEF SlotSet, Spaces
<1>7. TypeOK'
  <2>1. victim' \in [Thread -> Thread]
    BY <1>0, <1>1 DEF Thread
  <2>2. pc' = [pc EXCEPT ![p] = "absent"] \/ pc' = pc
    BY <1>1
  <2>3. pc' \in [Proc -> Gone \cup {"user", "map", "forkPd", "forkLow", "fork", "forkMap",
                                   "exec", "execFree"}]
    BY <2>2 DEF IInv, TypeOK, Gone
  <2> QED BY <1>2, <1>4, <1>6, <2>1, <2>3 DEF IInv, TypeOK, Spaces
<1>8. Placed'
  <2>1. PlacedIn(free', own', frame)
    BY <1>0, <1>3, <1>4, <1>6, SlotToPool DEF IInv, Placed
  <2> QED BY <1>2, <1>4, <2>1 DEF Placed, PlacedIn
<1>9. Partner(p, p) /\ \A q \in Proc \ {p} : Kept(q)
  BY <1>0, <1>2, <1>6 DEF Partner, Kept
<1>10. Working'
  <2>1. pc'[p] = "absent" => own'[p] = Empty
    <3>1. SUFFICES ASSUME Left(p) = {s} PROVE own'[p] = Empty
      BY <1>6
    <3>2. \A r \in Slot : own'[p][r] = NoFrame
      BY <1>0, <1>3, <1>6, <3>1 DEF SlotSet, Left
    <3>3. own'[p] = [r \in Slot |-> own'[p][r]]
      BY <1>0, <1>6 DEF Spaces
    <3> QED BY <3>2, <3>3 DEF Empty
  <2>2. pc'[p] \in {"absent", "dying"} /\ frame'[p] = NoFrame
    BY <1>2, <1>3, <1>6
  <2>3. WorkingOf(p)'
    BY <2>1, <2>2 DEF WorkingOf, Forking
  <2> QED BY <1>0, <1>9, <2>2, <2>3, WorkingKept DEF Forking, IInv
<1>11. TlbCoherent'
  BY <1>0, <1>2, <1>6, TlbKept DEF IInv
<1>12. Contents'
  <2>1. OwnWrites(p)
    BY <1>3, <1>4 DEF OwnWrites
  <2>2. ContentsOf(p)'
    BY <1>6 DEF ContentsOf
  <2> QED BY <1>0, <1>9, <2>1, <2>2, ContentsKept DEF IInv
<1> QED BY <1>7, <1>8, <1>10, <1>11, <1>12 DEF IInv

\* A whole address space goes back to the pool.
LEMMA SpaceToPool ==
  ASSUME NEW fr \in [Frame -> Nat], NEW ow, NEW fm, PlacedIn(fr, ow, fm),
         1..limit \subseteq Frame, NEW p \in Proc,
         NEW gr, \A g \in Frame : gr[g] = IF \E s \in Slot : ow[p][s] # NoFrame /\ g = ow[p][s]
                                          THEN fr[g] + 1 ELSE fr[g],
         NEW gw, \A q \in Proc, s \in Slot : gw[q][s] = IF q = p THEN NoFrame ELSE ow[q][s]
  PROVE  PlacedIn(gr, gw, fm)
BY DEF PlacedIn, NoFrame

\* checkReaper in dispatch does the same to all slots at once.
LEMMA ReapStep ==
  ASSUME IInv, Deletion, NEW p \in Proc, Reap(p)
  PROVE  IInv'
<1> DEFINE Has(g) == \E s \in Slot : own[p][s] # NoFrame /\ g = own[p][s]
<1>0. 1..limit \subseteq Frame
  BY FrameNumbers DEF IInv
<1>1. /\ pc[p] = "dead" /\ pc' = [pc EXCEPT ![p] = "absent"] /\ own' = [own EXCEPT ![p] = Empty]
      /\ UNCHANGED <<current, tlb, child, todo, frame, fault, victim, limit, machine>>
  BY DEF Reap, Goto, locals, system
<1>2. \A g : g \in {own[p][s] : s \in Left(p)} <=> Has(g)
  BY DEF Left
<1>3. /\ free' = [g \in Frame |-> IF Has(g) THEN free[g] + 1 ELSE free[g]]
      /\ content' = [g \in Frame |-> IF Has(g) THEN "link" ELSE content[g]]
  BY <1>2 DEF Reap
<1> HIDE DEF Has
<1>4. /\ DOMAIN pc = Proc /\ own \in Spaces /\ current # p
      /\ free \in [Frame -> Nat] /\ content \in [Frame -> Proc \cup {"blank", "link"}]
  BY <1>1, ProcAssumption DEF IInv, TypeOK, Spaces, Deletion, Gone
<1>5. /\ pc'[p] = "absent" /\ own'[p] = Empty /\ own' \in Spaces
      /\ \A q \in Proc \ {p} : own'[q] = own[q] /\ pc'[q] = pc[q]
  BY <1>1, <1>4 DEF Empty, Spaces
<1>6. TypeOK'
  BY <1>1, <1>3, <1>4, <1>5 DEF IInv, TypeOK, Spaces, Gone
<1>7. Placed'
  <2>1. PlacedIn(free, own, frame)
    BY DEF IInv, Placed
  <2>2. \A g \in Frame : free'[g] = IF \E s \in Slot : own[p][s] # NoFrame /\ g = own[p][s]
                                    THEN free[g] + 1 ELSE free[g]
    BY <1>3 DEF Has
  <2>3. \A q \in Proc, s \in Slot : own'[q][s] = IF q = p THEN NoFrame ELSE own[q][s]
    BY <1>5 DEF Empty
  <2>4. PlacedIn(free', own', frame)
    BY <1>0, <1>4, <2>1, <2>2, <2>3, SpaceToPool
  <2> QED BY <1>1, <2>4 DEF Placed, PlacedIn
<1>8. Partner(p, p) /\ \A q \in Proc \ {p} : Kept(q)
  BY <1>1, <1>5 DEF Partner, Kept
<1>9. Working'
  <2>1. frame'[p] = NoFrame
    BY <1>1 DEF IInv, Working, WorkingOf
  <2>2. WorkingOf(p)'
    BY <1>5, <2>1 DEF WorkingOf, Forking
  <2> QED BY <1>5, <1>8, <2>2, WorkingKept DEF Forking, IInv
<1>10. TlbCoherent'
  BY <1>1, <1>4, <1>5, TlbKept DEF IInv
<1>11. Contents'
  <2>1. OwnWrites(p)
    BY <1>3 DEF OwnWrites, Has
  <2>2. ContentsOf(p)'
    BY <1>5 DEF ContentsOf
  <2> QED BY <1>8, <2>1, <2>2, ContentsKept DEF IInv
<1> QED BY <1>6, <1>7, <1>9, <1>10, <1>11 DEF IInv

\* Nobody but the thread that deletes a process works on its address space.
LEMMA DeletionStep ==
  ASSUME IInv, Deletion, [Next]_vars
  PROVE  Deletion'
<1>0. /\ DOMAIN pc = Proc /\ victim \in [Thread -> Thread] /\ Idle \notin Proc
      /\ current \in Thread /\ (current # Idle => current \in Proc)
  BY ProcAssumption DEF IInv, TypeOK, Thread
<1>1. ASSUME UNCHANGED <<current, victim>>,
             \A q \in Proc : \/ pc'[q] = pc[q]
                             \/ pc[q] # "dying" /\ (q = current => pc'[q] \notin Gone)
      PROVE  Deletion'
  <2>1. current # Idle => pc'[current] \notin Gone
    BY <1>0, <1>1 DEF Deletion
  <2>2. \A t \in Thread : victim[t] # Idle => victim[t] \in Proc /\ pc'[victim[t]] = "dying"
    BY <1>1 DEF Deletion
  <2> QED BY <1>1, <2>1, <2>2 DEF Deletion
<1>2. CASE UNCHANGED vars
  BY <1>2 DEF vars, locals, Deletion
<1>3. CASE NoMoreFrames
  BY <1>3 DEF NoMoreFrames, locals, Deletion
<1>4. ASSUME NEW p \in Proc, NEW v \in Page, Access(p, v) \/ Fault(p, v), ~NoMoreFrames
      PROVE  Deletion'
  <2>1. /\ UNCHANGED <<current, victim>> /\ pc[p] = "user"
        /\ pc' = pc \/ pc' = [pc EXCEPT ![p] = "map"]
    BY <1>4 DEF Access, Fault, Runs, Goto, locals
  <2> QED BY <1>0, <1>1, <2>1 DEF Gone
<1>5. ASSUME NEW p \in Proc, Map(p) \/ ForkPd(p) \/ ForkLow(p) \/ ForkCopy(p) \/ ForkMap(p),
             ~NoMoreFrames
      PROVE  Deletion'
  <2>1. /\ UNCHANGED <<current, victim>> /\ pc[p] \notin Gone
        /\ \E l \in {"user", "forkLow", "fork", "forkMap"} : pc' = [pc EXCEPT ![p] = l]
    BY <1>5 DEF Map, ForkPd, ForkLow, ForkTable, ForkCopy, ForkMap, Runs, Goto, Gone
  <2> QED BY <1>0, <1>1, <2>1 DEF Gone
<1>6. ASSUME NEW p \in Proc, NEW c \in Proc, Fork(p, c)
      PROVE  Deletion'
  <2>1. /\ UNCHANGED <<current, victim>> /\ current = p /\ pc[p] = "user" /\ pc[c] = "absent"
        /\ pc' = [pc EXCEPT ![p] = "forkPd", ![c] = "building"]
    BY <1>6 DEF Fork, Runs
  <2> QED BY <1>0, <1>1, <2>1 DEF Gone
<1>7. ASSUME NEW p \in Proc, ForkEnd(p)
      PROVE  Deletion'
  <2>1. /\ UNCHANGED <<current, victim>> /\ pc[p] = "fork"
        /\ pc' = [pc EXCEPT ![p] = "user", ![child[p]] = "user"]
    BY <1>7 DEF ForkEnd, Runs
  <2>2. child[p] \in Proc /\ pc[child[p]] = "building"
    BY <2>1 DEF IInv, Working, WorkingOf, Forking
  <2> QED BY <1>0, <1>1, <2>1, <2>2 DEF Gone
<1>8. ASSUME NEW p \in Proc, Exec(p) \/ ExecUnmap(p) \/ ExecFree(p) \/ ExecEnd(p)
      PROVE  Deletion'
  <2>1. /\ UNCHANGED <<current, victim>> /\ pc[p] \notin Gone
        /\ \E l \in {"user", "exec", "execFree"} : pc' = [pc EXCEPT ![p] = l]
    BY <1>8 DEF Exec, ExecUnmap, ExecFree, ExecEnd, Runs, Goto, locals, Gone
  <2> QED BY <1>0, <1>1, <2>1 DEF Gone
<1>9. ASSUME NEW p \in Proc, Exit(p)
      PROVE  Deletion'
  <2>1. /\ pc[p] = "user" /\ pc' = [pc EXCEPT ![p] = "dead"] /\ victim' = victim
        /\ current' \in Thread \ {p} /\ (current' # Idle => pc[current'] \notin Gone)
    BY <1>9 DEF Exit, SwitchTo, Runs, Goto, locals
  <2>2. \A q \in Proc \ {p} : pc'[q] = pc[q]
    BY <1>0, <2>1
  <2> QED BY <1>0, <2>1, <2>2 DEF Deletion, Thread
<1>10. ASSUME NEW t \in Thread, Dispatch(t)
       PROVE  Deletion'
  BY <1>10 DEF Dispatch, SwitchTo, locals, Deletion
<1>11. ASSUME NEW t \in Thread, NEW p \in Proc, Destroy(t, p)
       PROVE  Deletion'
  <2>1. /\ current' = current /\ pc[p] = "dead" /\ pc' = [pc EXCEPT ![p] = "dying"]
        /\ victim' = [victim EXCEPT ![t] = p]
    BY <1>11 DEF Destroy, Goto
  <2> QED BY <1>0, <2>1 DEF Deletion, Gone
<1>12. ASSUME NEW t \in Thread, GiveBack(t)
       PROVE  Deletion'
  <2>1. /\ current' = current /\ victim[t] # Idle
        /\ \/ /\ pc' = [pc EXCEPT ![victim[t]] = "absent"]
              /\ victim' = [victim EXCEPT ![t] = Idle]
           \/ UNCHANGED <<pc, victim>>
    BY <1>12 DEF GiveBack, Goto
  <2>2. CASE UNCHANGED <<pc, victim>>
    BY <2>1, <2>2 DEF Deletion
  <2>3. CASE /\ pc' = [pc EXCEPT ![victim[t]] = "absent"]
             /\ victim' = [victim EXCEPT ![t] = Idle]
    <3>1. /\ \A q \in Proc \ {victim[t]} : pc'[q] = pc[q]
          /\ victim'[t] = Idle /\ \A u \in Thread \ {t} : victim'[u] = victim[u]
      BY <1>0, <2>3
    <3>2. \A u \in Thread \ {t} : victim[u] # victim[t]
      BY <2>1 DEF Deletion
    <3>3. current # Idle => current # victim[t]
      BY <2>1 DEF Deletion, Gone
    <3> QED BY <1>0, <2>1, <3>1, <3>2, <3>3 DEF Deletion
  <2> QED BY <2>1, <2>2, <2>3
<1>13. ASSUME NEW p \in Proc, Reap(p)
       PROVE  Deletion'
  <2>1. UNCHANGED <<current, victim>> /\ pc[p] = "dead" /\ pc' = [pc EXCEPT ![p] = "absent"]
    BY <1>13 DEF Reap, Goto, locals
  <2> QED BY <1>0, <2>1 DEF Deletion, Gone
<1> QED BY <1>2, <1>3, <1>4, <1>5, <1>6, <1>7, <1>8, <1>9, <1>10, <1>11, <1>12, <1>13 DEF Next

-----------------------------------------------------------------------------
(* The invariant holds.                                                    *)

\* The first process has a directory and a kernel table; all other frames are
\* in the pool.
LEMMA InitIInv ==
  ASSUME Init
  PROVE  IInv
<1>1. limit \in Nat /\ limit > 1
  BY LimitsAssumption DEF Init
<1>2. 1..limit \subseteq Frame /\ Frame \subseteq Nat
  <2>1. Max(Limits) \in Nat /\ \A l \in Limits : l <= Max(Limits)
    BY LimitsAssumption, MaxNat
  <2>2. limit \in Limits
    BY DEF Init
  <2> QED BY <1>1, <2>1, <2>2 DEF Frame
<1>3. /\ own \in Spaces
      /\ \A p \in Proc, s \in Slot :
           own[p][s] = IF p = InitProc /\ s = PD THEN 1 ELSE IF p = InitProc /\ s = Low THEN 2 ELSE NoFrame
  BY <1>1, SlotNames DEF Init, Spaces, Empty, NoFrame
<1>4. /\ frame = [p \in Proc |-> NoFrame]
      /\ \A f \in Frame : free[f] = IF f \in 3..limit THEN 1 ELSE 0
      /\ pc = [p \in Proc |-> IF p = InitProc THEN "user" ELSE "absent"]
      /\ \A p \in Proc \ {InitProc} : own[p] = Empty
  BY DEF Init
<1>5. TypeOK
  <2>1. own \in [Proc -> [Slot -> 1..limit \cup {NoFrame}]]
    BY <1>3 DEF Spaces
  <2>2. 0 \in Page
    BY SizeAssumption DEF Page
  <2>3. /\ limit \in Limits /\ current \in Thread
        /\ tlb \in [Page -> Frame \cup {NoFrame}]
        /\ content \in [Frame -> Proc \cup {"blank", "link"}]
    BY ProcAssumption DEF Init, NoTlb, Thread
  <2>4. free \in [Frame -> Nat]
    BY DEF Init
  <2>5. /\ pc \in [Proc -> Gone \cup {"user", "map", "forkPd", "forkLow", "fork",
                                      "forkMap", "exec", "execFree"}]
        /\ child \in [Proc -> Proc \cup {Idle}] /\ machine \in {"up", "halted"}
    BY <1>4 DEF Init, Gone
  <2>6. /\ todo \in [Proc -> SUBSET Page] /\ frame \in [Proc -> Frame \cup {NoFrame}]
        /\ fault \in [Proc -> Page] /\ victim \in [Thread -> Thread]
    BY <2>2 DEF Init, Thread
  <2> QED BY <2>1, <2>3, <2>4, <2>5, <2>6 DEF TypeOK
<1>6. Placed
  <2>1. InitProc \in Proc /\ PD \in Slot /\ Low \in Slot /\ PD # Low
    BY ProcAssumption, SlotNames
  <2>2. own[InitProc][PD] = 1 /\ own[InitProc][Low] = 2
    BY <1>3, <2>1
  <2>3. \A f \in 1..limit : free[f] = 0 => f = 1 \/ f = 2
    BY <1>1, <1>2, <1>4
  <2>4. \A f \in 1..limit : free[f] = 0 => \E p \in Proc, s \in Slot : own[p][s] = f
    BY <2>1, <2>2, <2>3
  <2>5. /\ \A f \in 1..limit : free[f] \in {0, 1}
        /\ \A f \in Frame \ 1..limit : free[f] = 0
    BY <1>1, <1>2, <1>4
  <2>6. /\ \A p, q \in Proc, s, t \in Slot :
              own[p][s] # NoFrame /\ own[p][s] = own[q][t] => p = q /\ s = t
        /\ \A p \in Proc, s \in Slot : own[p][s] # NoFrame => own[p][s] \in {1, 2}
    BY <1>3 DEF NoFrame
  <2>7. free[1] = 0 /\ free[2] = 0 /\ {1, 2} \subseteq 1..limit
    BY <1>1, <1>2, <1>4
  <2> QED BY <1>4, <2>4, <2>5, <2>6, <2>7 DEF Placed, PlacedIn
<1>7. Working
  BY <1>4 DEF Working, WorkingOf, Forking
<1>8. TlbCoherent
  BY DEF Init, TlbCoherent, NoTlb
<1>9. Contents
  BY <1>4 DEF Contents, ContentsOf
<1> QED BY <1>5, <1>6, <1>7, <1>8, <1>9 DEF IInv

\* Every step keeps the invariant.
LEMMA StepIInv ==
  ASSUME IInv, Deletion, [Next]_vars
  PROVE  IInv'
<1>1. CASE UNCHANGED vars
  BY <1>1 DEF vars, pool, locals, system, IInv, TypeOK, Placed, PlacedIn, Working, WorkingOf,
     Mapped, TlbCoherent, Contents, ContentsOf
<1>2. ASSUME NEW p \in Proc, NEW v \in Page, Access(p, v) \/ Fault(p, v)
      PROVE  IInv'
  BY <1>2, AccessStep, FaultStep
<1>3. ASSUME NEW p \in Proc, Map(p) \/ (\E c \in Proc : Fork(p, c))
      PROVE  IInv'
  BY <1>3, MapStep, ForkStep
<1>4. ASSUME NEW p \in Proc, ForkPd(p) \/ ForkLow(p)
      PROVE  IInv'
  BY <1>4, ForkTableStep, Zenon DEF ForkPd, ForkLow
<1>5. ASSUME NEW p \in Proc, ForkCopy(p) \/ ForkMap(p) \/ ForkEnd(p)
      PROVE  IInv'
  BY <1>5, ForkCopyStep, ForkMapStep, ForkEndStep
<1>6. ASSUME NEW p \in Proc, Exec(p) \/ ExecUnmap(p) \/ ExecFree(p) \/ ExecEnd(p)
      PROVE  IInv'
  BY <1>6, ExecStep, ExecUnmapStep, ExecFreeStep
<1>7. ASSUME (\E p \in Proc : Exit(p)) \/ (\E q \in Thread : Dispatch(q))
      PROVE  IInv'
  BY <1>7, SwitchStep
<1>8. ASSUME NEW p \in Proc, Reap(p)
      PROVE  IInv'
  BY <1>8, ReapStep
<1>9. ASSUME NEW t \in Thread, (\E p \in Proc : Destroy(t, p)) \/ GiveBack(t)
      PROVE  IInv'
  BY <1>9, DestroyStep, GiveBackStep
<1> QED BY <1>1, <1>2, <1>3, <1>4, <1>5, <1>6, <1>7, <1>8, <1>9 DEF Next

\* The invariant of the frames, of the address spaces that are being worked on
\* and of those that are being deleted.
THEOREM Inductive == Spec => [](IInv /\ Deletion)
<1>1. Init => Deletion
  BY ProcAssumption DEF Init, Deletion, Gone
<1> QED BY <1>1, InitIInv, StepIInv, DeletionStep, PTL DEF Spec

\* A frame with one place is counted once.
LEMMA PlacedOnce ==
  ASSUME IInv, NEW f \in 1..limit
  PROVE  free[f] + Cardinality(Owned(f)) + Cardinality(Held(f)) = 1
<1>1. f # NoFrame /\ free[f] \in {0, 1}
  BY DEF IInv, Placed, PlacedIn, NoFrame
<1>2. Cardinality({}) = 0
  BY FS_EmptySet
<1>3. ASSUME NEW x PROVE Cardinality({x}) = 1
  BY FS_Singleton
<1>4. CASE free[f] = 1
  <2>1. Owned(f) = {} /\ Held(f) = {}
    BY <1>1, <1>4 DEF IInv, Placed, PlacedIn, Owned, Held
  <2> QED BY <1>2, <1>4, <2>1
<1>5. ASSUME NEW p \in Proc, NEW s \in Slot, own[p][s] = f, free[f] = 0
      PROVE  free[f] + Cardinality(Owned(f)) + Cardinality(Held(f)) = 1
  <2>1. \A q \in Proc, t \in Slot : own[q][t] = f => q = p /\ t = s
    BY <1>1, <1>5 DEF IInv, Placed, PlacedIn
  <2>2. Owned(f) = {<<p, s>>}
    <3>1. \A x \in Owned(f) : x = <<p, s>>
      BY <2>1 DEF Owned
    <3>2. <<p, s>> \in Owned(f)
      BY <1>5 DEF Owned
    <3> QED BY <3>1, <3>2
  <2>3. Held(f) = {}
    BY <1>1, <1>5 DEF IInv, Placed, PlacedIn, Held
  <2>4. Cardinality(Owned(f)) = 1
    BY <1>3, <2>2
  <2> QED BY <1>2, <1>5, <2>3, <2>4
<1>6. ASSUME NEW p \in Proc, frame[p] = f, free[f] = 0
      PROVE  free[f] + Cardinality(Owned(f)) + Cardinality(Held(f)) = 1
  <2>1. Held(f) = {p}
    BY <1>1, <1>6 DEF IInv, Placed, PlacedIn, Held
  <2>2. Owned(f) = {}
    BY <1>1, <1>6 DEF IInv, Placed, PlacedIn, Owned
  <2>3. Cardinality(Held(f)) = 1
    BY <1>3, <2>1
  <2> QED BY <1>2, <1>6, <2>2, <2>3
<1> QED BY <1>1, <1>4, <1>5, <1>6 DEF IInv, Placed, PlacedIn

\* No frame is lost and none is in use twice, whatever page faults, forks,
\* execs and exits run into each other; and a process whose address space has
\* been deleted holds no frame.
THEOREM FramesAreConserved == Spec => []FramesConserved
<1>1. IInv => FramesConserved
  <2>1. SUFFICES ASSUME IInv PROVE FramesConserved
    OBVIOUS
  <2>2. \A p \in Proc : pc[p] = "absent" => own[p] = Empty /\ frame[p] = NoFrame
    BY <2>1 DEF IInv, Working, WorkingOf
  <2> QED BY <2>1, <2>2, PlacedOnce DEF IInv, FramesConserved
<1> QED BY <1>1, Inductive, PTL

\* The processor never uses a frame for a page that the running process does
\* not have it for.
THEOREM TlbIsCoherent == Spec => []TlbCoherent
<1>1. IInv => TlbCoherent
  BY DEF IInv
<1> QED BY <1>1, Inductive, PTL
-----------------------------------------------------------------------------
(* Address spaces are private memory.                                      *)

\* Of what process q sees a step changes nothing, if it writes to the pool, to
\* frames on their way and to other address spaces only.
LEMMA SeesKept ==
  ASSUME TypeOK, Placed, NEW q \in Proc, own'[q] = own[q], pc'[q] \in Gone <=> pc[q] \in Gone,
         \A g \in Frame : \/ content'[g] = content[g] \/ free[g] # 0
                          \/ \E r \in Proc : g = frame[r]
                          \/ \E r \in Proc \ {q}, s \in Slot : g = own[r][s]
  PROVE  \A v \in Page : Sees(q, v)' = Sees(q, v)
<1> TAKE v \in Page
<1>1. PG(v) \in Slot /\ 1..limit \subseteq Frame /\ NoFrame \notin Frame
  BY SlotNames, FrameNumbers
<1>2. ASSUME own[q][PG(v)] # NoFrame
      PROVE  content'[own[q][PG(v)]] = content[own[q][PG(v)]]
  <2>1. own[q][PG(v)] \in Frame /\ free[own[q][PG(v)]] = 0
    BY <1>1, <1>2 DEF Placed, PlacedIn
  <2>2. \A r \in Proc : own[q][PG(v)] # frame[r]
    BY <1>1, <1>2 DEF Placed, PlacedIn
  <2>3. \A r \in Proc \ {q}, s \in Slot : own[q][PG(v)] # own[r][s]
    BY <1>1, <1>2 DEF Placed, PlacedIn
  <2> QED BY <2>1, <2>2, <2>3
<1> QED BY <1>2 DEF Sees

\* A process sees something, unless there is none.
LEMMA SeesSomething ==
  ASSUME TypeOK, Placed, NEW p \in Proc
  PROVE  /\ pc[p] \notin Gone => Mem[p] # Memory!Absent
         /\ pc[p] \in Gone => Mem[p] = Memory!Absent
<1>1. 0 \in Page
  BY SizeAssumption DEF Page
<1>2. PG(0) \in Slot /\ 1..limit \subseteq Frame
  BY <1>1, SlotNames, FrameNumbers
<1>3. ASSUME pc[p] \notin Gone PROVE Sees(p, 0) # "nothing"
  <2>1. own[p][PG(0)] # NoFrame => own[p][PG(0)] \in Frame
    BY <1>2 DEF Placed, PlacedIn
  <2>2. \A g \in Frame : content[g] # "nothing"
    BY NameAssumption, SMTT(40) DEF TypeOK
  <2> QED BY <1>3, <2>1, <2>2 DEF Sees
<1>4. Mem[p] = [v \in Page |-> Sees(p, v)]
  BY DEF Mem
<1>5. ASSUME pc[p] \notin Gone PROVE Mem[p] # Memory!Absent
  <2>1. Mem[p][0] = Sees(p, 0) /\ Memory!Absent[0] = "nothing"
    BY <1>1, <1>4 DEF Memory!Absent
  <2> QED BY <1>3, <1>5, <2>1
<1>6. ASSUME pc[p] \in Gone PROVE Mem[p] = Memory!Absent
  BY <1>4, <1>6 DEF Sees, Memory!Absent
<1> QED BY <1>5, <1>6

\* One page of one process is seen to change: the memory changes there.
LEMMA OnePage ==
  ASSUME NEW p \in Proc, NEW v \in Page, NEW x,
         Sees(p, v)' = x,
         \A q \in Proc, w \in Page : q # p \/ w # v => Sees(q, w)' = Sees(q, w)
  PROVE  Mem' = [Mem EXCEPT ![p][v] = x]
BY DEF Mem

\* Nothing is seen to change.
LEMMA Unseen ==
  ASSUME \A q \in Proc : \A w \in Page : Sees(q, w)' = Sees(q, w)
  PROVE  Mem' = Mem
BY DEF Mem

\* An allocated frame is seen by nobody.
LEMMA AllocUnseen ==
  ASSUME IInv, CanAlloc, NEW data, Alloc(data), NEW p \in Proc, NEW c \in Proc,
         \A q \in Proc \ {c} : own'[q] = own[q], pc[c] \in Gone \/ own'[c] = own[c],
         \A q \in Proc : pc'[q] \in Gone <=> pc[q] \in Gone
  PROVE  Mem' = Mem
<1>1. \A g \in Frame : content'[g] = content[g] \/ free[g] # 0
  <2>1. /\ free[Taken] = 1
        /\ \A g \in Frame : content'[g] = IF g = Taken THEN data ELSE content[g]
    BY AllocFacts DEF IInv
  <2> HIDE DEF Taken
  <2> QED BY <2>1
<1>2. ASSUME NEW q \in Proc, own'[q] = own[q]
      PROVE  \A w \in Page : Sees(q, w)' = Sees(q, w)
  BY <1>1, <1>2, SeesKept DEF IInv
<1>3. pc[c] \in Gone => \A w \in Page : Sees(c, w)' = Sees(c, w)
  BY DEF Sees
<1> QED BY <1>2, <1>3, Unseen

\* The first process starts with blank memory.
LEMMA InitRefines ==
  ASSUME Init
  PROVE  Memory!Init
<1>1. \A p \in Proc : Mem[p] = [v \in Page |-> IF p = InitProc THEN "blank" ELSE "nothing"]
  <2>1. \A v \in Page : own[InitProc][PG(v)] = NoFrame
    BY SlotNames, ProcAssumption DEF Init, Empty
  <2> QED BY <2>1 DEF Mem, Sees, Init, Gone
<1>2. Mem \in [Proc -> {Memory!Absent, [v \in Page |-> "blank"]}]
  <2>1. \A p \in Proc : Mem[p] \in {Memory!Absent, [v \in Page |-> "blank"]}
    BY <1>1 DEF Memory!Absent
  <2>2. Mem = [p \in Proc |-> Mem[p]]
    BY DEF Mem
  <2> QED BY <2>1, <2>2
<1> QED BY <1>2 DEF Memory!Init

\* A process stores into its own page.
LEMMA AccessRefines ==
  ASSUME IInv, NEW p \in Proc, NEW v \in Page, Access(p, v)
  PROVE  Memory!Store(p, v)
<1> DEFINE f == own[p][PG(v)]
<1>0. 1..limit \subseteq Frame /\ PG(v) \in Slot
  BY FrameNumbers, SlotNames DEF IInv
<1>1. /\ pc[p] = "user" /\ f # NoFrame
      /\ content' = [content EXCEPT ![f] = p]
      /\ UNCHANGED <<own, pc, frame>>
  BY DEF IInv, TlbCoherent, Access, Runs, locals
<1>2. f \in Frame /\ DOMAIN content = Frame
  BY <1>0, <1>1 DEF IInv, Placed, PlacedIn, TypeOK
<1>3. Sees(p, v)' = p
  BY <1>1, <1>2 DEF Sees, Gone
<1>4. ASSUME NEW q \in Proc, NEW w \in Page, q # p \/ w # v
      PROVE  Sees(q, w)' = Sees(q, w)
  <2>1. own[q][PG(w)] # f
    BY <1>0, <1>1, <1>4, SlotNames DEF IInv, Placed, PlacedIn
  <2>2. content'[own[q][PG(w)]] = content[own[q][PG(w)]] \/ own[q][PG(w)] \notin Frame
    BY <1>1, <1>2, <2>1
  <2>3. PG(w) \in Slot
    BY SlotNames
  <2>4. own[q][PG(w)] # NoFrame => own[q][PG(w)] \in Frame
    BY <1>0, <2>3 DEF IInv, Placed, PlacedIn
  <2> QED BY <1>1, <2>2, <2>4 DEF Sees
<1>5. Mem' = [Mem EXCEPT ![p][v] = p]
  BY <1>3, <1>4, OnePage
<1>6. Mem[p] # Memory!Absent
  BY <1>1, SeesSomething DEF IInv, Gone
<1> QED BY <1>5, <1>6 DEF Memory!Store

\* A page that is mapped on a fault is blank, as it was seen before.
LEMMA MapUnseen ==
  ASSUME IInv, NEW p \in Proc, Map(p)
  PROVE  Mem' = Mem
<1> PICK v : v = fault[p]
  OBVIOUS
<1>1. CASE NoMoreFrames
  BY <1>1 DEF NoMoreFrames, pool, Mem, Sees
<1>2. CASE ~NoMoreFrames
  <2>1. /\ pc[p] = "map" /\ Pmap(p, v, frame[p])
        /\ frame' = [frame EXCEPT ![p] = NoFrame]
        /\ pc' = [pc EXCEPT ![p] = "user"]
    BY <1>2 DEF Map, Runs, Goto
  <2>2. v \in Page /\ own[p][PG(v)] = NoFrame /\ frame[p] # NoFrame
    BY <2>1 DEF IInv, TypeOK, Working, WorkingOf
  <2>3. /\ \A x \in Proc \ {p} : own'[x] = own[x]
        /\ own'[p][PG(v)] = frame[p]
        /\ \A w \in Page \ {v} : own'[p][PG(w)] = own[p][PG(w)]
        /\ \A g \in Frame : free[g] = 0 => content'[g] = content[g]
    <3> PICK q \in Proc : q = p
      OBVIOUS
    <3>1. /\ frame[p] # NoFrame /\ own[q][PG(v)] = NoFrame
          /\ Pmap(q, v, frame[p]) /\ frame' = [frame EXCEPT ![p] = NoFrame]
      BY <2>1, <2>2
    <3>2. /\ \A x \in Proc \ {q} : own'[x] = own[x]
          /\ own'[q][PG(v)] = frame[p]
          /\ \A w \in Page \ {v} : own'[q][PG(w)] = own[q][PG(w)]
          /\ \A g \in Frame : free[g] = 0 => content'[g] = content[g]
      BY <2>2, <3>1, PmapFacts, ZenonT(40) DEF IInv
    <3> QED BY <3>2
  <2>4. \A q \in Proc : pc'[q] \in Gone <=> pc[q] \in Gone
    BY <2>1 DEF IInv, TypeOK, Gone
  <2>5. pc[p] \notin Gone /\ pc'[p] \notin Gone
    BY <2>1, <2>4 DEF Gone
  <2>6. ASSUME NEW q \in Proc \ {p}
        PROVE  \A w \in Page : Sees(q, w)' = Sees(q, w)
    BY <2>3, <2>4, SeesKept DEF IInv
  <2>7. frame[p] \in Frame /\ free[frame[p]] = 0 /\ content[frame[p]] = "blank"
    BY <2>1, <2>2, FrameNumbers DEF IInv, Placed, PlacedIn, Contents, ContentsOf
  <2>8. Sees(p, v)' = Sees(p, v)
    BY <2>2, <2>3, <2>5, <2>7 DEF Sees
  <2>9. ASSUME NEW w \in Page \ {v}
        PROVE  Sees(p, w)' = Sees(p, w)
    <3>1. own[p][PG(w)] # NoFrame => own[p][PG(w)] \in Frame /\ free[own[p][PG(w)]] = 0
      BY SlotNames, FrameNumbers DEF IInv, Placed, PlacedIn
    <3> QED BY <2>3, <2>5, <3>1 DEF Sees
  <2> QED BY <2>6, <2>8, <2>9, Unseen
<1> QED BY <1>1, <1>2

\* The child's memory is seen by nobody until the fork has ended.
LEMMA ForkUnseen ==
  ASSUME IInv, NEW p \in Proc, ForkPd(p) \/ ForkLow(p) \/ ForkCopy(p) \/ ForkMap(p)
  PROVE  Mem' = Mem
<1> PICK c : c = child[p]
  OBVIOUS
<1> PICK v : v = Min(todo[p])
  OBVIOUS
<1>1. pc[p] \in Forking
  BY DEF ForkPd, ForkLow, ForkTable, ForkCopy, ForkMap, Runs, Forking
<1>2. c \in Proc /\ c # p /\ pc[c] \in Gone
  BY <1>1 DEF IInv, Working, WorkingOf, Gone
<1>3. ASSUME NEW l \in Forking, pc' = [pc EXCEPT ![p] = l]
      PROVE  \A q \in Proc : pc'[q] \in Gone <=> pc[q] \in Gone
  BY <1>1, <1>3 DEF IInv, TypeOK, Gone, Forking
<1>4. CASE NoMoreFrames
  BY <1>4 DEF NoMoreFrames, pool, Mem, Sees
<1>5. CASE ~NoMoreFrames /\ ~ForkMap(p)
  <2>1. /\ CanAlloc /\ \E data : Alloc(data)
        /\ \E l \in Forking : pc' = [pc EXCEPT ![p] = l]
        /\ own' = own \/ \E s : own' = [own EXCEPT ![child[p]][s] = Taken]
    BY <1>5, Zenon DEF ForkPd, ForkLow, ForkTable, ForkCopy, Goto, Forking
  <2> HIDE DEF Taken
  <2>2. \A q \in Proc \ {c} : own'[q] = own[q]
    BY <2>1 DEF IInv, TypeOK
  <2> QED BY <1>2, <1>3, <2>1, <2>2, AllocUnseen
<1>6. CASE ~NoMoreFrames /\ ForkMap(p)
  <2>1. /\ pc[p] = "forkMap" /\ Pmap(c, v, frame[p])
        /\ frame' = [frame EXCEPT ![p] = NoFrame]
        /\ pc' = [pc EXCEPT ![p] = "fork"]
    BY <1>6 DEF ForkMap, Runs, Goto
  <2>2. /\ todo[p] \subseteq Page /\ todo[p] # {} /\ frame[p] # NoFrame
        /\ \A w \in todo[p] : own[c][PG(w)] = NoFrame
    BY <2>1 DEF IInv, TypeOK, Working, WorkingOf
  <2>3. v \in todo[p]
    BY <2>2, MinNat DEF Page
  <2>4. v \in Page /\ own[c][PG(v)] = NoFrame
    BY <2>2, <2>3
  <2>5. /\ \A x \in Proc \ {c} : own'[x] = own[x]
        /\ \A g \in Frame : free[g] = 0 => content'[g] = content[g]
    BY <1>2, <2>1, <2>2, <2>4, PmapFacts DEF IInv
  <2>6. \A q \in Proc : pc'[q] \in Gone <=> pc[q] \in Gone
    BY <1>3, <2>1 DEF Forking
  <2>7. ASSUME NEW q \in Proc \ {c}
        PROVE  \A w \in Page : Sees(q, w)' = Sees(q, w)
    BY <2>5, <2>6, SeesKept DEF IInv
  <2>8. \A w \in Page : Sees(c, w)' = Sees(c, w)
    BY <1>2, <2>6 DEF Sees
  <2> QED BY <2>7, <2>8, Unseen
<1> QED BY <1>4, <1>5, <1>6

\* When the fork ends the child sees what the parent sees, all at once.
LEMMA ForkEndRefines ==
  ASSUME IInv, NEW p \in Proc, ForkEnd(p)
  PROVE  \E c \in Proc : Memory!Fork(p, c)
<1> PICK c : c = child[p]
  OBVIOUS
<1>1. /\ pc[p] = "fork" /\ todo[p] = {}
      /\ pc' = [pc EXCEPT ![p] = "user", ![c] = "user"]
      /\ UNCHANGED <<own, content>>
  BY DEF ForkEnd, Runs, pool
<1>2. c \in Proc /\ c # p /\ pc[c] = "building"
  BY <1>1 DEF IInv, Working, WorkingOf, Forking
<1>3. \A v \in Page : /\ own[p][PG(v)] = NoFrame <=> own[c][PG(v)] = NoFrame
                      /\ own[p][PG(v)] # NoFrame =>
                            content[own[c][PG(v)]] = content[own[p][PG(v)]]
  BY <1>1 DEF IInv, Contents, ContentsOf
<1>4. /\ pc'[p] \notin Gone /\ pc'[c] \notin Gone /\ pc[p] \notin Gone
      /\ \A q \in Proc \ {p, c} : pc'[q] = pc[q]
  BY <1>1, <1>2 DEF IInv, TypeOK, Gone
<1>5. \A v \in Page : Sees(c, v)' = Sees(p, v)
  BY <1>1, <1>3, <1>4 DEF Sees
<1>6. \A q \in Proc \ {c} : \A v \in Page : Sees(q, v)' = Sees(q, v)
  BY <1>1, <1>4 DEF Sees
<1>7. Mem' = [Mem EXCEPT ![c] = Mem[p]]
  BY <1>2, <1>5, <1>6 DEF Mem
<1>8. Mem[p] # Memory!Absent /\ Mem[c] = Memory!Absent
  BY <1>2, <1>4, SeesSomething DEF IInv, Gone
<1> QED BY <1>2, <1>7, <1>8 DEF Memory!Fork

\* A page that exec has unmapped is seen blank.
LEMMA ExecUnmapRefines ==
  ASSUME IInv, NEW p \in Proc, ExecUnmap(p)
  PROVE  \E v \in Page : Memory!Clear(p, v)
<1> PICK v : v = Min(todo[p])
  OBVIOUS
<1>1. /\ pc[p] = "exec" /\ todo[p] # {}
      /\ own' = [own EXCEPT ![p][PG(v)] = NoFrame]
      /\ pc' = [pc EXCEPT ![p] = "execFree"]
      /\ UNCHANGED content
  BY DEF ExecUnmap, Runs, Goto, pool
<1>2. todo[p] \subseteq Page
  BY DEF IInv, TypeOK
<1>3. v \in Page
  BY <1>1, <1>2, MinNat DEF Page
<1>4. /\ \A w \in Page : own'[p][PG(w)] = IF w = v THEN NoFrame ELSE own[p][PG(w)]
      /\ \A q \in Proc \ {p} : own'[q] = own[q]
  BY <1>1, <1>3, SlotNames DEF IInv, TypeOK
<1>5. pc[p] \notin Gone /\ \A q \in Proc : pc'[q] \in Gone <=> pc[q] \in Gone
  BY <1>1 DEF IInv, TypeOK, Gone
<1>6. Sees(p, v)' = "blank"
  BY <1>3, <1>4, <1>5 DEF Sees
<1>7. \A q \in Proc, w \in Page : q # p \/ w # v => Sees(q, w)' = Sees(q, w)
  BY <1>1, <1>4, <1>5 DEF Sees
<1>8. Mem' = [Mem EXCEPT ![p][v] = "blank"]
  BY <1>3, <1>6, <1>7, OnePage
<1>9. Mem[p] # Memory!Absent
  BY <1>5, SeesSomething DEF IInv
<1> QED BY <1>3, <1>8, <1>9 DEF Memory!Clear

\* Nobody sees the frame of an unmapped page being given back.
LEMMA FreeUnseen ==
  ASSUME IInv, NEW p \in Proc, ExecFree(p)
  PROVE  Mem' = Mem
<1>1. /\ pc[p] = "execFree" /\ pc' = [pc EXCEPT ![p] = "exec"] /\ own' = own
      /\ content' = [content EXCEPT ![frame[p]] = "link"]
  BY DEF ExecFree, FreeFrame, Runs, Goto
<1>2. \A g \in Frame : content'[g] = content[g] \/ g = frame[p]
  BY <1>1 DEF IInv, TypeOK
<1>3. \A q \in Proc : pc'[q] \in Gone <=> pc[q] \in Gone
  BY <1>1 DEF IInv, TypeOK, Gone
<1> QED BY <1>1, <1>2, <1>3, SeesKept, Unseen DEF IInv

\* Nor what happens to the address space of a process that is gone.
LEMMA GoneUnseen ==
  ASSUME IInv, NEW p \in Proc, pc[p] \in Gone, pc'[p] \in Gone,
         \A q \in Proc \ {p} : own'[q] = own[q] /\ pc'[q] = pc[q],
         \A g \in Frame : content'[g] = content[g] \/ \E s \in Slot : g = own[p][s]
  PROVE  Mem' = Mem
<1>1. ASSUME NEW q \in Proc \ {p}
      PROVE  \A w \in Page : Sees(q, w)' = Sees(q, w)
  BY SeesKept DEF IInv
<1>2. \A w \in Page : Sees(p, w)' = Sees(p, w)
  BY DEF Sees
<1> QED BY <1>1, <1>2, Unseen

\* So nobody sees a process being deleted.
LEMMA DeleteUnseen ==
  ASSUME IInv, Deletion, NEW t \in Thread, NEW p \in Proc,
         Reap(p) \/ Destroy(t, p) \/ (GiveBack(t) /\ p = victim[t])
  PROVE  Mem' = Mem
<1>0. DOMAIN pc = Proc /\ DOMAIN own = Proc /\ DOMAIN content = Frame
  BY DEF IInv, TypeOK
<1>1. CASE Reap(p)
  <2>1. /\ pc[p] = "dead" /\ pc' = [pc EXCEPT ![p] = "absent"] /\ own' = [own EXCEPT ![p] = Empty]
        /\ content' = [f \in Frame |-> IF f \in {own[p][s] : s \in Left(p)} THEN "link" ELSE content[f]]
    BY <1>1 DEF Reap, Goto
  <2>2. \A g \in Frame : content'[g] = content[g] \/ \E s \in Slot : g = own[p][s]
    BY <2>1 DEF Left
  <2> QED BY <1>0, <2>1, <2>2, GoneUnseen DEF Gone
<1>2. CASE Destroy(t, p)
  <2>1. pc[p] = "dead" /\ pc' = [pc EXCEPT ![p] = "dying"] /\ UNCHANGED <<own, content>>
    BY <1>2 DEF Destroy, Goto, pool
  <2> QED BY <1>0, <2>1, GoneUnseen DEF Gone
<1>3. CASE GiveBack(t) /\ p = victim[t]
  <2>1. PICK s \in Slot : /\ content' = [content EXCEPT ![own[p][s]] = "link"]
                          /\ own' = [own EXCEPT ![p][s] = NoFrame]
    BY <1>3 DEF GiveBack, FreeFrame, Left
  <2>2. pc[p] = "dying" /\ (pc' = pc \/ pc' = [pc EXCEPT ![p] = "absent"])
    BY <1>3, ProcAssumption DEF GiveBack, Goto, Deletion
  <2>3. \A g \in Frame : content'[g] = content[g] \/ g = own[p][s]
    BY <1>0, <2>1
  <2>4. \A q \in Proc \ {p} : own'[q] = own[q] /\ pc'[q] = pc[q]
    BY <1>0, <2>1, <2>2
  <2> QED BY <1>0, <2>2, <2>3, <2>4, GoneUnseen DEF Gone
<1> QED BY <1>1, <1>2, <1>3

\* A process that has exited sees nothing more.
LEMMA ExitRefines ==
  ASSUME IInv, NEW p \in Proc, Exit(p)
  PROVE  Memory!Exit(p)
<1>1. pc' = [pc EXCEPT ![p] = "dead"] /\ UNCHANGED <<own, content>>
  BY DEF Exit, Goto, pool
<1>2. pc'[p] \in Gone /\ \A q \in Proc \ {p} : pc'[q] = pc[q]
  BY <1>1 DEF IInv, TypeOK, Gone
<1>3. \A v \in Page : Sees(p, v)' = "nothing"
  BY <1>2 DEF Sees
<1>4. \A q \in Proc \ {p} : \A v \in Page : Sees(q, v)' = Sees(q, v)
  BY <1>1, <1>2 DEF Sees
<1>5. Mem' = [Mem EXCEPT ![p] = Memory!Absent]
  BY <1>3, <1>4 DEF Mem, Memory!Absent
<1> QED BY <1>5 DEF Memory!Exit

\* Where processes are in their work is not seen.
LEMMA OtherUnseen ==
  ASSUME IInv, NEW p \in Proc,
         \/ \E v \in Page : Fault(p, v)
         \/ \E c \in Proc : Fork(p, c)
         \/ Exec(p) \/ ExecEnd(p)
         \/ \E q \in Thread : Dispatch(q)
  PROVE  Mem' = Mem
<1>1. ASSUME NEW v \in Page, Fault(p, v)
      PROVE  Mem' = Mem
  <2>1. CASE NoMoreFrames
    BY <2>1 DEF NoMoreFrames, pool, Mem, Sees
  <2>2. CASE ~NoMoreFrames
    <3>1. /\ CanAlloc /\ Alloc("blank") /\ own' = own
          /\ pc[p] = "user" /\ pc' = [pc EXCEPT ![p] = "map"]
      BY <1>1, <2>2 DEF Fault, Runs, Goto
    <3>2. \A q \in Proc : pc'[q] \in Gone <=> pc[q] \in Gone
      BY <3>1 DEF IInv, TypeOK, Gone
    <3> QED BY <3>1, <3>2, AllocUnseen
  <2> QED BY <2>1, <2>2
<1>2. ASSUME NEW c \in Proc, Fork(p, c)
      PROVE  Mem' = Mem
  <2>1. /\ pc[p] = "user" /\ pc[c] = "absent" /\ UNCHANGED <<own, content>>
        /\ pc' = [pc EXCEPT ![p] = "forkPd", ![c] = "building"]
    BY <1>2 DEF Fork, Runs, pool
  <2>2. \A q \in Proc : pc'[q] \in Gone <=> pc[q] \in Gone
    BY <2>1 DEF IInv, TypeOK, Gone
  <2>3. \A q \in Proc : \A w \in Page : Sees(q, w)' = Sees(q, w)
    BY <2>1, <2>2 DEF Sees
  <2> QED BY <2>3, Unseen
<1>3. CASE Exec(p) \/ ExecEnd(p)
  <2>1. /\ pc[p] \in {"user", "exec"} /\ UNCHANGED <<own, content>>
        /\ \E l \in {"user", "exec"} : pc' = [pc EXCEPT ![p] = l]
    BY <1>3 DEF Exec, ExecEnd, Runs, Goto, pool
  <2>2. \A q \in Proc : pc'[q] \in Gone <=> pc[q] \in Gone
    BY <2>1 DEF IInv, TypeOK, Gone
  <2>3. \A q \in Proc : \A w \in Page : Sees(q, w)' = Sees(q, w)
    BY <2>1, <2>2 DEF Sees
  <2> QED BY <2>3, Unseen
<1>4. ASSUME NEW q \in Thread, Dispatch(q)
      PROVE  Mem' = Mem
  BY <1>4 DEF Dispatch, pool, Mem, Sees
<1> QED BY <1>1, <1>2, <1>3, <1>4

\* Every step is a step of PrivateMemory, or none.
LEMMA StepRefines ==
  ASSUME IInv, Deletion, [Next]_vars
  PROVE  [Memory!Next]_Mem
<1>1. CASE UNCHANGED vars
  BY <1>1 DEF vars, pool, Mem, Sees
<1>2. ASSUME NEW p \in Proc, NEW v \in Page, Access(p, v)
      PROVE  Memory!Next
  BY <1>2, AccessRefines DEF Memory!Next
<1>3. ASSUME NEW p \in Proc, ForkEnd(p)
      PROVE  Memory!Next
  BY <1>3, ForkEndRefines DEF Memory!Next
<1>4. ASSUME NEW p \in Proc, ExecUnmap(p)
      PROVE  Memory!Next
  BY <1>4, ExecUnmapRefines DEF Memory!Next
<1>5. ASSUME NEW p \in Proc, Exit(p)
      PROVE  Memory!Next
  BY <1>5, ExitRefines DEF Memory!Next
<1>6. ASSUME NEW p \in Proc,
             Map(p) \/ ForkPd(p) \/ ForkLow(p) \/ ForkCopy(p) \/ ForkMap(p)
             \/ ExecFree(p)
      PROVE  Mem' = Mem
  BY <1>6, MapUnseen, ForkUnseen, FreeUnseen
<1>7. ASSUME NEW p \in Proc,
             \/ \E v \in Page : Fault(p, v)
             \/ \E c \in Proc : Fork(p, c)
             \/ Exec(p) \/ ExecEnd(p)
      PROVE  Mem' = Mem
  BY <1>7, OtherUnseen
<1>8. ASSUME \E q \in Thread : Dispatch(q)
      PROVE  Mem' = Mem
  BY <1>8, OtherUnseen, ProcAssumption
<1>9. ASSUME NEW t \in Thread, NEW p \in Proc, Reap(p) \/ Destroy(t, p)
      PROVE  Mem' = Mem
  BY <1>9, DeleteUnseen
<1>10. ASSUME NEW t \in Thread, GiveBack(t)
       PROVE  Mem' = Mem
  <2>1. victim[t] \in Proc
    BY <1>10 DEF GiveBack, Deletion
  <2> QED BY <1>10, <2>1, DeleteUnseen
<1>11. Idle \in Thread
  BY DEF Thread
<1> QED BY <1>1, <1>2, <1>3, <1>4, <1>5, <1>6, <1>7, <1>8, <1>9, <1>10, <1>11 DEF Next

\* Each process has memory of its own, that fork copies and exec clears:
\* whatever its frames, tables and TLB go through, it sees what it has written,
\* never what another has, and a new page blank.
THEOREM MemoryIsPrivate == Spec => ImplementsPrivateMemory
<1>1. Init => Memory!Init
  BY InitRefines
<1>2. IInv /\ Deletion /\ [Next]_vars => [Memory!Next]_Mem
  BY StepRefines
<1> QED BY <1>1, <1>2, Inductive, PTL DEF Spec, ImplementsPrivateMemory, Memory!Spec
=============================================================================
