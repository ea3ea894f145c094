----------------------------- MODULE SimpleQueue -----------------------------
(***************************************************************************)
(* The doubly linked queue of the kernel.  Who is in it names its node: a  *)
(* process is never in two queues, nor twice in one (Scheduler's OneHome). *)
(***************************************************************************)
EXTENDS Integers, Sequences, FiniteSets, FiniteSetsExt

Nobody == 0

EmptyQueue == [first |-> Nobody, last |-> Nobody, node |-> << >>]

IsEmpty(q) == q.first = Nobody

AddTail(q, v) ==
    [first |-> IF IsEmpty(q) THEN v ELSE q.first, last |-> v,
     node |-> [u \in DOMAIN q.node \union {v} |->
                  IF u = v THEN [next |-> Nobody, prev |-> q.last]
                  ELSE IF u = q.last THEN [q.node[u] EXCEPT !.next = v] ELSE q.node[u]]]

(* The queue after its first node p has gone.                              *)
RemoveHead(q) ==
    LET p == q.first
        next == q.node[p].next
        rest == [u \in DOMAIN q.node \ {p} |-> q.node[u]]
    IN  IF next = Nobody THEN EmptyQueue
        ELSE [q EXCEPT !.first = next, !.node = [rest EXCEPT ![next].prev = Nobody]]

(* What a loop of removeHead gets out of the queue, in that order.         *)
Drained(q) ==
    LET after[k \in 0 .. Cardinality(DOMAIN q.node)] ==
          IF k = 0 THEN q ELSE RemoveHead(after[k - 1])
        n == Min({k \in 0 .. Cardinality(DOMAIN q.node) : IsEmpty(after[k])})
    IN  [k \in 1 .. n |-> after[k - 1].first]
=============================================================================
