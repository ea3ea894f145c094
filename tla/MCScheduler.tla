---------------------------- MODULE MCScheduler ----------------------------
(* Instances of Scheduler for TLC. *)
EXTENDS Scheduler, TLC

\* The processes that are not the primordial one are interchangeable.
Children == Permutations(Proc \ {InitProc})

\* The keyboard's buffer has room for one character.
BufferCounts == [s \in Sem |-> IF s = nEmpty THEN 1 ELSE 0]
============================================================================
