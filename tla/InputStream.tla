---------------------------- MODULE InputStream ----------------------------
(***************************************************************************)
(* What the kernel's console input promises to the processes that read it: *)
(* a first-in first-out stream of at most N characters.  Each character    *)
(* goes to exactly one of the readers that have asked for one.             *)
(***************************************************************************)
EXTENDS Naturals, Sequences

CONSTANTS Reader, Char, N, NoChar

VARIABLES
  stream,   \* the characters typed and not yet read
  asking,   \* the readers inside get
  got       \* the character a reader has got and not yet returned with

vars == <<stream, asking, got>>

Init ==
  /\ stream = << >>
  /\ asking = {}
  /\ got = [r \in Reader |-> NoChar]

Put(c) ==
  /\ Len(stream) < N
  /\ stream' = Append(stream, c)
  /\ UNCHANGED <<asking, got>>

Ask(r) ==
  /\ r \notin asking
  /\ got[r] = NoChar
  /\ asking' = asking \cup {r}
  /\ UNCHANGED <<stream, got>>

Take(r) ==
  /\ r \in asking
  /\ stream # << >>
  /\ got' = [got EXCEPT ![r] = Head(stream)]
  /\ stream' = Tail(stream)
  /\ asking' = asking \ {r}

Return(r) ==
  /\ got[r] # NoChar
  /\ got' = [got EXCEPT ![r] = NoChar]
  /\ UNCHANGED <<stream, asking>>

Next == \/ \E c \in Char : Put(c)
        \/ \E r \in Reader : Ask(r) \/ Take(r) \/ Return(r)

Spec == Init /\ [][Next]_vars
============================================================================
