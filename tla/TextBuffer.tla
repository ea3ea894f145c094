----------------------------- MODULE TextBuffer -----------------------------
(***************************************************************************)
(* What editing a text promises: a text, a position in it, and keys that   *)
(* insert or delete a character at the position or move it.  gets (a line) *)
(* and the editor (a file) are shown to implement it.                      *)
(***************************************************************************)
EXTENDS Naturals, Sequences

CONSTANTS Char,       \* the characters of a text
          Texts       \* the texts that editing can begin with

VARIABLES active, text, pos

Init == active = FALSE /\ text = << >> /\ pos = 0

Begin ==
    /\ ~active /\ active'
    /\ text' \in Texts
    /\ pos' = 0

Finish == active /\ ~active' /\ text' = << >> /\ pos' = 0

Insert(c) ==
    /\ active /\ active'
    /\ text' = (SubSeq(text, 1, pos) \o <<c>>) \o SubSeq(text, pos + 1, Len(text))
    /\ pos' = pos + 1

Delete ==
    /\ active /\ active' /\ pos > 0
    /\ text' = SubSeq(text, 1, pos - 1) \o SubSeq(text, pos + 1, Len(text))
    /\ pos' = pos - 1

Move ==
    /\ active /\ active'
    /\ text' = text
    /\ pos' \in 0 .. Len(text)

Next == Begin \/ Finish \/ (\E c \in Char : Insert(c)) \/ Delete \/ Move

Spec == Init /\ [][Next]_<<active, text, pos>>
=============================================================================
