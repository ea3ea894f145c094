------------------------------ MODULE Strings ------------------------------
(***************************************************************************)
(* The string functions of the user library.  A string is the sequence of  *)
(* its characters before the 0 that ends it.                               *)
(***************************************************************************)
EXTENDS Integers, Sequences, SequencesExt

CONSTANT Granule         \* a block of the heap has this many bytes or more
                         \* of them, two at least: 4, an int

ASSUME StringsAssumption == Granule \in Nat \ {0}

Tab == 9
Space == 32

(* append: "insert" is put into "subject" before position pos (from 0).    *)
AppendAt(subject, insert, pos) ==
    SubSeq(subject, 1, pos) \o insert \o SubSeq(subject, pos + 1, Len(subject))

AddChar(str, pos, c) == AppendAt(str, <<c>>, pos)

\* Mutant: the character behind the cursor is deleted, not the one at pos.
DeleteCharNext(str, pos) ==
    SubSeq(str, 1, pos + 1) \o SubSeq(str, pos + 3, Len(str))

DeleteChar(str, pos) == SubSeq(str, 1, pos) \o SubSeq(str, pos + 2, Len(str))

(* deleteChar allocates as many bytes as "str" has characters and ends the *)
(* new string one byte further.  With such a length the byte may be one of *)
(* the tag that ends the block (or the block was larger than asked for).   *)
DeleteOverruns(str) == Len(str) >= 2 * Granule /\ Len(str) % Granule = 0

-----------------------------------------------------------------------------
NonBlank(s) == {i \in 1 .. Len(s) : s[i] # Space}

(* From the first character that is no space to the last one.              *)
Strip(s) ==
    IF NonBlank(s) = {} THEN << >> ELSE SubSeq(s, Min(NonBlank(s)), Max(NonBlank(s)))

(* A space is copied only if the character before it is none.              *)
Squeeze(s) ==
    FoldLeft(LAMBDA out, i : IF s[i] = Space /\ s[i - 1] = Space THEN out ELSE Append(out, s[i]),
             << >>, [i \in 1 .. Len(s) |-> i])

TrimSpace(s) == Squeeze(Strip([i \in DOMAIN s |-> IF s[i] = Tab THEN Space ELSE s[i]]))

(* One token more than there are spaces; token k goes up to the k-th of    *)
(* them.  For a string of spaces there are none.                           *)
Tokenize(s) ==
    LET str == TrimSpace(s)
        spaces == SetToSortSeq({i \in 1 .. Len(str) : str[i] = Space}, <)
        stops == <<0>> \o spaces \o <<Len(str) + 1>>
    IN  IF str = << >> THEN << >>
        ELSE [k \in 1 .. Len(spaces) + 1 |-> SubSeq(str, stops[k] + 1, stops[k + 1] - 1)]

(* The words of a line by definition: its longest runs without a space.    *)
Words(s) ==
    LET blank(i) == i \notin 1 .. Len(s) \/ s[i] \in {Space, Tab}
        first == SetToSortSeq({i \in 1 .. Len(s) : ~blank(i) /\ blank(i - 1)}, <)
        last(i) == Min({j \in i .. Len(s) : blank(j + 1)})
    IN  [k \in DOMAIN first |-> SubSeq(s, first[k], last(first[k]))]
=============================================================================
