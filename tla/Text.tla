-------------------------------- MODULE Text --------------------------------
(***************************************************************************)
(* Texts as sequences of characters, or of words where the characters of a *)
(* word do not matter.                                                     *)
(***************************************************************************)
EXTENDS Naturals, Sequences

Positions(token, s) == {i \in DOMAIN s : s[i] = token}
Before(i, s)        == SubSeq(s, 1, i - 1)
After(i, s)         == SubSeq(s, i + 1, Len(s))

Leftmost(S)  == CHOOSE i \in S : \A j \in S : i <= j
Rightmost(S) == CHOOSE i \in S : \A j \in S : i >= j

(* Without what it has of the given characters at its ends.                *)
Strip(s, characters) ==
    LET inner == {i \in DOMAIN s : s[i] \notin characters}
    IN  IF inner = {} THEN <<>> ELSE SubSeq(s, Leftmost(inner), Rightmost(inner))
=============================================================================
