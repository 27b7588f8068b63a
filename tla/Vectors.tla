------------------------------ MODULE Vectors -------------------------------
(***************************************************************************)
(* A std::vector as a sequence, and what erase() makes of it.              *)
(***************************************************************************)
EXTENDS Naturals, Sequences

Elems(s) == {s[i] : i \in 1..Len(s)}

Distinct(s) == \A i, n \in 1..Len(s) : s[i] = s[n] => i = n

\* erase(begin() + j - 1): the later elements have moved down one place, and the
\* vector is still as long as it was: the last element is there twice.
MovedDown(s, j) ==
  [i \in 1..Len(s) |-> IF i >= j /\ i < Len(s) THEN s[i + 1] ELSE s[i]]

\* The vector without its last place.
Shrunk(s) == SubSeq(s, 1, Len(s) - 1)
=============================================================================
