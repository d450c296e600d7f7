------------------------------- MODULE Lists --------------------------------
(* What a loop over a Python list does when it appends the elements it       *)
(* wants to a new list.                                                     *)
EXTENDS Naturals, Sequences

\* The elements of s that are in S, in their order.
Select(s, S) ==
  LET taken[i \in 0 .. Len(s)] ==
        IF i = 0 THEN <<>>
        ELSE IF s[i] \in S THEN Append(taken[i - 1], s[i])
        ELSE taken[i - 1]
  IN taken[Len(s)]
=============================================================================
