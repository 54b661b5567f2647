------------------------------ MODULE Filters ------------------------------
(***************************************************************************)
(* What a loop keeps of a sequence.  A recursive function, unlike          *)
(* SelectSeq, can be proved about.                                         *)
(***************************************************************************)
EXTENDS Naturals, Sequences

\* The elements of s at the positions in I, in their order.
Picked(s, I) ==
  LET picked[n \in 0..Len(s)] ==  \* of the first n
        IF n = 0 THEN <<>> ELSE IF n \in I THEN Append(picked[n - 1], s[n]) ELSE picked[n - 1]
  IN picked[Len(s)]
=============================================================================
